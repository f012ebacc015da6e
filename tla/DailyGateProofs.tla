--------------------------- MODULE DailyGateProofs ---------------------------
(***************************************************************************)
(* The daily loops, for any length of the day, the hour and the sleep.     *)
(***************************************************************************)
EXTENDS DailyGate, TLAPS

-----------------------------------------------------------------------------
(* The clock, seen from the fresh hour.                                    *)

\* The first tick of the fresh hour, and the ticks since the clock last showed it.
FreshStart == TicksPerHour * FreshHour
Since == IF clock >= FreshStart THEN clock - FreshStart ELSE clock - FreshStart + Day

\* A product with a positive factor lies within that factor of 0 only if the other
\* factor is 0.
LEMMA SmallProduct ==
  ASSUME NEW n \in Nat \ {0}, NEW d \in Int, -n < n * d, n * d < n
  PROVE  d = 0
<1>1. d >= 0
  <2> SUFFICES ASSUME d <= -1 PROVE FALSE
    OBVIOUS
  <2>1. n * d <= n * (-1)
    OBVIOUS
  <2> QED
    BY <2>1
<1>2. d <= 0
  <2> SUFFICES ASSUME d >= 1 PROVE FALSE
    OBVIOUS
  <2>1. n * d >= n * 1
    OBVIOUS
  <2> QED
    BY <2>1
<1> QED
  BY <1>1, <1>2

\* An hour is the ticks from its first one to the next hour's.
LEMMA HourIs ==
  ASSUME NEW c \in Nat, NEW n \in Nat \ {0}, NEW h \in Int
  PROVE  (c \div n = h) <=> (n * h <= c /\ c < n * h + n)
<1> DEFINE p == c \div n
<1>1. p \in Nat /\ n * p <= c /\ c < n * p + n
  OBVIOUS
<1> HIDE DEF p
<1>2. ASSUME n * h <= c, c < n * h + n PROVE p = h
  <2>1. n * (p - h) = n * p - n * h
    BY <1>1
  <2>2. -n < n * (p - h) /\ n * (p - h) < n
    BY <1>1, <1>2, <2>1
  <2>3. p - h = 0
    BY <1>1, <2>2, SmallProduct
  <2> QED
    BY <1>1, <2>3
<1>3. p = h => n * h <= c /\ c < n * h + n
  BY <1>1
<1> QED
  BY <1>2, <1>3 DEF p

LEMMA NextTick ==
  ASSUME NEW n \in Nat \ {0}, NEW c \in 0 .. n - 1
  PROVE  (c + 1) % n = IF c = n - 1 THEN 0 ELSE c + 1
<1>1. CASE c = n - 1
  <2>1. n % n = 0
    OBVIOUS
  <2> QED
    BY <1>1, <2>1
<1>2. CASE c # n - 1
  BY <1>2
<1> QED
  BY <1>1, <1>2

\* A day has at least three hours, and the fresh hour is one of them.
LEMMA DayLength ==
  /\ TicksPerHour \in Nat \ {0} /\ Day \in Nat /\ FreshStart \in Nat
  /\ Day >= 3 * TicksPerHour /\ FreshStart + TicksPerHour <= Day
<1> USE ClockAssumption DEF Day, FreshStart
<1>1. TicksPerHour * Hours >= TicksPerHour * 3
  OBVIOUS
<1>2. TicksPerHour * (FreshHour + 1) <= TicksPerHour * Hours
  OBVIOUS
<1>3. TicksPerHour * (FreshHour + 1) = TicksPerHour * FreshHour + TicksPerHour
  OBVIOUS
<1> QED
  BY <1>1, <1>2, <1>3

\* The looks at the clock, in terms of Since.
LEMMA Looks ==
  ASSUME clock \in 0 .. Day - 1
  PROVE  /\ Since \in 0 .. Day - 1
         /\ Hour = FreshHour <=> Since < TicksPerHour
         /\ NextHour = FreshHour <=> Since >= Day - TicksPerHour
<1> USE ClockAssumption, DayLength
<1>1. Since \in 0 .. Day - 1
  BY DEF Since
<1>2. Hour = FreshHour <=> Since < TicksPerHour
  <2>1. Hour = FreshHour <=> (FreshStart <= clock /\ clock < FreshStart + TicksPerHour)
    BY HourIs DEF Hour, FreshStart
  <2> QED
    BY <2>1 DEF Since
<1>3. NextHour = FreshHour <=> Since >= Day - TicksPerHour
  <2>1. Hour \in Int
    BY DEF Hour
  <2>2. CASE FreshHour = 0
    <3>1. TicksPerHour * (Hours - 1) = Day - TicksPerHour
      BY DEF Day
    <3>2. Hour = Hours - 1 <=> clock >= Day - TicksPerHour
      BY <3>1, HourIs DEF Hour
    <3>3. FreshStart = 0
      BY <2>2 DEF FreshStart
    <3>4. Hour >= 0
      BY DEF Hour
    <3> QED
      BY <2>1, <2>2, <3>2, <3>3, <3>4 DEF NextHour, Since
  <2>3. CASE FreshHour # 0
    <3>1. TicksPerHour * (FreshHour - 1) = FreshStart - TicksPerHour
      BY DEF FreshStart
    <3>2. Hour = FreshHour - 1 <=> (FreshStart - TicksPerHour <= clock /\ clock < FreshStart)
      BY <2>3, <3>1, HourIs DEF Hour
    <3>3. NextHour = FreshHour <=> Hour = FreshHour - 1
      BY <2>1, <2>3 DEF NextHour
    <3>4. TicksPerHour * FreshHour >= TicksPerHour * 1
      BY <2>3
    <3>5. FreshStart >= TicksPerHour
      BY <3>4 DEF FreshStart
    <3> QED
      BY <3>2, <3>3, <3>5 DEF Since
  <2> QED
    BY <2>2, <2>3
<1> QED
  BY <1>1, <1>2, <1>3

\* The hours of the clock are hours of the day.
LEMMA HoursOfDay ==
  ASSUME clock \in 0 .. Day - 1
  PROVE  Hour \in 0 .. Hours - 1 /\ NextHour \in 0 .. Hours - 1
<1> USE ClockAssumption, DayLength
<1>1. Hour \in Nat
  BY DEF Hour
<1>2. TicksPerHour * Hour <= clock
  BY HourIs, <1>1 DEF Hour
<1>3. ASSUME Hour >= Hours PROVE FALSE
  <2>1. TicksPerHour * Hour >= TicksPerHour * Hours
    BY <1>1, <1>3
  <2>2. TicksPerHour * Hours = Day
    BY DEF Day
  <2> QED
    BY <1>1, <1>2, <2>1, <2>2
<1> QED
  BY <1>1, <1>3 DEF NextHour

LEMMA TickSince ==
  ASSUME clock \in 0 .. Day - 1, clock' = (clock + 1) % Day
  PROVE  /\ clock' \in 0 .. Day - 1
         /\ Since' = IF Since = Day - 1 THEN 0 ELSE Since + 1
         /\ Begins(FreshHour) <=> Since' = 0
<1> USE DayLength
<1>1. clock' = IF clock = Day - 1 THEN 0 ELSE clock + 1
  BY NextTick
<1>2. clock' \in 0 .. Day - 1
  BY <1>1
<1>3. Since' = IF Since = Day - 1 THEN 0 ELSE Since + 1
  BY <1>1 DEF Since
<1>4. Begins(FreshHour) <=> clock' = FreshStart
  BY ClockAssumption DEF Begins, FreshStart
<1> QED
  BY <1>1, <1>2, <1>3, <1>4 DEF Since

-----------------------------------------------------------------------------
(* The inductive invariant.                                                *)

\* The jobs of the gate: without the one the thread began with.
Gated == IF jobFirst /\ ~sawBegin THEN jobs - 1 ELSE jobs

\* The flag is what keeps the gate shut after the gate's job of the hour.
Shut == Since < TicksPerHour /\ Gated = 1 => pc = "job" \/ ~freshTags

\* A job ends before the hour after the fresh hour does.
JobSoon == pc = "job" => Since < TicksPerHour + age /\ Gated = 1

\* In the hour before the fresh hour, while the flag is down, no look at the
\* clock has come since that hour began: the last one was at most an iteration
\* before the last gate.
Rearmed ==
  ~freshTags /\ Since >= Day - TicksPerHour =>
    /\ pc \in {"sleep", "gate"} => Since - (Day - TicksPerHour) < age
    /\ pc = "arm" => Since - (Day - TicksPerHour) < MaxIteration + age

\* In the fresh hour, as long as the job is due, the flag is up and no gate has
\* come since the hour began.
Due ==
  sawBegin /\ Since < TicksPerHour /\ jobs = 0 => freshTags /\ Since <= age

Paced ==
  /\ pc \in {"first", "sleep", "gate"} => slept <= age
  /\ pc \in {"first", "job", "arm"} => age <= MaxIteration - Sleep
  /\ pc = "first" => freshTags

\* The types of the variables; those of the hours follow.
Types ==
  /\ clock \in 0 .. Day - 1
  /\ freshTags \in BOOLEAN
  /\ pc \in {"first", "sleep", "gate", "job", "arm"}
  /\ age \in 0 .. MaxIteration
  /\ slept \in 0 .. MaxIteration
  /\ jobs \in Nat
  /\ sawBegin \in BOOLEAN
  /\ jobFirst \in BOOLEAN

Inv == Types /\ Gated \in 0 .. 1 /\ Shut /\ JobSoon /\ Rearmed /\ Due /\ Paced

LEMMA InitInv == GateInit => Inv
<1> SUFFICES ASSUME GateInit PROVE Inv
  OBVIOUS
<1> USE PaceAssumption, DayLength DEF GateInit
<1>1. Types
  <2>1. 0 \in 0 .. MaxIteration /\ 0 \in Nat
    OBVIOUS
  <2> QED
    BY <2>1 DEF Types
<1>2. Shut /\ JobSoon /\ Rearmed /\ Due
  BY DEF Shut, JobSoon, Rearmed, Due, Gated
<1>3. Gated \in 0 .. 1 /\ Paced
  BY DEF Gated, Paced
<1> QED
  BY <1>1, <1>2, <1>3 DEF Inv

LEMMA TickInv == Inv /\ GateTick => Inv'
<1> SUFFICES ASSUME Inv, GateTick PROVE Inv'
  OBVIOUS
<1> USE PaceAssumption, DayLength DEF Inv
<1>1. /\ age < (IF pc \in {"sleep", "gate"} THEN MaxIteration ELSE MaxIteration - Sleep)
      /\ clock' = (clock + 1) % Day /\ age' = age + 1
      /\ slept' = IF pc = "sleep" THEN slept + 1 ELSE slept
      /\ jobs' = IF Begins(FreshHour) THEN 0 ELSE jobs
      /\ sawBegin' = (sawBegin \/ Begins(FreshHour))
      /\ freshTags' = freshTags /\ pc' = pc /\ jobFirst' = jobFirst
  BY DEF GateTick
<1>2. /\ clock \in 0 .. Day - 1 /\ age \in 0 .. MaxIteration /\ slept \in 0 .. MaxIteration
      /\ jobs \in Nat /\ jobFirst \in BOOLEAN /\ Gated \in 0 .. 1
      /\ pc \in {"first", "sleep", "gate", "job", "arm"}
      /\ freshTags \in BOOLEAN /\ sawBegin \in BOOLEAN
  BY DEF Types
<1>3. /\ Since \in 0 .. Day - 1
      /\ clock' \in 0 .. Day - 1
      /\ Since' = IF Since = Day - 1 THEN 0 ELSE Since + 1
      /\ Begins(FreshHour) <=> Since' = 0
  BY <1>1, <1>2, Looks, TickSince
<1>4. Types' /\ Paced'
  <2>1. jobFirst' \in BOOLEAN /\ sawBegin' \in BOOLEAN /\ freshTags' \in BOOLEAN
    BY <1>1, <1>2, Zenon
  <2>2. clock' \in 0 .. Day - 1 /\ age' \in 0 .. MaxIteration /\ slept' \in 0 .. MaxIteration
    BY <1>1, <1>2, <1>3 DEF Paced
  <2>3. jobs' \in Nat /\ pc' \in {"first", "sleep", "gate", "job", "arm"}
    BY <1>1, <1>2
  <2>4. Paced'
    BY <1>1, <1>2 DEF Paced
  <2> QED
    BY <2>1, <2>2, <2>3, <2>4 DEF Types
\* When the fresh hour begins, the flag is up and no job is running.
<1>5. Since = Day - 1 => freshTags /\ pc # "job"
  <2>1. Since = Day - 1 => pc # "job"
    BY <1>1, <1>2, <1>3 DEF JobSoon
  <2>2. Since = Day - 1 /\ ~freshTags => FALSE
    BY <1>1, <1>2, <1>3, <2>1 DEF Rearmed, Paced
  <2> QED
    BY <1>2, <2>1, <2>2
<1>6. CASE Since = Day - 1
  <2>1. Since' = 0 /\ jobs' = 0 /\ freshTags' /\ pc' # "job"
    BY <1>1, <1>3, <1>5, <1>6
  <2>4. sawBegin' /\ Gated' = 0
    BY <1>1, <1>3, <2>1 DEF Gated
  <2>2. Shut' /\ JobSoon' /\ Rearmed'
    BY <2>1, <2>4 DEF Shut, JobSoon, Rearmed
  <2>3. Due'
    BY <1>1, <1>2, <2>1 DEF Due
  <2> QED
    BY <1>4, <2>2, <2>3, <2>4
<1>7. CASE Since # Day - 1
  <2>1. Since' = Since + 1 /\ jobs' = jobs /\ sawBegin' = sawBegin
    BY <1>1, <1>2, <1>3, <1>7
  <2>6. Gated' = Gated
    BY <1>1, <2>1 DEF Gated
  <2>2. Shut'
    BY <1>1, <1>2, <1>3, <2>1, <2>6 DEF Shut
  <2>3. JobSoon'
    BY <1>1, <1>2, <1>3, <2>1, <2>6 DEF JobSoon
  <2>4. Rearmed'
    <3>1. CASE Since < Day - TicksPerHour
      BY <1>1, <1>2, <1>3, <2>1, <3>1 DEF Rearmed
    <3>2. CASE Since >= Day - TicksPerHour
      BY <1>1, <1>2, <1>3, <2>1, <3>2 DEF Rearmed
    <3> QED
      BY <1>2, <1>3, <3>1, <3>2
  <2>5. Due'
    BY <1>1, <1>2, <1>3, <2>1 DEF Due
  <2> QED
    BY <1>2, <1>4, <2>2, <2>3, <2>4, <2>5, <2>6
<1> QED
  BY <1>6, <1>7

LEMMA LoopInv == Inv /\ Loop => Inv'
<1> SUFFICES ASSUME Inv, Loop PROVE Inv'
  OBVIOUS
<1> USE PaceAssumption, DayLength DEF Inv
<1>1. clock' = clock /\ sawBegin' = sawBegin /\ Since' = Since /\ jobFirst' = jobFirst
  BY DEF Loop, FirstJob, Wake, BeginJob, EndJob, GateShut, Arm, Since
<1>2. /\ clock \in 0 .. Day - 1 /\ age \in 0 .. MaxIteration /\ slept \in 0 .. MaxIteration
      /\ jobs \in Nat /\ jobFirst \in BOOLEAN /\ Gated \in 0 .. 1
      /\ pc \in {"first", "sleep", "gate", "job", "arm"}
      /\ freshTags \in BOOLEAN /\ sawBegin \in BOOLEAN
  BY DEF Types
<1>3. /\ Since \in 0 .. Day - 1
      /\ Hour = FreshHour <=> Since < TicksPerHour
      /\ NextHour = FreshHour <=> Since >= Day - TicksPerHour
  BY <1>2, Looks
<1> USE DEF Types, Shut, JobSoon, Rearmed, Due, Paced
<1>10. jobs' = jobs => Gated' = Gated
  BY <1>1 DEF Gated
<1>4. CASE FirstJob
  BY <1>1, <1>2, <1>3, <1>4, <1>10 DEF FirstJob
<1>5. CASE Wake
  BY <1>1, <1>2, <1>3, <1>5, <1>10 DEF Wake
<1>6. CASE BeginJob
  <2>1. /\ pc = "gate" /\ pc' = "job" /\ Since < TicksPerHour /\ freshTags
        /\ age' = 0 /\ jobs' = jobs + 1 /\ freshTags' = freshTags /\ slept' = slept
    BY <1>3, <1>6 DEF BeginJob
  <2>2. Gated' = Gated + 1
    BY <1>1, <1>2, <2>1 DEF Gated
  <2>3. Gated = 0
    BY <1>2, <2>1
  <2> QED
    BY <1>1, <1>2, <1>3, <2>1, <2>2, <2>3
<1>7. CASE EndJob
  <2>1. /\ pc = "job" /\ pc' = "arm" /\ freshTags' = FALSE
        /\ age' = age /\ slept' = slept /\ jobs' = jobs
    BY <1>7 DEF EndJob
  <2>2. Since < TicksPerHour + age /\ Gated = 1 /\ age <= MaxIteration - Sleep
    BY <2>1
  <2>3. Since - (Day - TicksPerHour) < MaxIteration + age
    BY <1>2, <1>3, <2>2
  <2>4. Types' /\ Gated' \in 0 .. 1 /\ Paced'
    BY <1>1, <1>2, <2>1, <2>2, <1>10
  <2>5. jobs # 0
    BY <1>2, <2>2 DEF Gated
  <2>6. Shut' /\ JobSoon' /\ Rearmed'
    BY <1>1, <2>1, <2>2, <2>3, <1>10
  <2>7. Due'
    BY <2>1, <2>5
  <2> QED
    BY <2>4, <2>6, <2>7
<1>8. CASE GateShut
  BY <1>1, <1>2, <1>3, <1>8, <1>10 DEF GateShut
<1>9. CASE Arm
  <2>1. /\ pc = "arm" /\ pc' = "sleep" /\ slept' = 0 /\ age' = age /\ jobs' = jobs
        /\ freshTags' = (freshTags \/ NextHour = FreshHour)
    BY <1>9 DEF Arm
  <2>2. Since < TicksPerHour => ~(NextHour = FreshHour)
    BY <1>3
  <2>3. /\ Since >= Day - TicksPerHour => freshTags'
        /\ freshTags => freshTags'
        /\ Since < TicksPerHour /\ ~freshTags => ~freshTags'
    BY <1>3, <2>1, <2>2
  <2>4. Types' /\ Gated' \in 0 .. 1 /\ Paced'
    BY <1>1, <1>2, <2>1, <1>10
  <2>5. Shut'
    BY <1>1, <1>10, <2>1, <2>3
  <2>6. JobSoon' /\ Rearmed' /\ Due'
    BY <1>1, <1>10, <2>1, <2>3
  <2> QED
    BY <2>4, <2>5, <2>6
<1> QED
  BY <1>4, <1>5, <1>6, <1>7, <1>8, <1>9 DEF Loop

LEMMA NextInv == Inv /\ [GateNext]_gateVars => Inv'
<1> SUFFICES ASSUME Inv, [GateNext]_gateVars PROVE Inv'
  OBVIOUS
<1>1. CASE UNCHANGED gateVars
  BY <1>1 DEF gateVars, Inv, Types, Shut, JobSoon, Rearmed, Due, Paced, Since, Gated
<1> QED
  BY <1>1, TickInv, LoopInv DEF GateNext

\* The types, with an iteration that keeps to its length and a sleep within it.
THEOREM TypesHold == GateSpec => []GateTypeOK
<1>1. Inv => GateTypeOK
  BY HoursOfDay DEF Inv, Types, GateTypeOK
<1> QED
  BY <1>1, InitInv, NextInv, PTL DEF GateSpec

\* However often the gate is looked at in the fresh hour, it lets one job begin
\* from one fresh hour to the next: there is another only before the first fresh
\* hour that the thread sees begin, the one a FreshThread began with.
THEOREM OnceADay == GateSpec => []AtMostOnce
<1>1. Inv => AtMostOnce
  BY DEF Inv, Types, Gated, AtMostOnce
<1> QED
  BY <1>1, InitInv, NextInv, PTL DEF GateSpec

\* No fresh hour is missed, and no job begins outside of one: for any number of
\* hours above two, any resolution, and any pace of at most half an hour.
THEOREM NoDayMissed == GateSpec => EveryDay
<1>1. Inv /\ [GateNext]_gateVars =>
        [/\ (pc' = "job" /\ pc # "job") => Hour = FreshHour
         /\ ((Hour = FreshHour /\ Hour' # FreshHour /\ sawBegin) => jobs > 0)]_gateVars
  <2> SUFFICES ASSUME Inv, GateNext
               PROVE  /\ (pc' = "job" /\ pc # "job") => Hour = FreshHour
                      /\ (Hour = FreshHour /\ Hour' # FreshHour /\ sawBegin) => jobs > 0
    OBVIOUS
  <2>1. (pc' = "job" /\ pc # "job") => Hour = FreshHour
    BY DEF GateNext, GateTick, Loop, FirstJob, Wake, BeginJob, EndJob, GateShut, Arm
  <2>2. ASSUME Hour = FreshHour, Hour' # FreshHour, sawBegin, ~(jobs > 0) PROVE FALSE
    <3>1. GateTick
      BY <2>2 DEF GateNext, Loop, FirstJob, Wake, BeginJob, EndJob, GateShut, Arm, Hour
    <3>2. /\ clock \in 0 .. Day - 1 /\ jobs = 0 /\ age \in 0 .. MaxIteration
      BY <2>2 DEF Inv, Types
    <3>3. /\ clock' \in 0 .. Day - 1
          /\ Since' = IF Since = Day - 1 THEN 0 ELSE Since + 1
      BY <3>1, <3>2, TickSince DEF GateTick
    <3>4. Since < TicksPerHour /\ Since \in 0 .. Day - 1
      BY <2>2, <3>2, Looks
    <3>5. ~(Since' < TicksPerHour)
      <4>1. PICK c \in Nat : c = clock' /\ c <= Day - 1
        BY <3>3, DayLength
      <4>2. c \div TicksPerHour = FreshHour <=> (FreshStart <= c /\ c < FreshStart + TicksPerHour)
        BY HourIs, ClockAssumption DEF FreshStart
      <4>3. c \div TicksPerHour # FreshHour
        BY <2>2, <4>1 DEF Hour
      <4>4. Since' = IF c >= FreshStart THEN c - FreshStart ELSE c - FreshStart + Day
        BY <4>1 DEF Since, FreshStart, Day
      <4>5. ~(FreshStart <= c /\ c < FreshStart + TicksPerHour)
        BY <4>2, <4>3
      <4>6. CASE c >= FreshStart
        <5>1. Since' = c - FreshStart /\ c - FreshStart >= TicksPerHour
          BY <4>4, <4>5, <4>6, DayLength
        <5> QED
          BY <5>1, DayLength
      <4>7. CASE ~(c >= FreshStart)
        <5>1. Since' = c - FreshStart + Day /\ c - FreshStart + Day >= TicksPerHour
          BY <4>4, <4>7, DayLength
        <5> QED
          BY <5>1, DayLength
      <4> QED
        BY <4>6, <4>7
    <3>6. Since <= age
      BY <2>2, <3>2, <3>4 DEF Inv, Due
    <3>7. age < MaxIteration
      BY <3>1, <3>2, PaceAssumption DEF GateTick
    <3> QED
      BY <3>2, <3>3, <3>4, <3>5, <3>6, <3>7, PaceAssumption, DayLength
  <2> QED
    BY <2>1, <2>2
<1> QED
  BY <1>1, InitInv, NextInv, PTL DEF GateSpec, EveryDay
=============================================================================
