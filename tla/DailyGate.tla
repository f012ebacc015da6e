------------------------------ MODULE DailyGate ------------------------------
(***************************************************************************)
(* The loop that runs a job once a day: FreshThread::run                   *)
(* (src/src/dyeing_handler.cc), whose job is flushFreshUserPolicy, and     *)
(* ClearThread::run (src/src/fresh_kafka.cc), whose job is                 *)
(* DyeingCurrentFresh::clear.                                              *)
(*                                                                         *)
(* The loop sleeps, runs the job if the clock shows the hour fresh_hour    *)
(* and the flag _fresh_tags is up, then takes the flag down; in the hour   *)
(* before fresh_hour it puts the flag up again.  The clock is read twice   *)
(* per iteration, and the job runs between the two reads.  FreshThread     *)
(* runs a first job before it sleeps, past the gate and with no regard for *)
(* the flag, which stays up: a process that starts in the fresh hour runs  *)
(* the job twice in it.                                                    *)
(*                                                                         *)
(* The clock goes round one day, in ticks; an hour is some of them.        *)
(***************************************************************************)
EXTENDS Integers

CONSTANTS
  Hours,         \* hours of a day (24)
  TicksPerHour,  \* resolution of the clock
  FreshHour,     \* fresh_hour of the configuration
  Sleep,         \* ticks the loop sleeps at least (10 minutes)
  MaxIteration   \* ticks between two checks of the gate, at most

\* An iteration, with its job, takes at most half an hour, so that both looks at
\* the clock, which may be an iteration and a half apart, fall in every hour.
ASSUME ClockAssumption ==
  /\ Hours \in Nat /\ Hours > 2
  /\ TicksPerHour \in Nat \ {0}
  /\ FreshHour \in 0 .. Hours - 1
ASSUME PaceAssumption ==
  /\ Sleep \in Nat /\ MaxIteration \in Nat
  /\ Sleep <= MaxIteration /\ 2 * MaxIteration <= TicksPerHour

VARIABLES
  clock,      \* time of day
  freshTags,  \* _fresh_tags
  pc,         \* where the thread is in its loop
  age,        \* ticks since it last came to the gate
  slept,      \* ticks of the current sleep
  jobs,       \* jobs begun since the fresh hour last began
  sawBegin,   \* whether it has begun since the thread started
  jobFirst    \* whether the thread begins with a job: it is the FreshThread

gateVars == <<clock, freshTags, pc, age, slept, jobs, sawBegin, jobFirst>>

Day  == Hours * TicksPerHour
Hour == clock \div TicksPerHour

\* MUTANT of NextHour: 23 is not followed by 0.
NextHourUnwrapped == Hour + 1

\* getAbTimeOfHour(false): tm_hour + 1, and 0 after 23.
NextHour == IF Hour = Hours - 1 THEN 0 ELSE Hour + 1

\* The clock moves to the first tick of hour h.
Begins(h) == clock' = h * TicksPerHour

\* FreshThread is in its first job, ClearThread in its first sleep.
GateInit ==
  /\ clock \in 0 .. Day - 1
  /\ freshTags = TRUE
  /\ jobFirst \in BOOLEAN
  /\ pc = IF jobFirst THEN "first" ELSE "sleep"
  /\ age = 0
  /\ slept = 0
  /\ jobs = IF jobFirst THEN 1 ELSE 0
  /\ sawBegin = FALSE

\* An iteration keeps to its length: what is still to be slept is left over.
GateTick ==
  /\ age < (IF pc \in {"sleep", "gate"} THEN MaxIteration ELSE MaxIteration - Sleep)
  /\ clock' = (clock + 1) % Day
  /\ age' = age + 1
  /\ slept' = IF pc = "sleep" THEN slept + 1 ELSE slept
  /\ jobs' = IF Begins(FreshHour) THEN 0 ELSE jobs
  /\ sawBegin' = (sawBegin \/ Begins(FreshHour))
  /\ UNCHANGED <<freshTags, pc, jobFirst>>

\* The job FreshThread runs before it first sleeps ends: the flag stays as it is.
FirstJob ==
  /\ pc = "first"
  /\ pc' = "sleep"
  /\ UNCHANGED <<clock, freshTags, age, slept, jobs, sawBegin, jobFirst>>

Wake ==
  /\ pc = "sleep"
  /\ slept >= Sleep
  /\ pc' = "gate"
  /\ UNCHANGED <<clock, freshTags, age, slept, jobs, sawBegin, jobFirst>>

\* The gate opens: the job begins.
BeginJob ==
  /\ pc = "gate"
  /\ Hour = FreshHour /\ freshTags
  /\ pc' = "job"
  /\ age' = 0
  /\ jobs' = jobs + 1
  /\ UNCHANGED <<clock, freshTags, slept, sawBegin, jobFirst>>

\* MUTANT of EndJob: the flag stays up.
EndJobTagKept ==
  /\ pc = "job"
  /\ pc' = "arm"
  /\ UNCHANGED <<clock, freshTags, age, slept, jobs, sawBegin, jobFirst>>

\* It has ended, whether it succeeded or not.
EndJob ==
  /\ pc = "job"
  /\ freshTags' = FALSE
  /\ pc' = "arm"
  /\ UNCHANGED <<clock, age, slept, jobs, sawBegin, jobFirst>>

GateShut ==
  /\ pc = "gate"
  /\ Hour # FreshHour \/ ~freshTags
  /\ pc' = "arm"
  /\ age' = 0
  /\ UNCHANGED <<clock, freshTags, slept, jobs, sawBegin, jobFirst>>

\* MUTANT of Arm: the flag never goes up again.
ArmNever ==
  /\ pc = "arm"
  /\ pc' = "sleep"
  /\ slept' = 0
  /\ UNCHANGED <<clock, freshTags, age, jobs, sawBegin, jobFirst>>

\* In the hour before, the flag goes up; then the next sleep.
Arm ==
  /\ pc = "arm"
  /\ freshTags' = (freshTags \/ NextHour = FreshHour)
  /\ pc' = "sleep"
  /\ slept' = 0
  /\ UNCHANGED <<clock, age, jobs, sawBegin, jobFirst>>

Loop == FirstJob \/ Wake \/ BeginJob \/ EndJob \/ GateShut \/ Arm
GateNext == GateTick \/ Loop
GateSpec == GateInit /\ [][GateNext]_gateVars

\* Time passes, and the thread takes its steps.
GateFairSpec == GateSpec /\ WF_gateVars(GateTick) /\ WF_gateVars(Loop)

-----------------------------------------------------------------------------
\* The variables hold what they may, and the hours that are compared with
\* fresh_hour are hours of the day, also those printed for the hour after.
GateTypeOK ==
  /\ clock \in 0 .. Day - 1
  /\ freshTags \in BOOLEAN
  /\ pc \in {"first", "sleep", "gate", "job", "arm"}
  /\ age \in 0 .. MaxIteration
  /\ slept \in 0 .. MaxIteration
  /\ jobs \in Nat
  /\ sawBegin \in BOOLEAN
  /\ jobFirst \in BOOLEAN
  /\ {Hour, NextHour} \subseteq 0 .. Hours - 1

\* From one fresh hour to the next the job begins at most once, although the gate
\* is checked several times in the hour; only until a FreshThread has seen its
\* first fresh hour begin there may be two, the one it began with and one of the
\* gate (dyeing_handler.cc:55-63, a process started in the fresh hour).
AtMostOnce == jobs <= (IF jobFirst /\ ~sawBegin THEN 2 ELSE 1)

\* The gate lets a job begin only in the fresh hour, and no fresh hour that the
\* thread has seen from its start goes by without one: wherever in the hour the
\* looks at the clock fall, and however long the job took the day before.
EveryDay ==
  [][/\ (pc' = "job" /\ pc # "job") => Hour = FreshHour
     /\ ((Hour = FreshHour /\ Hour' # FreshHour /\ sawBegin) => jobs > 0)]_gateVars

\* The job runs again and again.
RunsForever == []<>(pc = "job")
=============================================================================
