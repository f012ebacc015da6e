------------------------------- MODULE LogFiles -------------------------------
(***************************************************************************)
(* What roll() does with files (src/common/inutil/util/inv_logger.h):      *)
(* INV_RollBySize keeps path.log and path1.log .. path<_maxNum - 1>.log,   *)
(* INV_RollByTime one file for each period.  Each opens its file again     *)
(* after some seconds, for the sake of a file someone removed: shown for   *)
(* the first, which looks at the size on that occasion only.               *)
(*                                                                         *)
(* One line a roll(); lines are numbered.  Directories are there.          *)
(***************************************************************************)
EXTENDS Integers, SequencesExt

CONSTANTS
  MaxNum,     \* _maxNum, at least 2
  MaxSize,    \* _maxSize, in lines
  Reopen,     \* seconds an open file is kept (5 by size, 10 by time)
  Day,        \* seconds of a period
  Zone,       \* how many seconds local time is ahead of UTC
  MaxLines,   \* bound: lines of a behaviour
  MaxTime     \* bound: the clock

PeriodAssumption == Day \in Nat \ {0} /\ Zone \in Int
FilesAssumption  == MaxNum \in Nat \ {0, 1} /\ MaxSize \in Nat /\ Reopen \in Nat
BoundsAssumption == MaxLines \in Nat /\ MaxTime \in Nat /\ Day <= MaxTime + 1

VARIABLES
  policy,     \* the RollPolicy: "size", "date", or "type" (with an InvLogType)
  now,        \* TNOW
  lt,         \* _lt: when the file was last closed for its age
  of,         \* what the stream is open on: "closed", "log", or "gone": a file
              \* that has no name any more
  files,      \* by size: the lines of path.log (0), path1.log (1), ...; an
              \* empty file and none are the same
  swept,      \* lines that went with the removal of the oldest file
  gone,       \* lines in files someone removed
  next,       \* number of the next line
  removed,    \* when someone removed path.log last, or -1
  late,       \* lines that went to a removed file although it was time to reopen
  cut,        \* by time: _next_time_t of the InvLogType
  current,    \* by time, with an InvLogType: the day in the name of the file
  dated       \* by time: pairs <<day of the line, day in the name of its file>>

bysize == <<lt, of, files, swept, gone, next, removed, late>>
bytime == <<cut, current, dated>>
vars   == <<policy, now, bysize, bytime>>



\* tm2str(t, "%Y%m%d"): the local date.
tm2str(t) == (t + Zone) \div Day

Init ==
  /\ policy \in {"size", "date", "type"}
  /\ now \in 0 .. Day - 1 /\ lt = now /\ of = "closed"
  /\ files = [i \in 0 .. MaxNum - 1 |-> <<>>]
  /\ swept = <<>> /\ gone = {} /\ next = 1 /\ removed = -1 /\ late = {}
  /\ cut = (now \div Day + 1) * Day /\ current = tm2str(cut - Day) /\ dated = {}

Tick ==
  /\ now < MaxTime /\ now' = now + 1
  /\ UNCHANGED <<policy, bysize, bytime>>
------------------------------------------------------------------------------
(* INV_RollBySize                                                          *)

Aged == now - lt > Reopen

\* MUTANT of ShiftedFrom: each file is moved on before the one behind it.
ShiftedUpwards(fs) == [i \in DOMAIN fs |-> IF i = 0 THEN <<>> ELSE fs[0]]

\* The last file is removed, and the others are moved on from the end.
ShiftedFrom(fs) == [i \in DOMAIN fs |-> IF i = 0 THEN <<>> ELSE fs[i - 1]]

\* The file is looked at for its size only when it was just opened again.
TooLong(fs) == Aged /\ Len(fs[0]) >= MaxSize

Opened     == IF Aged \/ of = "closed" THEN "log" ELSE of

roll ==
  /\ policy = "size"
  /\ next <= MaxLines /\ next' = next + 1
  /\ lt' = IF Aged THEN now ELSE lt
  /\ of' = Opened
  /\ IF Opened = "gone"
     THEN /\ gone' = gone \union {next}
          /\ late' = IF now - removed > Reopen THEN late \union {next} ELSE late
          /\ UNCHANGED <<files, swept>>
     ELSE LET fs == [files EXCEPT ![0] = Append(@, next)] IN
          /\ files' = IF TooLong(fs) THEN ShiftedFrom(fs) ELSE fs
          /\ swept' = IF TooLong(fs) THEN swept \o fs[MaxNum - 1] ELSE swept
          /\ UNCHANGED <<gone, late>>
  /\ UNCHANGED <<policy, now, removed, bytime>>

\* The file cannot be opened: roll() throws, and the line is lost.
rollThrows ==
  /\ policy = "size"
  /\ next <= MaxLines /\ next' = next + 1
  /\ Aged \/ of = "closed"
  /\ lt' = IF Aged THEN now ELSE lt
  /\ of' = "closed" /\ gone' = gone \union {next}
  /\ UNCHANGED <<policy, now, files, swept, removed, late, bytime>>

\* The files were moved on, and the new path.log cannot be opened: roll() throws,
\* with the line in the files.
rollThrowsMoved ==
  /\ policy = "size"
  /\ next <= MaxLines /\ next' = next + 1
  /\ LET fs == [files EXCEPT ![0] = Append(@, next)] IN
     /\ TooLong(fs)
     /\ files' = ShiftedFrom(fs) /\ swept' = swept \o fs[MaxNum - 1]
  /\ lt' = now /\ of' = "closed"
  /\ UNCHANGED <<policy, now, gone, removed, late, bytime>>

\* The oldest file cannot be removed: no file is moved on.
rollKeeps ==
  /\ policy = "size"
  /\ next <= MaxLines /\ next' = next + 1
  /\ LET fs == [files EXCEPT ![0] = Append(@, next)] IN
     TooLong(fs) /\ fs[MaxNum - 1] # <<>> /\ files' = fs
  /\ lt' = now /\ of' = "log"
  /\ UNCHANGED <<policy, now, swept, gone, removed, late, bytime>>

\* Someone removes path.log, which may be open.
Unlink ==
  /\ policy = "size"
  /\ files[0] # <<>>
  /\ gone' = gone \union ToSet(files[0]) /\ files' = [files EXCEPT ![0] = <<>>]
  /\ of' = IF of = "log" THEN "gone" ELSE of
  /\ removed' = now
  /\ UNCHANGED <<policy, now, lt, swept, next, late, bytime>>
------------------------------------------------------------------------------
(* INV_RollByTime                                                          *)

\* Without an InvLogType the file is that of the day.
rollByDate ==
  /\ policy = "date"
  /\ dated' = dated \union {<<tm2str(now), tm2str(now)>>}
  /\ UNCHANGED <<policy, now, bysize, cut, current>>

\* InvLogByDay::get_new_time(): from the next multiple of the period on, the
\* name is the date of that multiple.  The multiples are those of UTC.
CutAt(t)     == cut + ((t - cut) \div Day) * Day
IsCut    == now >= cut /\ tm2str(now) >= tm2str(cut)

rollByType ==
  /\ policy = "type"
  /\ cut' = IF IsCut THEN CutAt(now) + Day ELSE cut
  /\ current' = IF IsCut THEN tm2str(CutAt(now)) ELSE current
  /\ dated' = dated \union {<<tm2str(now), current'>>}
  /\ UNCHANGED <<policy, now, bysize>>

Next == Tick \/ roll \/ rollThrows \/ rollThrowsMoved \/ rollKeeps \/ Unlink \/ rollByDate \/ rollByType

Spec == Init /\ [][Next]_vars
------------------------------------------------------------------------------
TypeOK ==
  /\ now \in 0 .. MaxTime /\ lt \in 0 .. now
  /\ of \in {"closed", "log", "gone"}
  /\ next \in 1 .. MaxLines + 1 /\ removed \in -1 .. now
  /\ cut % Day = 0

\* The lines of the files, from the oldest file to path.log, behind those that
\* were swept away.
AllLines == swept \o FlattenSeq([i \in 1 .. MaxNum |-> files[MaxNum - i]])

\* The files are one log: in order from the last to path.log, and of the lines
\* written only the oldest are missing, and those of a file someone removed or
\* that could not be opened.
OneLog ==
  /\ \A i \in 1 .. Len(AllLines) - 1 : AllLines[i] < AllLines[i + 1]
  /\ ToSet(AllLines) \union gone = 1 .. next - 1

\* A line no longer goes to a file that was removed more than some seconds ago.
NoneLate == late = {}

\* A line is in the file of its own day or, as the days of an InvLogType are
\* those of UTC, of the day before; never of another, however long nothing was
\* logged.
OwnDay == \A d \in dated : d[2] \in {d[1] - 1, d[1]} /\ (policy = "date" => d[2] = d[1])
==============================================================================
