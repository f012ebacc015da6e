-------------------------------- MODULE Logger --------------------------------
(***************************************************************************)
(* A log line on its way to the file (src/common/inutil/inv_logger.cpp,    *)
(* util/inv_logger.h): INV_Logger and its LoggerBuffer, INV_LoggerRoll     *)
(* with its queue, and the thread group that empties it.                   *)
(*                                                                         *)
(* Lines are numbered in the order they are written.  What roll() does     *)
(* with files is in LogFiles; here it appends, or throws: because the file *)
(* cannot be opened, or, with the text in it, because the next one cannot. *)
(* One thread switches the logger between writing at once and writing by   *)
(* the group (sync()); the process does not end.                           *)
(***************************************************************************)
EXTENDS Naturals, FiniteSets, SequencesExt

CONSTANTS
  Writers,     \* threads that log
  None,        \* no thread
  MaxLines,    \* bound: lines of a behaviour
  MaxSwitches  \* bound: calls of sync()

BoundsAssumption == MaxLines \in Nat /\ MaxSwitches \in Nat

VARIABLES
  level,       \* _level
  holder,      \* who holds INV_Logger::_mutex
  way,         \* what its holder read of _pThreadGroup in write()
  text,        \* the put area of the LoggerBuffer: lines not yet synced
  group,       \* _pThreadGroup is set
  member,      \* the group's _logger has this one
  buffer,      \* _buffer: what was pushed, each the lines of one sync()
  qt,          \* per flusher: what it took from _buffer and has not rolled
  pc,          \* per flusher: what it does next
  file,        \* the lines in the files, in order
  lost,        \* the lines of a flush whose roll() threw before it wrote them
  twice,       \* the lines a writer's roll() wrote and threw: kept in the put area
  next,        \* the number of the next line
  switches

writer == <<level, holder, way, text, next>>
roller == <<qt, pc, file, lost, twice>>
vars   == <<writer, group, member, buffer, roller, switches>>

\* The one thread of the group (start(1)), and the thread that calls sync().
Flushers == {"group", "admin"}

ERROR_LOG == 2
DEBUG_LOG == 5
Levels    == {ERROR_LOG, DEBUG_LOG}

Init ==
  /\ level = DEBUG_LOG /\ holder = None /\ way = FALSE /\ text = <<>> /\ next = 1
  /\ group = TRUE /\ member = TRUE /\ buffer = <<>>     \* after setLogInfo()
  /\ qt = [f \in Flushers |-> <<>>] /\ pc = [f \in Flushers |-> "idle"]
  /\ file = <<>> /\ lost = {} /\ twice = {} /\ switches = 0
------------------------------------------------------------------------------
(* A line                                                                  *)

IsNeedLog(l) == l <= level

setLogLevel(l) ==
  /\ level # l /\ level' = l
  /\ UNCHANGED <<holder, way, text, next, group, member, buffer, roller, switches>>

\* info() << ...: the mutex is taken before the head is put, and given back by
\* the destructor of the LoggerStream.  write() has looked at _pThreadGroup.
stream(w, l) ==
  /\ holder = None /\ IsNeedLog(l) /\ next <= MaxLines
  /\ holder' = w /\ way' = group
  /\ text' = Append(text, next) /\ next' = next + 1
  /\ UNCHANGED <<level, group, member, buffer, roller, switches>>

push      == Append(buffer, text)

Written     == holder' = None /\ text' = <<>> /\ UNCHANGED <<level, way, next>>

\* LoggerBuffer::sync() into the queue.
WriteQueued ==
  /\ holder # None /\ way
  /\ buffer' = push /\ Written
  /\ UNCHANGED <<group, member, roller, switches>>

\* sync() into the file, in the writer's thread.
WriteAtOnce ==
  /\ holder # None /\ ~way
  /\ file' = file \o text /\ Written
  /\ UNCHANGED <<group, member, buffer, qt, pc, lost, twice, switches>>

\* Bound: behind one line, roll() throws once with the text in the file.
ThrowBound == Last(text) \notin twice

\* roll() throws, before the text is in the file or behind it: the stream
\* swallows it, and the put area is not emptied.  The text goes out again with
\* the next line; after an endl, with the flush of the LoggerStream's destructor.
WriteThrows ==
  /\ holder # None /\ ~way
  /\ \/ UNCHANGED <<file, twice>>
     \/ ThrowBound /\ file' = file \o text /\ twice' = twice \union ToSet(text)
  /\ \/ holder' = None /\ UNCHANGED way
     \/ holder' = holder /\ way' = group
  /\ UNCHANGED <<level, text, next, group, member, buffer, qt, pc, lost, switches>>
------------------------------------------------------------------------------
(* INV_LoggerRoll::flush()                                                 *)

GoTo(f, next_pc) == pc' = [pc EXCEPT ![f] = next_pc]

\* The flushes: of the group, the second one of unSetupThread(), and that of
\* setupThread().
Rolling == [flush |-> "flushRoll", last |-> "lastRoll", first |-> "firstRoll"]

\* The queue is swapped with an empty one.
Swap(f) ==
  /\ pc[f] \in DOMAIN Rolling
  /\ qt' = [qt EXCEPT ![f] = buffer] /\ buffer' = <<>>
  /\ GoTo(f, Rolling[pc[f]])
  /\ UNCHANGED <<writer, group, member, file, lost, twice, switches>>

\* What follows a flush: the end of a round of the group; the part of
\* unSetupThread() behind its first and its second flush; that of setupThread()
\* behind the flush of unSetupThread().
Then(f) == CASE pc[f] = "flushRoll" -> IF f = "group" THEN "idle" ELSE "drop"
             [] pc[f] = "lastRoll"  -> "idle"
             [] pc[f] = "firstRoll" -> "install"

Roll(f) ==
  /\ pc[f] \in {"flushRoll", "lastRoll", "firstRoll"}
  /\ file' = file \o FlattenSeq(qt[f])
  /\ qt' = [qt EXCEPT ![f] = <<>>] /\ GoTo(f, Then(f))
  /\ UNCHANGED <<writer, group, member, buffer, lost, twice, switches>>

\* Where the exception of a flush leaves the flusher.  The group swallows it.
\* unSetupThread() lets that of its own flush() out, when all is done; and
\* setupThread(), which called it, then installs no group.
Unwound(f) == IF pc[f] = "firstRoll" THEN "idle" ELSE Then(f)

\* MUTANT of RollThrows: nothing catches it, and the thread ends.
RollThrowsEnds(f) ==
  /\ pc[f] \in {"flushRoll", "lastRoll", "firstRoll"} /\ qt[f] # <<>>
  /\ \/ lost' = lost \union ToSet(FlattenSeq(qt[f])) /\ UNCHANGED file
     \/ file' = file \o FlattenSeq(qt[f]) /\ UNCHANGED lost
  /\ qt' = [qt EXCEPT ![f] = <<>>] /\ GoTo(f, "ended")
  /\ UNCHANGED <<writer, group, member, buffer, twice, switches>>

\* roll() throws: what was swapped out is in the file by then, or is lost.
RollThrows(f) ==
  /\ pc[f] \in {"flushRoll", "lastRoll", "firstRoll"} /\ qt[f] # <<>>
  /\ \/ lost' = lost \union ToSet(FlattenSeq(qt[f])) /\ UNCHANGED file
     \/ file' = file \o FlattenSeq(qt[f]) /\ UNCHANGED lost
  /\ qt' = [qt EXCEPT ![f] = <<>>] /\ GoTo(f, Unwound(f))
  /\ UNCHANGED <<writer, group, member, buffer, twice, switches>>
------------------------------------------------------------------------------
(* The group, and sync()                                                   *)

\* The 100 ms are over: the registered loggers are copied, then flushed.
run ==
  /\ pc["group"] = "idle" /\ member
  /\ GoTo("group", "flush")
  /\ UNCHANGED <<writer, group, member, buffer, qt, file, lost, twice, switches>>

\* sync(true): unSetupThread(), which has the group flush its loggers first.
unSetupThread ==
  /\ pc["admin"] = "idle" /\ group /\ switches < MaxSwitches
  /\ switches' = switches + 1 /\ GoTo("admin", "flush")
  /\ UNCHANGED <<writer, group, member, buffer, qt, file, lost, twice>>

\* The group forgets the logger, and then the logger its group.
unRegisterLogger ==
  /\ pc["admin"] = "drop"
  /\ member' = FALSE /\ GoTo("admin", "reset")
  /\ UNCHANGED <<writer, group, buffer, qt, file, lost, twice, switches>>

reset ==
  /\ pc["admin"] = "reset"
  /\ group' = FALSE /\ GoTo("admin", "last")
  /\ UNCHANGED <<writer, member, buffer, qt, file, lost, twice, switches>>

\* sync(false): setupThread(), whose unSetupThread() finds no group.
setupThread ==
  /\ pc["admin"] = "idle" /\ ~group /\ switches < MaxSwitches
  /\ switches' = switches + 1 /\ GoTo("admin", "first")
  /\ UNCHANGED <<writer, group, member, buffer, qt, file, lost, twice>>

\* The logger has its group, and then the group the logger.
install ==
  /\ pc["admin"] = "install"
  /\ group' = TRUE /\ GoTo("admin", "register")
  /\ UNCHANGED <<writer, member, buffer, qt, file, lost, twice, switches>>

registerLogger ==
  /\ pc["admin"] = "register"
  /\ member' = TRUE /\ GoTo("admin", "idle")
  /\ UNCHANGED <<writer, group, buffer, qt, file, lost, twice, switches>>

Next ==
  \/ \E l \in Levels : setLogLevel(l)
  \/ \E w \in Writers, l \in Levels : stream(w, l)
  \/ WriteQueued \/ WriteAtOnce \/ WriteThrows
  \/ \E f \in Flushers : Swap(f) \/ Roll(f) \/ RollThrows(f)
  \/ run \/ unSetupThread \/ unRegisterLogger \/ reset
  \/ setupThread \/ install \/ registerLogger

\* The writers, the group's thread and the caller of sync() run.
Fairness ==
  /\ WF_vars(WriteQueued \/ WriteAtOnce \/ WriteThrows)
  /\ WF_vars(run)
  /\ \A f \in Flushers : WF_vars(Swap(f) \/ Roll(f) \/ RollThrows(f))
  /\ WF_vars(unRegisterLogger \/ reset) /\ WF_vars(install \/ registerLogger)

Spec == Init /\ [][Next]_vars /\ Fairness
------------------------------------------------------------------------------
TypeOK ==
  /\ level \in Levels /\ holder \in Writers \union {None} /\ next \in 1 .. MaxLines + 1
  /\ {way, group, member} \subseteq BOOLEAN
  /\ ToSet(text) \union ToSet(file) \union lost \union twice \subseteq 1 .. MaxLines
  /\ switches \in 0 .. MaxSwitches

\* All the places a line can be in, one after the other.
Places == text \o FlattenSeq(buffer) \o FlattenSeq(qt["group"])
          \o FlattenSeq(qt["admin"]) \o file

\* Every line is somewhere, or was in a roll() that failed; and in one place
\* only, unless a writer's own roll() threw behind its write.  Nothing else falls
\* between the queue, the flushers and a change to sync() and back, or is doubled.
Once ==
  /\ ToSet(Places) \union lost = 1 .. next - 1
  /\ \A i, j \in DOMAIN Places : i # j /\ Places[i] = Places[j] => Places[i] \in twice
  /\ ToSet(Places) \intersect lost \subseteq twice

\* While no one calls sync(), the lines of all threads are in the files in the
\* order they were written.
InOrder == switches = 0 => \A i \in 1 .. Len(file) - 1 : file[i] < file[i + 1]

\* As long as the logger has its group, what is in the queue leaves it.
Flushed == (buffer # <<>> /\ member) ~> (buffer = <<>> \/ ~member)
==============================================================================
