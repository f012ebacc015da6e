---------------------------- MODULE KafkaConsumer ----------------------------
(***************************************************************************)
(* The Kafka thread of the server (kafka_consumer.cc, and run() of         *)
(* KafkaThread in fresh_kafka.cc): what it reads of the topic over crashes *)
(* and restarts of the process and rebalances of its group, and the        *)
(* checkpoint files it writes between 1:00 and 1:05.                       *)
(*                                                                         *)
(* librdkafka, the brokers and the operators are external.  A record that  *)
(* poll returns is stored as consumed at once, and the offsets that are    *)
(* stored are committed every now and then (enable.auto.commit, the        *)
(* default).  The server is alone in its group.                            *)
(***************************************************************************)
EXTENDS Integers, Functions

CONSTANTS
  MaxPartition,   \* the partitions of the topic are 0 .. MaxPartition
  MaxRecords,     \* bound: records of the topic
  MaxStarts,      \* bound: starts of the process
  MaxRevokes      \* bound: rebalances that take partitions away

BoundsAssumption == MaxPartition \in Nat /\ MaxStarts \in Nat /\ MaxRevokes \in Nat

Partitions == 0 .. MaxPartition
Offsets    == Nat

None == -1

VARIABLES
  produced,   \* per partition, the number of records in the log
  committed,  \* per partition, the offset the group committed, or None
  files,      \* the checkpoint files, by name: an offset or a partition, or
              \* None in a file that is empty
  pc,         \* where the Kafka thread is; "off": the process is not running
  assigned,   \* the partitions the consumer has, and the next offset of each
  stored,     \* per partition, the offset that the next commit commits
  record,     \* the record at hand: partition and offset
  maxPartition, \* max_partition, the static variable of FetchMsg
  starts, revokes, \* counters of the bounds
  fetched     \* history: the records that poll has returned, in any life

disk   == <<produced, committed, files>>
memory == <<pc, assigned, stored, record, maxPartition>>
counts == <<starts, revokes, fetched>>
vars   == <<produced, committed, files, pc, assigned, stored, record,
            maxPartition, starts, revokes, fetched>>

\* A file name: how many characters it lacks at its front, and its number.
\* FetchMsg appends the number of the partition to "offset.partition"; Init adds
\* it to the address of that literal.
Name(cut, number) == <<cut, number>>
Written(p) == Name(0, p)
Read(p)    == Name(p, None)
OffsetTxt  == Name(None, None)   \* offset.txt, of neither kind

Init ==
  /\ produced = [p \in Partitions |-> 0]
  /\ committed = [p \in Partitions |-> None]
  /\ files = <<>>
  /\ pc = "off"
  /\ assigned = <<>>
  /\ stored = [p \in Partitions |-> None]
  /\ record = <<0, 0>>
  /\ maxPartition = 0
  /\ starts = 0 /\ revokes = 0
  /\ fetched = {}

Full(f) == f \in DOMAIN files /\ files[f] # None

\* What atoi makes of the line in that file: 0 if there is no file or no line.
Content(f) == IF Full(f) THEN files[f] ELSE 0

WriteFile(f, n) ==
  files' = [g \in DOMAIN files \union {f} |-> IF g = f THEN n ELSE files[g]]

\* auto.offset.reset: where a partition without a committed offset begins.
Smallest(p) == 0

Committed(p) == IF committed[p] = None THEN Smallest(p) ELSE committed[p]
------------------------------------------------------------------------------
Produce(p) ==
  /\ FoldFunctionOnSet(+, 0, produced, Partitions) < MaxRecords
  /\ produced' = [produced EXCEPT ![p] = @ + 1]
  /\ UNCHANGED <<committed, files, memory, counts>>

\* KafkaConsumer::Init: offset.txt has the greatest partition.  If it is there the
\* partitions up to it are assigned at the offsets of their files, before the
\* subscription to the topic.
Start ==
  /\ pc = "off" /\ starts < MaxStarts
  /\ starts' = starts + 1
  /\ assigned' = IF Full(OffsetTxt)
                 THEN [p \in 0 .. files[OffsetTxt] |-> Content(Read(p))]
                 ELSE <<>>
  /\ stored' = [p \in Partitions |-> None]
  /\ pc' = "poll"
  /\ maxPartition' = 0
  /\ UNCHANGED <<disk, record, revokes, fetched>>

\* RebalanceCb, called by poll: the assignment is what the group says, and a
\* partition goes on where the group has committed.
Assign ==
  /\ pc = "poll" /\ DOMAIN assigned # Partitions
  /\ assigned' = [p \in Partitions |-> Committed(p)]
  /\ UNCHANGED <<disk, pc, stored, record, maxPartition, counts>>

\* Partitions revoked, or a failed rebalance: nothing is assigned.  The
\* assignment that Init made goes this way too when the group answers.
Revoke ==
  /\ pc = "poll" /\ revokes < MaxRevokes
  /\ assigned' = <<>>
  /\ revokes' = revokes + 1
  /\ UNCHANGED <<disk, pc, stored, record, maxPartition, starts, fetched>>

\* poll returns a record, whose offset librdkafka stores; FetchMsg looks at the
\* clock.  When poll returns nothing, the end of a partition or an error, run()
\* calls FetchMsg again and nothing has changed.
Fetch(p, early) ==
  /\ pc = "poll" /\ p \in DOMAIN assigned /\ assigned[p] < produced[p]
  /\ record' = <<p, assigned[p]>>
  /\ fetched' = fetched \union {record'}
  /\ assigned' = [assigned EXCEPT ![p] = @ + 1]
  /\ stored' = [stored EXCEPT ![p] = assigned[p] + 1]
  /\ pc' = IF early THEN "offset" ELSE "process"
  /\ UNCHANGED <<disk, maxPartition, starts, revokes>>

\* Between 1:00 and 1:05: the offset of the record goes to the file of its partition.
WriteOffset ==
  /\ pc = "offset"
  /\ WriteFile(Written(record[1]), record[2])
  /\ pc' = IF record[1] > maxPartition THEN "partition" ELSE "process"
  /\ UNCHANGED <<produced, committed, assigned, stored, record, maxPartition, counts>>

\* A partition greater than any of this process goes to offset.txt.
WritePartition ==
  /\ pc = "partition"
  /\ maxPartition' = record[1]
  /\ WriteFile(OffsetTxt, record[1])
  /\ pc' = "process"
  /\ UNCHANGED <<produced, committed, assigned, stored, record, counts>>

\* processkafka: set() of FreshQueue, or nothing for a record without a uid.
Process ==
  /\ pc = "process"
  /\ pc' = "poll"
  /\ UNCHANGED <<disk, assigned, stored, record, maxPartition, counts>>

\* librdkafka commits what is stored, in a thread of its own.
Commit ==
  /\ pc # "off"
  /\ committed' = [p \in Partitions |-> IF stored[p] = None THEN committed[p] ELSE stored[p]]
  /\ UNCHANGED <<produced, files, memory, counts>>

\* The process ends at any point, without a commit; so does an unknown partition
\* (assert).  Its files and what is committed stay; opening a file empties it, so
\* that one it was about to write may be left empty.
Crash ==
  /\ pc # "off"
  /\ pc' = "off"
  /\ assigned' = <<>>
  /\ \/ UNCHANGED files
     \/ pc = "offset" /\ WriteFile(Written(record[1]), None)
     \/ pc = "partition" /\ WriteFile(OffsetTxt, None)
  /\ UNCHANGED <<produced, committed, stored, record, maxPartition, counts>>

\* One round of the loop of run().
Round == \/ \E p \in Partitions, early \in BOOLEAN : Fetch(p, early)
         \/ WriteOffset \/ WritePartition \/ Process

Next ==
  \/ Start \/ Crash \/ Assign \/ Revoke \/ Commit \/ Round
  \/ \E p \in Partitions : Produce(p)

\* The thread runs, and the group's coordinator gives a lone member what it has.
Spec == Init /\ [][Next]_vars /\ WF_vars(Round) /\ WF_vars(Assign)
------------------------------------------------------------------------------
\* The files are of the names that are written; offsets are in the logs.
TypeOK ==
  /\ produced \in [Partitions -> Offsets]
  /\ committed \in [Partitions -> Offsets \union {None}]
  /\ DOMAIN files \subseteq {OffsetTxt} \union {Written(p) : p \in Partitions}
  /\ \A f \in DOMAIN files : files[f] \in Offsets \union Partitions \union {None}
  /\ pc \in {"off", "poll", "offset", "partition", "process"}
  /\ DOMAIN assigned \subseteq Partitions
  /\ \A p \in DOMAIN assigned : assigned[p] \in 0 .. produced[p]
  /\ stored \in [Partitions -> Offsets \union {None}]
  /\ record \in Partitions \X Offsets
  /\ maxPartition \in Partitions
  /\ starts \in 0 .. MaxStarts /\ revokes \in 0 .. MaxRevokes
  /\ fetched \subseteq Partitions \X Offsets

\* Every record before the next one of a partition, and before the one the group
\* has committed, was read by some life of the process: a rebalance, a crash or a
\* restart, at any point of FetchMsg, may repeat records and skips none.
NoneSkipped ==
  /\ \A p \in DOMAIN assigned : \A o \in 0 .. assigned[p] - 1 : <<p, o>> \in fetched
  /\ \A p \in Partitions : \A o \in 0 .. committed[p] - 1 : <<p, o>> \in fetched

\* The checkpoints name records that were read, and the partition in offset.txt
\* has a file of its own, wherever the process dies in or between the two writes.
CheckpointsTrue ==
  /\ \A p \in Partitions : Full(Written(p)) => <<p, files[Written(p)]>> \in fetched
  /\ Full(OffsetTxt) => Written(files[OffsetTxt]) \in DOMAIN files

\* A consumer that stays up reads everything that is in the log.
CaughtUp == \A p \in Partitions : \A o \in 0 .. produced[p] - 1 : <<p, o>> \in fetched
Keeps    == pc # "off" ~> (CaughtUp \/ pc = "off")

\* Not a property: a checkpoint that a restart uses.  Init looks for names that
\* FetchMsg does not write.
CheckpointUsed == \A p \in Partitions : Read(p) \in DOMAIN files
==============================================================================
