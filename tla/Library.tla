------------------------------- MODULE Library -------------------------------
(***************************************************************************)
(* The common library, the generated code of the service and the Kafka     *)
(* consumer, side by side.  The parts share nothing: a behaviour is about  *)
(* one of them, chosen at the start, and the others stay where they begin. *)
(***************************************************************************)
EXTENDS Naturals

CONSTANTS
  Poppers, Items, MaxSize, Lockers, MaxGuards, Writers, Nil, MaxQueued,
  MaxSwitches, MaxNum, MaxLength, Reopen, Day, Zone, MaxLines, MaxTime, Nodes,
  Clients, BadAfter, Addrs, Size, Width, MaxRows, Foreign, MaxCalls,
  MaxPartition, MaxRecords, MaxStarts, MaxRevokes

VARIABLES
  part,  \* the part of the system this behaviour is about
  q_queue, q_size, q_call, q_wait, q_swapped,
  l_kind, l_owner, l_depth, l_count, l_nnotify, l_guards, l_saved, l_state,
  l_misused, l_readers, l_writer,
  g_level, g_holder, g_way, g_text, g_group, g_member, g_buffer, g_qt, g_pc,
  g_file, g_lost, g_twice, g_next, g_switches,
  f_policy, f_now, f_lt, f_of, f_files, f_swept, f_gone, f_next, f_removed,
  f_late, f_cut, f_current, f_dated,
  r_async, r_connected, r_context, r_address, r_up, r_owner, r_settled, r_last,
  t_connected, t_context, t_total, t_fail, t_up, t_settled, t_crashed, t_ret,
  c_current, c_clients, c_open, c_slot, c_pending, c_pc, c_ret, c_mine,
  c_owner, c_down, c_settled,
  s_kind, s_open, s_errno, s_broken, s_hiccup, s_pc, s_sent, s_got, s_wire,
  s_stream,
  d_kind, d_connected, d_session, d_up, d_settled, d_done, d_lost, d_rows,
  d_result,
  p_open, p_up, p_down, p_serving, p_waiting, p_calls, p_last,
  k_produced, k_committed, k_files, k_pc, k_assigned, k_stored, k_record,
  k_maxPartition, k_starts, k_revokes, k_fetched

Q == INSTANCE ThreadQueue WITH
  queue <- q_queue, size <- q_size, call <- q_call, wait <- q_wait, swapped <-
  q_swapped, Threads <- Poppers, Items <- Items, MaxSize <- MaxSize

L == INSTANCE ThreadLocks WITH
  kind <- l_kind, owner <- l_owner, depth <- l_depth, count <- l_count,
  nnotify <- l_nnotify, guards <- l_guards, saved <- l_saved, state <-
  l_state, misused <- l_misused, readers <- l_readers, writer <- l_writer,
  Threads <- Lockers, MaxGuards <- MaxGuards

G == INSTANCE Logger WITH
  level <- g_level, holder <- g_holder, way <- g_way, text <- g_text, group <-
  g_group, member <- g_member, buffer <- g_buffer, qt <- g_qt, pc <- g_pc,
  file <- g_file, lost <- g_lost, twice <- g_twice, next <- g_next, switches <- g_switches,
  Writers <- Writers, None <- Nil, MaxLines <- MaxQueued, MaxSwitches <-
  MaxSwitches

F == INSTANCE LogFiles WITH
  policy <- f_policy, now <- f_now, lt <- f_lt, of <- f_of, files <- f_files,
  swept <- f_swept, gone <- f_gone, next <- f_next, removed <- f_removed, late
  <- f_late, cut <- f_cut, current <- f_current, dated <- f_dated, MaxNum <-
  MaxNum, MaxSize <- MaxLength, Reopen <- Reopen, Day <- Day, Zone <- Zone,
  MaxLines <- MaxLines, MaxTime <- MaxTime

R == INSTANCE RedisClient WITH
  async <- r_async, connected <- r_connected, context <- r_context, address <-
  r_address, up <- r_up, owner <- r_owner, settled <- r_settled, last <-
  r_last, Nodes <- Nodes

T == INSTANCE Redis2Client WITH
  connected <- t_connected, context <- t_context, total <- t_total, fail <-
  t_fail, up <- t_up, settled <- t_settled, crashed <- t_crashed, ret <-
  t_ret, Clients <- Clients, BadAfter <- BadAfter

C == INSTANCE CoRedis WITH
  current <- c_current, clients <- c_clients, open <- c_open, slot <- c_slot,
  pending <- c_pending, pc <- c_pc, ret <- c_ret, mine <- c_mine, owner <-
  c_owner, down <- c_down, settled <- c_settled, Addrs <- Addrs,
  NoAddr <- Nil

S == INSTANCE TcpClient WITH
  kind <- s_kind, open <- s_open, errno <- s_errno, broken <- s_broken, hiccup
  <- s_hiccup, pc <- s_pc, sent <- s_sent, got <- s_got, wire <- s_wire,
  stream <- s_stream, Size <- Size, Width <- Width

D == INSTANCE SqlClient WITH
  kind <- d_kind, connected <- d_connected, session <- d_session, up <- d_up,
  settled <- d_settled, done <- d_done, lost <- d_lost, rows <- d_rows, result
  <- d_result, MaxRows <- MaxRows

P == INSTANCE ServiceRpc WITH
  open <- p_open, up <- p_up, down <- p_down, serving <- p_serving, waiting <-
  p_waiting, calls <- p_calls, last <- p_last, Foreign <- Foreign, MaxCalls <-
  MaxCalls

K == INSTANCE KafkaConsumer WITH
  produced <- k_produced, committed <- k_committed, files <- k_files, pc <-
  k_pc, assigned <- k_assigned, stored <- k_stored, record <- k_record,
  maxPartition <- k_maxPartition, starts <- k_starts, revokes <- k_revokes,
  fetched <- k_fetched, MaxPartition <- MaxPartition, MaxRecords <-
  MaxRecords, MaxStarts <- MaxStarts, MaxRevokes <- MaxRevokes

varsQ == <<q_queue, q_size, q_call, q_wait, q_swapped>>
varsL == <<l_kind, l_owner, l_depth, l_count, l_nnotify, l_guards, l_saved,
           l_state, l_misused, l_readers, l_writer>>
varsG == <<g_level, g_holder, g_way, g_text, g_group, g_member, g_buffer,
           g_qt, g_pc, g_file, g_lost, g_twice, g_next, g_switches>>
varsF == <<f_policy, f_now, f_lt, f_of, f_files, f_swept, f_gone, f_next,
           f_removed, f_late, f_cut, f_current, f_dated>>
varsR == <<r_async, r_connected, r_context, r_address, r_up, r_owner,
           r_settled, r_last>>
varsT == <<t_connected, t_context, t_total, t_fail, t_up, t_settled,
           t_crashed, t_ret>>
varsC == <<c_current, c_clients, c_open, c_slot, c_pending, c_pc, c_ret,
           c_mine, c_owner, c_down, c_settled>>
varsS == <<s_kind, s_open, s_errno, s_broken, s_hiccup, s_pc, s_sent, s_got,
           s_wire, s_stream>>
varsD == <<d_kind, d_connected, d_session, d_up, d_settled, d_done, d_lost,
           d_rows, d_result>>
varsP == <<p_open, p_up, p_down, p_serving, p_waiting, p_calls, p_last>>
varsK == <<k_produced, k_committed, k_files, k_pc, k_assigned, k_stored,
           k_record, k_maxPartition, k_starts, k_revokes, k_fetched>>

ASSUME QueueAssumption   == Q!ThreadsAssumption
ASSUME LocksAssumption   == L!ThreadsAssumption
ASSUME LoggerAssumption  == G!BoundsAssumption
ASSUME FilesAssumption   == F!PeriodAssumption /\ F!FilesAssumption /\ F!BoundsAssumption
ASSUME Redis2Assumption  == T!BadAfterAssumption
ASSUME CoRedisAssumption == C!AddrsAssumption
ASSUME SocketAssumption  == S!WidthAssumption
ASSUME SqlAssumption     == D!BoundsAssumption
ASSUME RpcAssumption     == P!CallsAssumption
ASSUME KafkaAssumption   == K!BoundsAssumption

Parts == {"queue", "locks", "logger", "files", "redis", "redis2", "coredis", "socket", "sql",
          "rpc", "kafka"}

\* The other parts stay in an initial state of theirs.
Init ==
  /\ part \in Parts
  /\ Q!Init
  /\ part = "locks" \/ (l_kind = "plain")
  /\ L!Init
  /\ G!Init
  /\ part = "files" \/ (f_policy = "size" /\ f_now = 0)
  /\ F!Init
  /\ part = "redis" \/ (/\ r_async = FALSE /\ r_up = Nodes
                        /\ r_address = (CHOOSE n \in Nodes : TRUE) /\ r_owner = r_address)
  /\ R!Init
  /\ T!Init
  /\ part = "coredis" \/ (/\ c_current = Addrs[1] /\ c_clients = {c_current}
                          /\ c_owner = c_current /\ c_slot = c_current)
  /\ C!Init
  /\ part = "socket" \/ (s_kind = "tcp")
  /\ S!Init
  /\ part = "sql" \/ (d_kind = "mysql")
  /\ D!Init
  /\ P!Init
  /\ K!Init

\* What the other parts keep while one moves.
NotQ == <<part, varsL, varsG, varsF, varsR, varsT, varsC, varsS, varsD, varsP, varsK>>
NotL == <<part, varsQ, varsG, varsF, varsR, varsT, varsC, varsS, varsD, varsP, varsK>>
NotG == <<part, varsQ, varsL, varsF, varsR, varsT, varsC, varsS, varsD, varsP, varsK>>
NotF == <<part, varsQ, varsL, varsG, varsR, varsT, varsC, varsS, varsD, varsP, varsK>>
NotR == <<part, varsQ, varsL, varsG, varsF, varsT, varsC, varsS, varsD, varsP, varsK>>
NotT == <<part, varsQ, varsL, varsG, varsF, varsR, varsC, varsS, varsD, varsP, varsK>>
NotC == <<part, varsQ, varsL, varsG, varsF, varsR, varsT, varsS, varsD, varsP, varsK>>
NotS == <<part, varsQ, varsL, varsG, varsF, varsR, varsT, varsC, varsD, varsP, varsK>>
NotD == <<part, varsQ, varsL, varsG, varsF, varsR, varsT, varsC, varsS, varsP, varsK>>
NotP == <<part, varsQ, varsL, varsG, varsF, varsR, varsT, varsC, varsS, varsD, varsK>>
NotK == <<part, varsQ, varsL, varsG, varsF, varsR, varsT, varsC, varsS, varsD, varsP>>

Next ==
  \/ part = "queue"    /\ Q!Next /\ UNCHANGED NotQ
  \/ part = "locks"    /\ L!Next /\ UNCHANGED NotL
  \/ part = "logger"   /\ G!Next /\ UNCHANGED NotG
  \/ part = "files"    /\ F!Next /\ UNCHANGED NotF
  \/ part = "redis"    /\ R!Next /\ UNCHANGED NotR
  \/ part = "redis2"   /\ T!Next /\ UNCHANGED NotT
  \/ part = "coredis"  /\ C!Next /\ UNCHANGED NotC
  \/ part = "socket"   /\ S!Next /\ UNCHANGED NotS
  \/ part = "sql"      /\ D!Next /\ UNCHANGED NotD
  \/ part = "rpc"      /\ P!Next /\ UNCHANGED NotP
  \/ part = "kafka"    /\ K!Next /\ UNCHANGED NotK

vars == <<part, varsQ, varsL, varsG, varsF, varsR, varsT, varsC, varsS, varsD, varsP, varsK>>

Spec == Init /\ [][Next]_vars
------------------------------------------------------------------------------
\* The parts hold values of their types.
TypesOK ==
  /\ Q!TypeOK /\ L!TypeOK /\ G!TypeOK /\ F!TypeOK /\ R!TypeOK
  /\ T!TypeOK /\ C!TypeOK /\ S!TypeOK /\ D!TypeOK /\ P!TypeOK
  /\ K!TypeOK

\* The thread queue loses no wake-up and counts its items; a thread holds a mutex
\* exactly as often as its guards say, through waits inside nested sections.
WaitsAndLocksExact == Q!NoLostWakeup /\ Q!SizeExact /\ L!GuardsExact

\* A log line is in one place, unless the roll() of its writer threw; the lines are
\* in the files in the order they were written, and the files are one log and of
\* the right day.
LogIsWhole == G!Once /\ G!InOrder /\ F!OneLog /\ F!NoneLate /\ F!OwnDay

\* What a client reports is what the server did: a redis command that looks at its
\* reply takes no refusal for a success, a reply belongs to the request it is taken
\* for unless ::send failed for a moment on that connection, and a statement reported
\* as executed was; and what the Kafka consumer commits, or passes over, it has read.
ReportsAreTrue ==
  /\ R!FailureReported /\ C!ReplyIsMine /\ S!Aligned /\ D!ExecutedAsReported
  /\ P!OwnAnswer /\ K!NoneSkipped /\ K!CheckpointsTrue

\* A set, a remove or a hashdel the server refused returns -1, as util/inv_redis.h:58,
\* :63 and :128 say of a failure.
RefusalsReported == R!RefusalReported
==============================================================================
