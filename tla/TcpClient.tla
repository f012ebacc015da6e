------------------------------ MODULE TcpClient ------------------------------
(***************************************************************************)
(* The blocking socket client INV_TCPClient (src/common/inutil/            *)
(* inv_clientsocket.cpp) over INV_Socket (inv_socket.cpp), and             *)
(* INV_CoTCPClient (inv_coclientsocket.cpp) outside of a coroutine: send a *)
(* request of Size bytes, receive its reply of Size bytes, with a timeout. *)
(*                                                                         *)
(* INV_Socket::send counts in a uint32_t and keeps the result of ::send in *)
(* another: an error, -1, is 2^32 - 1 there.  Width stands for 2^32.       *)
(*                                                                         *)
(* The peer is external: it takes requests of Size bytes from what it was  *)
(* sent, answers the well-formed ones, and of another may answer anything  *)
(* or nothing.  What it has not taken, and what the client has not read,   *)
(* stays on the connection for the next request.                           *)
(***************************************************************************)
EXTENDS Integers, Sequences

CONSTANTS
  Size,        \* bytes of a request and of a reply
  Width       \* modulus of uint32_t

\* A counter of the width of uint32_t tells -1 from every number of bytes.
WidthAssumption == Size \in Nat \ {0} /\ Width \in Nat /\ Width > Size + 1

VARIABLES
  kind,       \* "tcp", "local" (port 0) or "co" (INV_CoTCPClient)
  open,       \* the socket is valid
  errno,      \* whether errno is EINPROGRESS
  broken,     \* the peer is gone: ::send fails from now on
  hiccup,     \* ::send has failed for a moment on this connection
  pc,         \* "idle", "sending", "waiting" (sent, no reply read), "receiving"
  sent,       \* the counter of the send loop
  got,        \* the bytes recv() has put into the buffer
  wire,       \* the bytes the peer was sent and has not taken, oldest first
  stream      \* the bytes of replies that are still to be read, oldest first

vars == <<kind, open, errno, broken, hiccup, pc, sent, got, wire, stream>>

Message(tag) == [i \in 1 .. Size |-> <<tag, i>>]

Init ==
  /\ kind \in {"tcp", "local", "co"}
  /\ open = FALSE /\ errno = FALSE /\ broken = FALSE /\ hiccup = FALSE
  /\ pc = "idle" /\ sent = 0 /\ got = <<>> /\ wire = <<>> /\ stream = <<>>

\* MUTANT of close: the socket of a failed call is left open.
closeNot == UNCHANGED <<open, wire, stream, broken, hiccup>>

close ==
  open' = FALSE /\ wire' = <<>> /\ stream' = <<>> /\ broken' = FALSE /\ hiccup' = FALSE

Fails == close /\ pc' = "idle" /\ UNCHANGED <<kind, sent, got>>

\* What is left of a request, or of its reply, when the next one begins.
Aged(bytes) == [i \in DOMAIN bytes |-> <<"old", bytes[i][2]>>]
------------------------------------------------------------------------------
\* checkSocket() of INV_TCPClient takes a connection for good only if errno is
\* EINPROGRESS, whatever connect() returned: a local one, complete at once,
\* leaves errno as it was.  INV_CoTCPClient looks at the result.
connects ==
  /\ errno' = IF kind = "tcp" THEN TRUE ELSE errno
  /\ kind = "local" => errno

send ==
  /\ pc = "idle"
  /\ \/ open /\ UNCHANGED <<open, errno, broken>>
     \/ ~open /\ connects /\ open' = TRUE /\ broken' = FALSE
  /\ pc' = "sending" /\ sent' = 0 /\ got' = <<>>
  /\ wire' = Aged(wire) /\ stream' = Aged(stream)
  /\ UNCHANGED <<kind, hiccup>>

\* The connection is refused, times out, or is good and taken for bad.
connectFails ==
  /\ pc = "idle" /\ ~open
  /\ errno' \in BOOLEAN
  /\ UNCHANGED <<kind, open, broken, hiccup, pc, sent, got, wire, stream>>

\* One ::send of the loop accepts some of the bytes from the counter on.
sendSome ==
  /\ pc = "sending" /\ ~broken
  /\ \E b \in 1 .. Size - sent :
       /\ wire' = wire \o SubSeq(Message("new"), sent + 1, sent + b)
       /\ sent' = sent + b
       /\ pc' = IF sent + b = Size THEN "waiting" ELSE pc
  /\ UNCHANGED <<kind, open, errno, broken, hiccup, got, stream>>

\* An error of ::send.  INV_Socket adds it to the counter, and gives up when
\* that makes the counter Size or more; INV_CoTCPClient waits and tries again
\* when the error is EAGAIN or EINTR, unless the wait times out.  Bound: one
\* passing error per connection.
sendError ==
  /\ pc = "sending" /\ (broken \/ ~hiccup)
  /\ errno' = FALSE
  /\ LET n == IF kind = "co" THEN sent ELSE (sent + Width - 1) % Width IN
       \/ /\ n < Size /\ ~(kind = "co" /\ broken)
          /\ sent' = n /\ hiccup' = (hiccup \/ ~broken)
          /\ UNCHANGED <<kind, open, broken, pc, got, wire, stream>>
       \/ (n >= Size \/ kind = "co") /\ Fails

recvSome ==
  /\ pc \in {"waiting", "receiving"} /\ stream # <<>>
  /\ \E b \in 1 .. Size - Len(got) :
       /\ b <= Len(stream)
       /\ got' = got \o SubSeq(stream, 1, b)
       /\ stream' = SubSeq(stream, b + 1, Len(stream))
       /\ pc' = IF Len(got) + b = Size THEN "idle" ELSE "receiving"
  /\ UNCHANGED <<kind, open, errno, broken, hiccup, sent, wire>>

\* A timeout, an error or the end of the stream.
recvFails ==
  /\ pc \in {"waiting", "receiving"}
  /\ errno' = FALSE /\ Fails

\* The peer takes the next Size bytes for a request (external).
Answer ==
  /\ ~broken /\ Len(wire) >= Size
  /\ LET taken == SubSeq(wire, 1, Size) IN
       \/ taken = Message("new") /\ stream' = stream \o Message("new")
       \/ /\ taken # Message("new")
          /\ stream' = stream \o Message("bad") \/ UNCHANGED stream
  /\ wire' = SubSeq(wire, Size + 1, Len(wire))
  /\ UNCHANGED <<kind, open, errno, broken, hiccup, pc, sent, got>>

\* The peer goes away (external).
Breaks ==
  /\ open /\ ~broken /\ broken' = TRUE
  /\ UNCHANGED <<kind, open, errno, hiccup, pc, sent, got, wire, stream>>

Next ==
  \/ send \/ connectFails \/ sendSome \/ sendError \/ recvSome \/ recvFails
  \/ Answer \/ Breaks
Spec == Init /\ [][Next]_vars
------------------------------------------------------------------------------
TypeOK ==
  /\ kind \in {"tcp", "local", "co"}
  /\ pc \in {"idle", "sending", "waiting", "receiving"}
  /\ sent \in 0 .. Size /\ Len(got) <= Size
  /\ Len(wire) + Len(stream) <= Size + 1
  /\ pc # "idle" => open

\* An error of ::send that passes takes the counter of INV_Socket::send back by
\* one: a byte goes twice, and the requests of this connection are out of step.
Garbled == hiccup /\ kind # "co"

\* On any other connection a request reaches the peer byte for byte, and a reply
\* that was received is the reply to that request: no half of an earlier one comes
\* first, whatever was timed out, broken or garbled before.
SentOnce   == pc = "waiting" /\ ~Garbled => wire \in {Message("new"), <<>>}
ReplyWhole == Len(got) = Size /\ ~Garbled => got = Message("new")
Aligned    == SentOnce /\ ReplyWhole
===============================================================================
