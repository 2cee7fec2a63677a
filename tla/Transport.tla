----------------------------- MODULE Transport -----------------------------
(***************************************************************************)
(* One WebSocket transport: wsClient of src/internal/server/ws.go, with    *)
(* its bounded queue, its writer goroutine and its reader, and the lobby   *)
(* operations that call Enqueue and Kick on it.                            *)
(*                                                                         *)
(* Three threads take steps of their own:                                  *)
(*   - the lobby: operations under the lock of the room whose slot holds   *)
(*     the transport, one at a time; `op` is the one in progress;          *)
(*   - the reader (readLoop and the end of handleWS): `rpc`;               *)
(*   - the writer (writeLoop): `wpc`.                                      *)
(* Enqueue tests `done` and then sends, in two steps, so that the others   *)
(* may come in between.                                                    *)
(***************************************************************************)
EXTENDS Naturals, Sequences

CONSTANTS
  QueueSize,   \* outboundQueueSize
  MaxSends     \* bound: messages of rooms that are accepted

ASSUME QueueAssumption == QueueSize \in Nat \ {0} /\ MaxSends \in Nat

VARIABLES
  queue,     \* wsClient.send
  done,      \* wsClient.done is closed
  socket,    \* "open", "broken" by the peer or the network, "closed" by the writer
  wpc,       \* where the writer is
  hand,      \* the message it is writing
  rpc,       \* where the reader is
  sess,      \* the reader's session is not nil
  attached,  \* the session's slot holds this transport
  op,        \* the lobby operation in progress on this transport
  taken,     \* messages of rooms accepted so far
  told       \* history: the error of a lobby's kick was written to the socket

vars == <<queue, done, socket, wpc, hand, rpc, sess, attached, op, taken, told>>

\* "event": any message of a room, the joined message included; "fatal": the
\* error of the lobby's Kick; "reply", "invalid": the reader's errors, the second
\* that of its own Kick.
Messages == {"event", "fatal", "reply", "invalid"}
NoMessage == "none"

WriterStates == {"select", "writing", "draining", "flushing", "closing", "ended"}
ReaderStates == {"read", "frame", "joining", "reply", "kick", "stop", "ended", "shutdown", "gone"}
Idle == [at |-> "idle", msg |-> NoMessage, joining |-> FALSE]
Ops == [at : {"check", "send", "shutdown"}, msg : {"event", "fatal"}, joining : BOOLEAN] \cup {Idle}

Init ==
  /\ queue = <<>> /\ done = FALSE /\ socket = "open"
  /\ wpc = "select" /\ hand = NoMessage
  /\ rpc = "read" /\ sess = FALSE /\ attached = FALSE
  /\ op = Idle /\ taken = 0 /\ told = FALSE

-----------------------------------------------------------------------------
(* Enqueue *)

\* The first select.
PassesAlways == TRUE   \* mutant of Passes: the first select is missing
Passes == ~done

HasRoomOffByOne == Len(queue) <= QueueSize   \* mutant of HasRoom
HasRoom == Len(queue) < QueueSize

\* What every step but those of the writer leaves alone.
writerVars == <<socket, wpc, hand, told>>

-----------------------------------------------------------------------------
(* The lobby, under a room's lock *)

\* An operation has a message for the attached transport.
Send ==
  /\ op = Idle /\ attached /\ taken < MaxSends
  /\ op' = [at |-> "check", msg |-> "event", joining |-> FALSE]
  /\ UNCHANGED <<queue, done, writerVars, rpc, sess, attached, taken>>

\* An operation takes the slot from the transport: detach, then Kick.
KickOut ==
  /\ op = Idle /\ attached
  /\ attached' = FALSE
  /\ op' = [at |-> "check", msg |-> "fatal", joining |-> FALSE]
  /\ UNCHANGED <<queue, done, writerVars, rpc, sess, taken>>

\* Enqueue returned false: of a room's message, detach and Kick; of the error
\* of that Kick, go on to shutdown.
Refused ==
  /\ attached' = FALSE
  /\ op' = IF op.msg = "event" THEN [op EXCEPT !.at = "check", !.msg = "fatal"]
           ELSE [op EXCEPT !.at = "shutdown"]

FindsDone ==
  /\ op.at = "check" /\ ~Passes
  /\ Refused
  /\ UNCHANGED <<queue, done, writerVars, rpc, sess, taken>>

FindsOpen ==
  /\ op.at = "check" /\ Passes
  /\ op' = [op EXCEPT !.at = "send"]
  /\ UNCHANGED <<queue, done, writerVars, rpc, sess, attached, taken>>

Accepted ==
  /\ op.at = "send" /\ HasRoom
  /\ queue' = Append(queue, op.msg)
  /\ op' = IF op.msg = "event" THEN Idle ELSE [op EXCEPT !.at = "shutdown"]
  /\ taken' = IF op.msg = "event" THEN taken + 1 ELSE taken
  /\ UNCHANGED <<done, writerVars, rpc, sess, attached>>

FindsFull ==
  /\ op.at = "send" /\ ~HasRoom
  /\ Refused
  /\ UNCHANGED <<queue, done, writerVars, rpc, sess, taken>>

\* The end of Kick.
ShutsDownNot == FALSE   \* mutant of ShutsDown: the error is queued, done stays open
ShutsDown == TRUE
KickEnds ==
  /\ op.at = "shutdown"
  /\ done' = (done \/ ShutsDown)
  /\ op' = Idle
  /\ UNCHANGED <<queue, writerVars, rpc, sess, attached, taken>>

Lobby == FindsDone \/ FindsOpen \/ Accepted \/ FindsFull \/ KickEnds

-----------------------------------------------------------------------------
(* The reader *)

\* A message arrives; Touch, which it goes through under the room's lock, changes
\* nothing of the transport.
Receive ==
  /\ rpc = "read" /\ socket = "open"
  /\ rpc' = "frame"
  /\ UNCHANGED <<queue, done, writerVars, sess, attached, op, taken>>

\* The read fails.
ReadFails ==
  /\ rpc = "read" /\ socket # "open"
  /\ rpc' = "ended"
  /\ UNCHANGED <<queue, done, writerVars, sess, attached, op, taken>>

\* A join or a claim that gets a slot: the transport is attached and sent the
\* joined message before the call returns.
Join ==
  /\ rpc = "frame" /\ ~sess /\ op = Idle /\ taken < MaxSends
  /\ rpc' = "joining" /\ sess' = TRUE /\ attached' = TRUE
  /\ op' = [at |-> "check", msg |-> "event", joining |-> TRUE]
  /\ UNCHANGED <<queue, done, writerVars, taken>>

JoinReturns ==
  /\ rpc = "joining" /\ op = Idle
  /\ rpc' = "read"
  /\ UNCHANGED <<queue, done, writerVars, sess, attached, op, taken>>

Leave ==
  /\ rpc = "frame" /\ sess /\ op = Idle
  /\ rpc' = "read" /\ sess' = FALSE /\ attached' = FALSE
  /\ UNCHANGED <<queue, done, writerVars, op, taken>>

\* A frame that needs no answer, or one whose answer is an error: Enqueue tests
\* done, and later sends; its result is ignored.
Handle ==
  /\ rpc = "frame"
  /\ rpc' \in (IF Passes THEN {"read", "reply"} ELSE {"read"})
  /\ UNCHANGED <<queue, done, writerVars, sess, attached, op, taken>>

\* A binary frame: the reader kicks its own transport and returns.
Binary ==
  /\ rpc = "frame"
  /\ rpc' = IF Passes THEN "kick" ELSE "stop"
  /\ UNCHANGED <<queue, done, writerVars, sess, attached, op, taken>>

Reply ==
  /\ rpc \in {"reply", "kick"}
  /\ queue' = IF ~HasRoom THEN queue ELSE Append(queue, IF rpc = "reply" THEN "reply" ELSE "invalid")
  /\ rpc' = IF rpc = "reply" THEN "read" ELSE "stop"
  /\ UNCHANGED <<done, writerVars, sess, attached, op, taken>>

Stop ==
  /\ rpc = "stop"
  /\ done' = TRUE
  /\ rpc' = "ended"
  /\ UNCHANGED <<queue, writerVars, sess, attached, op, taken>>

\* Room.Disconnect, if there is a session; it waits for the room's lock.
Disconnect ==
  /\ rpc = "ended" /\ op = Idle
  /\ rpc' = "shutdown" /\ sess' = FALSE /\ attached' = FALSE
  /\ UNCHANGED <<queue, done, writerVars, op, taken>>

\* The deferred shutdown of handleWS.
ReturnLeavesOpen ==   \* mutant of Return: no deferred shutdown
  /\ rpc = "shutdown"
  /\ rpc' = "gone"
  /\ UNCHANGED <<queue, done, writerVars, sess, attached, op, taken>>
Return ==
  /\ rpc = "shutdown"
  /\ done' = TRUE
  /\ rpc' = "gone"
  /\ UNCHANGED <<queue, writerVars, sess, attached, op, taken>>

Reader ==
  \/ ReadFails \/ Join \/ JoinReturns \/ Leave \/ Handle \/ Binary \/ Reply
  \/ Stop \/ Disconnect \/ Return

-----------------------------------------------------------------------------
(* The writer *)

othersVars == <<rpc, sess, attached, op, taken>>

Take ==
  /\ wpc \in {"select", "draining"} /\ queue # <<>>
  /\ hand' = Head(queue) /\ queue' = Tail(queue)
  /\ wpc' = IF wpc = "select" THEN "writing" ELSE "flushing"
  /\ UNCHANGED <<done, socket, told, othersVars>>

SeeDoneAndClose ==   \* mutant of SeeDone: the queue is not flushed
  /\ wpc = "select" /\ done
  /\ wpc' = "closing"
  /\ UNCHANGED <<queue, done, socket, hand, told, othersVars>>
SeeDone ==
  /\ wpc = "select" /\ done
  /\ wpc' = "draining"
  /\ UNCHANGED <<queue, done, socket, hand, told, othersVars>>

Drained ==
  /\ wpc = "draining" /\ queue = <<>>
  /\ wpc' = "closing"
  /\ UNCHANGED <<queue, done, socket, hand, told, othersVars>>

Written ==
  /\ wpc \in {"writing", "flushing"} /\ socket = "open"
  /\ told' = (told \/ hand = "fatal")
  /\ hand' = NoMessage
  /\ wpc' = IF wpc = "writing" THEN "select" ELSE "draining"
  /\ UNCHANGED <<queue, done, socket, othersVars>>

\* The write fails or times out, which also fails the reader's next read.
WriteFails ==
  /\ wpc \in {"writing", "flushing"}
  /\ done' = (done \/ wpc = "writing")
  /\ socket' = "broken" /\ hand' = NoMessage
  /\ wpc' = "closing"
  /\ UNCHANGED <<queue, told, othersVars>>

\* The deferred Close of the socket.
Close ==
  /\ wpc = "closing"
  /\ socket' = IF socket = "open" THEN "closed" ELSE socket
  /\ wpc' = "ended"
  /\ UNCHANGED <<queue, done, hand, told, othersVars>>

Writer == Take \/ SeeDone \/ Drained \/ Written \/ WriteFails \/ Close

\* The peer closes, or the network fails.
Break ==
  /\ socket = "open"
  /\ socket' = "broken"
  /\ UNCHANGED <<queue, done, wpc, hand, told, othersVars>>

-----------------------------------------------------------------------------
Next == Send \/ KickOut \/ Lobby \/ Receive \/ Reader \/ Writer \/ Break

Spec == Init /\ [][Next]_vars

\* What has begun goes on: a write ends within writeTimeout, an operation under
\* the lock waits for nothing, and the reader gets the lock it waits for (Go's
\* mutexes do not starve a waiter).  Clients and the lobby need not do anything.
LiveSpec == Spec /\ WF_vars(Writer) /\ WF_vars(Lobby) /\ SF_vars(Reader)

-----------------------------------------------------------------------------
(* Properties *)

\* Every variable has its type; the queue keeps its bound.
TypeOK ==
  /\ queue \in Seq(Messages) /\ Len(queue) <= QueueSize
  /\ done \in BOOLEAN /\ told \in BOOLEAN /\ sess \in BOOLEAN /\ attached \in BOOLEAN
  /\ socket \in {"open", "broken", "closed"}
  /\ wpc \in WriterStates /\ rpc \in ReaderStates
  /\ hand \in Messages \cup {NoMessage}
  /\ op \in Ops
  /\ taken \in 0 .. MaxSends

\* What is still to be written.
Pending == IF hand = NoMessage THEN queue ELSE <<hand>> \o queue

\* Nothing of a room is queued or written after the error of a kick, even if the
\* reader goes on to leave and join again on the transport that was kicked.
FatalIsLast ==
  /\ told => \A i \in DOMAIN Pending : Pending[i] # "event"
  /\ \A i, j \in DOMAIN Pending : i < j /\ Pending[i] = "fatal" => Pending[j] # "event"

\* The transport is one that the lobby may rely on.  A transport under an
\* operation of the lobby is what that operation found it to be: shut only when
\* no message of a room is past its test of done, attached until its Kick ends.
ConnState ==
  IF rpc \in {"shutdown", "gone"} THEN "off"
  ELSE IF done /\ ~(op.at = "send" /\ op.msg = "event") THEN "shut" ELSE "open"
ConnSess == IF op = Idle THEN sess ELSE ~op.joining
ConnAttached == IF op = Idle THEN attached ELSE ~op.joining
Contract == INSTANCE Conn WITH state <- ConnState, sess <- ConnSess, attached <- ConnAttached

KeepsContract == Contract!Spec

\* Once it is shut or its socket has failed, the transport ends altogether: both
\* goroutines return and no slot holds it.
EndsCompletely ==
  (done \/ socket # "open") ~> (wpc = "ended" /\ rpc = "gone" /\ op = Idle /\ ~attached)

\* The error of a kick that was queued before the writer finished is written,
\* unless the socket fails.
KickIsExplained ==
  (wpc \notin {"closing", "ended"} /\ \E i \in DOMAIN Pending : Pending[i] = "fatal")
    ~> (told \/ socket = "broken")
=============================================================================
