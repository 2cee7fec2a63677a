-------------------------- MODULE TransportProofs --------------------------
(***************************************************************************)
(* Theorems of Transport: its type invariant, the place of a kick's error  *)
(* among the messages, and that it is a Conn, for every size of the queue. *)
(***************************************************************************)
EXTENDS Transport, TLAPS

(***************************************************************************)
(* Types.                                                                  *)
(***************************************************************************)

\* A room's message that is on its way into the queue is still within the bound.
SendsInv == op.msg = "event" => taken < MaxSends

\* What the steps of an Enqueue make of the operation in progress.
LEMMA OpTypes ==
  ASSUME op \in Ops, op.at \in {"check", "send", "shutdown"}
  PROVE  /\ op.msg \in {"event", "fatal"} /\ op.joining \in BOOLEAN
         /\ \A a \in {"check", "send", "shutdown"}, m \in {"event", "fatal"} :
              [op EXCEPT !.at = a, !.msg = m] \in Ops /\ [op EXCEPT !.at = a] \in Ops
<1> DEFINE R == [at : {"check", "send", "shutdown"}, msg : {"event", "fatal"}, joining : BOOLEAN]
<1>1. op \in R
  <2>1. Idle.at \notin {"check", "send", "shutdown"}
    BY DEF Idle
  <2> QED BY <2>1 DEF Ops
<1>2. \A a \in {"check", "send", "shutdown"}, m \in {"event", "fatal"} :
        [op EXCEPT !.at = a, !.msg = m] \in R /\ [op EXCEPT !.at = a] \in R
  BY <1>1
<1>3. op.msg \in {"event", "fatal"} /\ op.joining \in BOOLEAN
  BY <1>1
<1> QED BY <1>2, <1>3 DEF Ops

\* Every variable of the transport keeps its type and the queue its bound
\* (wsClient.Enqueue never sends beyond the capacity of the channel).
THEOREM TypeCorrect == Spec => []TypeOK
<1>1. Init => TypeOK /\ SendsInv
  <2>1. Idle \in Ops
    BY DEF Ops
  <2>2. <<>> \in Seq(Messages) /\ Len(<<>>) = 0
    OBVIOUS
  <2>3. Idle.msg # "event"
    BY DEF Idle, NoMessage
  <2>4. Len(<<>>) <= QueueSize /\ 0 \in 0 .. MaxSends
    BY <2>2, QueueAssumption
  <2>5. ASSUME Init PROVE TypeOK
    <3>1. queue \in Seq(Messages) /\ Len(queue) <= QueueSize /\ taken \in 0 .. MaxSends
      BY <2>2, <2>4, <2>5 DEF Init
    <3>2. op \in Ops /\ hand \in Messages \cup {NoMessage}
      BY <2>1, <2>5 DEF Init
    <3>3. done \in BOOLEAN /\ told \in BOOLEAN /\ sess \in BOOLEAN /\ attached \in BOOLEAN
      BY <2>5 DEF Init
    <3>4. /\ socket \in {"open", "broken", "closed"}
          /\ wpc \in WriterStates /\ rpc \in ReaderStates
      BY <2>5 DEF Init, ReaderStates, WriterStates
    <3> QED BY <3>1, <3>2, <3>3, <3>4 DEF TypeOK
  <2> QED BY <2>3, <2>5 DEF Init, SendsInv
<1>2. TypeOK /\ SendsInv /\ [Next]_vars => TypeOK' /\ SendsInv'
  <2> SUFFICES ASSUME TypeOK, SendsInv, [Next]_vars PROVE TypeOK' /\ SendsInv'
    OBVIOUS
  <2>b. Idle.msg # "event"
    BY DEF Idle, NoMessage
  <2> USE QueueAssumption DEF TypeOK, SendsInv, ReaderStates, WriterStates, writerVars
  <2>a. /\ Idle \in Ops
        /\ \A a \in {"check", "send", "shutdown"}, m \in {"event", "fatal"}, j \in BOOLEAN :
             [at |-> a, msg |-> m, joining |-> j] \in Ops
    BY DEF Ops
  <2>1. CASE Send
    BY <2>1, <2>a DEF Send
  <2>2. CASE KickOut
    BY <2>2, <2>a DEF KickOut
  <2>3. CASE FindsDone
    <3>1. op' \in Ops /\ (op'.msg = "event" => op.msg = "event")
      BY <2>3, OpTypes DEF FindsDone, Refused
    <3>2. UNCHANGED <<queue, done, socket, wpc, hand, told, rpc, sess, taken>> /\ attached' = FALSE
      BY <2>3 DEF FindsDone, Refused
    <3>3. SendsInv'
      BY <3>1, <3>2
    <3>4. attached' \in BOOLEAN /\ op' \in Ops
      BY <3>1, <3>2
    <3> QED BY <3>2, <3>3, <3>4
  <2>4. CASE FindsOpen
    BY <2>4, OpTypes DEF FindsOpen
  <2>5. CASE Accepted
    <3>1. queue' \in Seq(Messages) /\ Len(queue') <= QueueSize
      BY <2>5, OpTypes DEF Accepted, HasRoom, Messages
    <3>2. op' \in Ops
      BY <2>5, <2>a, OpTypes DEF Accepted
    <3>3. taken' \in 0 .. MaxSends
      BY <2>5 DEF Accepted
    <3>4. SendsInv'
      BY <2>5, <2>b, OpTypes DEF Accepted
    <3> QED BY <2>5, <3>1, <3>2, <3>3, <3>4 DEF Accepted
  <2>6. CASE FindsFull
    <3>1. op' \in Ops /\ (op'.msg = "event" => op.msg = "event")
      BY <2>6, OpTypes DEF FindsFull, Refused
    <3>2. /\ UNCHANGED <<queue, socket, wpc, hand, told, rpc, sess, taken>>
          /\ attached' \in BOOLEAN /\ done' \in BOOLEAN
      BY <2>6 DEF FindsFull, Refused
    <3> QED BY <3>1, <3>2
  <2>7. CASE KickEnds
    BY <2>7, <2>a, <2>b DEF KickEnds, ShutsDown
  <2>8. CASE Receive
    BY <2>8 DEF Receive
  <2>9. CASE ReadFails
    BY <2>9 DEF ReadFails
  <2>10. CASE Join
    BY <2>10, <2>a DEF Join
  <2>11. CASE JoinReturns
    BY <2>11 DEF JoinReturns
  <2>12. CASE Leave
    BY <2>12 DEF Leave
  <2>13. CASE Handle
    BY <2>13 DEF Handle
  <2>14. CASE Binary
    BY <2>14 DEF Binary
  <2>15. CASE Reply
    <3>1. queue' \in Seq(Messages) /\ Len(queue') <= QueueSize
      BY <2>15 DEF Reply, HasRoom, Messages
    <3> QED BY <2>15, <3>1 DEF Reply
  <2>16. CASE Stop
    BY <2>16 DEF Stop
  <2>17. CASE Disconnect
    BY <2>17 DEF Disconnect
  <2>18. CASE Return
    BY <2>18 DEF Return
  <2>19. CASE Take
    <3>1. queue' \in Seq(Messages) /\ Len(queue') <= QueueSize /\ hand' \in Messages
      BY <2>19 DEF Take
    <3> QED BY <2>19, <3>1 DEF Take, othersVars
  <2>20. CASE SeeDone
    BY <2>20 DEF SeeDone, othersVars
  <2>21. CASE Drained
    BY <2>21 DEF Drained, othersVars
  <2>22. CASE Written
    BY <2>22 DEF Written, othersVars
  <2>23. CASE WriteFails
    BY <2>23 DEF WriteFails, othersVars
  <2>24. CASE Close
    BY <2>24 DEF Close, othersVars
  <2>25. CASE Break
    BY <2>25 DEF Break, othersVars
  <2>26. CASE UNCHANGED vars
    BY <2>26 DEF vars
  <2> QED
    BY <2>1, <2>2, <2>3, <2>4, <2>5, <2>6, <2>7, <2>8, <2>9, <2>10, <2>11, <2>12,
       <2>13, <2>14, <2>15, <2>16, <2>17, <2>18, <2>19, <2>20, <2>21, <2>22, <2>23,
       <2>24, <2>25, <2>26 DEF Next, Lobby, Reader, Writer
<1> QED BY <1>1, <1>2, PTL DEF Spec
(***************************************************************************)
(* The error of a kick is the last that is heard of a room.                *)
(***************************************************************************)

\* The error of a lobby's kick was handed to the transport.
FatalSeen == told \/ hand = "fatal" \/ \E i \in DOMAIN queue : queue[i] = "fatal"

\* FatalIsLast in terms of the queue and the writer's message, with what keeps it
\* so: after the error `done` is closed, or is about to be by the operation that
\* queued it, and a message that has passed the test of `done` came before it.
OrderInv ==
  /\ hand # NoMessage <=> wpc \in {"writing", "flushing"}
  /\ told => hand # "event"
  /\ told \/ hand = "fatal" => \A i \in DOMAIN queue : queue[i] # "event"
  /\ \A i, j \in DOMAIN queue : i < j /\ queue[i] = "fatal" => queue[j] # "event"
  /\ FatalSeen => done \/ op.at = "shutdown"
  /\ op.at = "send" /\ op.msg = "event" => ~FatalSeen

LEMMA QueueAppend ==
  ASSUME NEW q \in Seq(Messages), NEW m \in Messages
  PROVE  /\ DOMAIN Append(q, m) = 1 .. Len(q) + 1 /\ DOMAIN q = 1 .. Len(q) /\ Len(q) \in Nat
         /\ \A i \in DOMAIN q : Append(q, m)[i] = q[i]
         /\ Append(q, m)[Len(q) + 1] = m
  OBVIOUS

LEMMA QueueTail ==
  ASSUME NEW q \in Seq(Messages), q # <<>>
  PROVE  /\ Head(q) = q[1] /\ 1 \in DOMAIN q
         /\ \A i \in DOMAIN Tail(q) : i + 1 \in DOMAIN q /\ Tail(q)[i] = q[i + 1] /\ i + 1 > 1
         /\ DOMAIN Tail(q) \subseteq Nat
  OBVIOUS

\* Pending is the queue behind the writer's message.
LEMMA PendingOrder == ASSUME TypeOK, OrderInv PROVE FatalIsLast
<1>1. CASE hand = NoMessage
  BY <1>1 DEF OrderInv, FatalIsLast, Pending
<1>2. CASE hand # NoMessage
  <2>1. hand \in Messages /\ queue \in Seq(Messages)
    BY <1>2 DEF TypeOK
  <2>2. Pending = <<hand>> \o queue
    BY <1>2 DEF Pending
  <2>3. \A i \in DOMAIN Pending :
          /\ i \in Nat /\ i >= 1
          /\ (i = 1 /\ Pending[i] = hand) \/ (i > 1 /\ i - 1 \in DOMAIN queue /\ Pending[i] = queue[i - 1])
    BY <2>1, <2>2
  <2>4. told => \A i \in DOMAIN Pending : Pending[i] # "event"
    BY <2>3 DEF OrderInv
  <2>5. ASSUME NEW i \in DOMAIN Pending, NEW j \in DOMAIN Pending, i < j, Pending[i] = "fatal"
        PROVE  Pending[j] # "event"
    <3>1. j > 1 /\ j - 1 \in DOMAIN queue /\ Pending[j] = queue[j - 1]
      BY <2>3, <2>5
    <3>2. CASE i = 1
      BY <2>3, <2>5, <3>1, <3>2 DEF OrderInv
    <3>3. CASE i # 1
      <4>1. i - 1 \in DOMAIN queue /\ queue[i - 1] = "fatal" /\ i - 1 < j - 1
        BY <2>3, <2>5, <3>3
      <4> QED BY <3>1, <4>1 DEF OrderInv
    <3> QED BY <3>2, <3>3
  <2> QED BY <2>4, <2>5 DEF FatalIsLast
<1> QED BY <1>1, <1>2

\* A step that neither touches the queue, the writer nor done, and that begins no
\* send of a room's message and ends no Kick, keeps the order.
LEMMA OrderKept ==
  ASSUME OrderInv, UNCHANGED <<queue, hand, wpc, told>>,
         done' \in {done, TRUE},
         op' = op \/ (op.at # "shutdown" /\ ~(op'.at = "send" /\ op'.msg = "event")) \/ (done' /\ op'.at # "send")
  PROVE  OrderInv'
<1>1. FatalSeen' <=> FatalSeen
  BY DEF FatalSeen
<1> QED BY <1>1 DEF OrderInv

\* Nothing of a room is queued or written after the error of a kick
\* (wsClient.Kick: Enqueue, then shutdown; Enqueue tests done first).
THEOREM FatalLast == Spec => []FatalIsLast
<1>1. Init => OrderInv
  BY DEF Init, OrderInv, FatalSeen, NoMessage, Idle
<1>2. TypeOK /\ OrderInv /\ [Next]_vars => OrderInv'
  <2> SUFFICES ASSUME TypeOK, OrderInv, [Next]_vars PROVE OrderInv'
    OBVIOUS
  <2>a. Idle.at = "idle"
    BY DEF Idle
  <2>1. CASE Send
    <3>1. UNCHANGED <<queue, hand, wpc, told>> /\ done' = done /\ op.at # "shutdown" /\ op'.at = "check"
      BY <2>1, <2>a DEF Send, writerVars
    <3> QED BY <3>1, OrderKept
  <2>2. CASE KickOut
    <3>1. UNCHANGED <<queue, hand, wpc, told>> /\ done' = done /\ op.at # "shutdown" /\ op'.at = "check"
      BY <2>2, <2>a DEF KickOut, writerVars
    <3> QED BY <3>1, OrderKept
  <2>3. CASE FindsDone \/ FindsFull
    <3>1. UNCHANGED <<queue, hand, wpc, told, done>> /\ op.at # "shutdown" /\ op \in Ops
      BY <2>3 DEF FindsDone, FindsFull, writerVars, TypeOK
    <3>2. op.at \in {"check", "send"}
      BY <2>3 DEF FindsDone, FindsFull
    <3>3. op' = [op EXCEPT !.at = "check", !.msg = "fatal"] \/ op' = [op EXCEPT !.at = "shutdown"]
      BY <2>3 DEF FindsDone, FindsFull, Refused
    <3>4. ~(op'.at = "send" /\ op'.msg = "event")
      BY <3>1, <3>3 DEF Ops, Idle
    <3> QED BY <3>1, <3>4, OrderKept
  <2>4. CASE FindsOpen
    <3>1. UNCHANGED <<queue, hand, wpc, told, done>> /\ ~done /\ op.at = "check"
      BY <2>4 DEF FindsOpen, writerVars, Passes
    <3>2. ~FatalSeen /\ ~FatalSeen'
      BY <3>1 DEF OrderInv, FatalSeen
    <3> QED BY <3>1, <3>2 DEF OrderInv
  <2>5. CASE Accepted
    <3>1. /\ queue' = Append(queue, op.msg) /\ op.msg \in {"event", "fatal"} /\ op.msg \in Messages
          /\ queue \in Seq(Messages) /\ op.at = "send"
          /\ UNCHANGED <<done, hand, wpc, told>>
      BY <2>5, OpTypes DEF Accepted, writerVars, TypeOK, Messages
    <3> DEFINE n == Len(queue) + 1
    <3>2. /\ DOMAIN queue' = 1 .. n /\ DOMAIN queue = 1 .. Len(queue) /\ Len(queue) \in Nat
          /\ \A i \in DOMAIN queue : queue'[i] = queue[i]
          /\ queue'[n] = op.msg
      BY <3>1, QueueAppend
    <3>3. \A i \in DOMAIN queue' : i = n \/ (i \in DOMAIN queue /\ i < n)
      BY <3>2
    <3>4. CASE op.msg = "event"
      <4>1. ~FatalSeen /\ op' = Idle
        BY <3>1, <3>4, <2>5 DEF OrderInv, Accepted
      <4>2. ~FatalSeen'
        BY <3>1, <3>2, <3>3, <3>4, <4>1 DEF FatalSeen
      <4>3. \A i \in DOMAIN queue' : queue'[i] # "fatal"
        BY <4>2 DEF FatalSeen
      <4> QED BY <3>1, <4>1, <4>2, <4>3, <2>a DEF OrderInv, FatalSeen
    <3>5. CASE op.msg = "fatal"
      <4>1. op'.at = "shutdown"
        <5>1. op \in Ops /\ op' = [op EXCEPT !.at = "shutdown"]
          BY <2>5, <3>5 DEF Accepted, TypeOK
        <5> QED BY <5>1 DEF Ops, Idle
      <4>2. \A i \in DOMAIN queue' : queue'[i] = "event" => i \in DOMAIN queue /\ queue[i] = "event" /\ i < n
        BY <3>2, <3>3, <3>5
      <4>3. ASSUME NEW i \in DOMAIN queue', NEW j \in DOMAIN queue', i < j, queue'[i] = "fatal"
            PROVE  queue'[j] # "event"
        <5>1. CASE j = n
          BY <5>1, <3>2, <3>5
        <5>2. CASE j # n
          <6>1. j \in DOMAIN queue /\ i \in DOMAIN queue
            BY <5>2, <4>3, <3>2, <3>3
          <6> QED BY <6>1, <4>3, <3>2 DEF OrderInv
        <5> QED BY <5>1, <5>2
      <4> QED BY <3>1, <4>1, <4>2, <4>3 DEF OrderInv
    <3> QED BY <3>1, <3>4, <3>5
  <2>7. CASE KickEnds
    <3>1. UNCHANGED <<queue, hand, wpc, told>> /\ done' = TRUE /\ op'.at # "send"
      BY <2>7, <2>a DEF KickEnds, ShutsDown, writerVars
    <3> QED BY <3>1, OrderKept
  <2>8. CASE Receive \/ ReadFails \/ JoinReturns \/ Leave \/ Handle \/ Binary \/ Disconnect
    <3>1. UNCHANGED <<queue, hand, wpc, told, done, op>>
      BY <2>8 DEF Receive, ReadFails, JoinReturns, Leave, Handle, Binary, Disconnect, writerVars
    <3> QED BY <3>1, OrderKept
  <2>9. CASE Stop \/ Return
    <3>1. UNCHANGED <<queue, hand, wpc, told, op>> /\ done' = TRUE
      BY <2>9 DEF Stop, Return, writerVars
    <3> QED BY <3>1, OrderKept
  <2>10. CASE Join
    <3>1. UNCHANGED <<queue, hand, wpc, told>> /\ done' = done /\ op.at # "shutdown" /\ op'.at = "check"
      BY <2>10, <2>a DEF Join, writerVars
    <3> QED BY <3>1, OrderKept
  <2>15. CASE Reply
    <3>1. UNCHANGED <<hand, wpc, told, done, op>> /\ queue \in Seq(Messages)
      BY <2>15 DEF Reply, writerVars, TypeOK
    <3>2. CASE queue' = queue
      BY <3>1, <3>2, OrderKept
    <3>3. CASE queue' # queue
      <4>1. PICK m \in {"reply", "invalid"} : queue' = Append(queue, m)
        BY <2>15, <3>3 DEF Reply
      <4> DEFINE n == Len(queue) + 1
      <4>2. /\ DOMAIN queue' = 1 .. n /\ DOMAIN queue = 1 .. Len(queue) /\ Len(queue) \in Nat
            /\ \A i \in DOMAIN queue : queue'[i] = queue[i]
            /\ queue'[n] = m
        BY <3>1, <4>1, QueueAppend DEF Messages
      <4>3. \A i \in DOMAIN queue' : queue'[i] \in {"event", "fatal"} => i \in DOMAIN queue /\ queue'[i] = queue[i]
        BY <4>2
      <4>4. FatalSeen' => FatalSeen
        BY <3>1, <4>3 DEF FatalSeen
      <4> QED BY <3>1, <4>3, <4>4 DEF OrderInv
    <3> QED BY <3>2, <3>3
  <2>19. CASE Take
    <3>1. /\ queue \in Seq(Messages) /\ queue # <<>> /\ hand' = Head(queue) /\ queue' = Tail(queue)
          /\ hand = NoMessage /\ wpc' \in {"writing", "flushing"}
          /\ UNCHANGED <<done, told, op>>
      BY <2>19 DEF Take, othersVars, TypeOK, OrderInv
    <3>2. /\ hand' = queue[1] /\ 1 \in DOMAIN queue
          /\ \A i \in DOMAIN queue' : i \in Nat /\ i + 1 \in DOMAIN queue /\ queue'[i] = queue[i + 1] /\ i + 1 > 1
      BY <3>1, QueueTail
    <3>3. hand' # NoMessage
      BY <3>1, <3>2 DEF NoMessage, Messages
    <3>4. FatalSeen' => FatalSeen
      BY <3>1, <3>2 DEF FatalSeen
    <3>5. told' => hand' # "event"
      BY <3>1, <3>2 DEF OrderInv
    <3>6. told' \/ hand' = "fatal" => \A i \in DOMAIN queue' : queue'[i] # "event"
      BY <3>1, <3>2 DEF OrderInv
    <3>7. ASSUME NEW i \in DOMAIN queue', NEW j \in DOMAIN queue', i < j, queue'[i] = "fatal"
          PROVE  queue'[j] # "event"
      <4>1. i + 1 < j + 1 /\ i + 1 \in DOMAIN queue /\ j + 1 \in DOMAIN queue
        BY <3>2, <3>7
      <4> QED BY <4>1, <3>2, <3>7 DEF OrderInv
    <3> QED BY <3>1, <3>3, <3>4, <3>5, <3>6, <3>7 DEF OrderInv
  <2>20. CASE SeeDone \/ Drained \/ Close \/ Break
    <3>1. /\ UNCHANGED <<queue, hand, told, done, op>>
          /\ wpc' \in {"writing", "flushing"} <=> wpc \in {"writing", "flushing"}
      BY <2>20 DEF SeeDone, Drained, Close, Break, othersVars
    <3> QED BY <3>1 DEF OrderInv, FatalSeen
  <2>22. CASE Written \/ WriteFails
    <3>1. /\ UNCHANGED <<queue, op>> /\ hand' = NoMessage /\ wpc' \notin {"writing", "flushing"}
          /\ told' => told \/ hand = "fatal"
          /\ done => done'
      <4>1. CASE Written
        BY <4>1 DEF Written, othersVars
      <4>2. CASE WriteFails
        <5>1. done => done'
          BY <4>2, Zenon DEF WriteFails
        <5> QED BY <4>2, <5>1 DEF WriteFails, othersVars
      <4> QED BY <2>22, <4>1, <4>2
    <3>2. FatalSeen' => FatalSeen
      BY <3>1 DEF FatalSeen, NoMessage
    <3> QED BY <3>1, <3>2 DEF OrderInv, NoMessage
  <2>26. CASE UNCHANGED vars
    <3>1. UNCHANGED <<queue, hand, wpc, told, done, op>>
      BY <2>26 DEF vars
    <3> QED BY <3>1, OrderKept
  <2> QED
    BY <2>1, <2>2, <2>3, <2>4, <2>5, <2>7, <2>8, <2>9, <2>10, <2>15, <2>19, <2>20,
       <2>22, <2>26 DEF Next, Lobby, Reader, Writer
<1> QED BY <1>1, <1>2, TypeCorrect, PendingOrder, PTL DEF Spec
(***************************************************************************)
(* A transport is a Conn.                                                  *)
(***************************************************************************)

\* Who holds the transport while an operation works on it, and after its reader
\* reported the end.
LinkInv ==
  /\ attached => sess
  /\ op # Idle => sess /\ rpc \notin {"shutdown", "gone"}
  /\ rpc \in {"shutdown", "gone"} => ~sess
  /\ op.msg = "event" => attached
  /\ op.msg = "fatal" => ~attached
  /\ op.at = "shutdown" => op.msg = "fatal"

LEMMA LinkInductive ==
  ASSUME TypeOK, LinkInv, [Next]_vars PROVE LinkInv'
<1> USE DEF LinkInv
<1>a. Idle.at = "idle" /\ Idle.msg = "none"
  BY DEF Idle, NoMessage
<1>1. CASE Send \/ KickOut
  BY <1>1, <1>a DEF Send, KickOut, writerVars
<1>2. CASE FindsDone \/ FindsFull
  <2>1. /\ op \in Ops /\ op.at \in {"check", "send"} /\ op.msg \in {"event", "fatal"}
        /\ attached' = FALSE /\ UNCHANGED <<sess, rpc>>
        /\ op' = IF op.msg = "event" THEN [op EXCEPT !.at = "check", !.msg = "fatal"]
                 ELSE [op EXCEPT !.at = "shutdown"]
    BY <1>2, OpTypes DEF FindsDone, FindsFull, Refused, TypeOK
  <2>2. op'.msg = "fatal" /\ op'.at \in {"check", "shutdown"}
    BY <2>1 DEF Ops, Idle
  <2> QED BY <2>1, <2>2, <1>a
<1>3. CASE FindsOpen
  <2>1. /\ op \in Ops /\ op.at = "check" /\ op.msg \in {"event", "fatal"}
        /\ UNCHANGED <<attached, sess, rpc>>
        /\ op' = [op EXCEPT !.at = "send"]
    BY <1>3, OpTypes DEF FindsOpen, TypeOK
  <2>2. op'.msg = op.msg /\ op'.at = "send"
    BY <2>1 DEF Ops, Idle
  <2> QED BY <2>1, <2>2, <1>a
<1>4. CASE Accepted
  <2>1. /\ op \in Ops /\ op.at = "send" /\ op.msg \in {"event", "fatal"}
        /\ UNCHANGED <<attached, sess, rpc>>
        /\ op' = IF op.msg = "event" THEN Idle ELSE [op EXCEPT !.at = "shutdown"]
    BY <1>4, OpTypes DEF Accepted, TypeOK
  <2>2. op' = Idle \/ (op'.msg = op.msg /\ op'.at = "shutdown" /\ op.msg = "fatal")
    BY <2>1 DEF Ops, Idle
  <2> QED BY <2>1, <2>2, <1>a
<1>5. CASE KickEnds
  BY <1>5, <1>a DEF KickEnds
<1>6. CASE Receive \/ ReadFails \/ JoinReturns \/ Handle \/ Binary \/ Reply \/ Stop
  <2>1. UNCHANGED <<sess, attached, op>> /\ rpc \notin {"shutdown", "gone"} /\ rpc' \notin {"shutdown", "gone"}
    BY <1>6 DEF Receive, ReadFails, JoinReturns, Handle, Binary, Reply, Stop
  <2> QED BY <2>1
<1>7. CASE Join
  BY <1>7, <1>a DEF Join
<1>8. CASE Leave \/ Disconnect
  BY <1>8, <1>a DEF Leave, Disconnect
<1>9. CASE Return
  BY <1>9 DEF Return
<1>10. CASE Writer \/ Break
  <2>1. UNCHANGED othersVars
    BY <1>10 DEF Writer, Take, SeeDone, Drained, Written, WriteFails, Close, Break
  <2> QED BY <2>1 DEF othersVars
<1>11. CASE UNCHANGED vars
  BY <1>11 DEF vars
<1> QED
  BY <1>1, <1>2, <1>3, <1>4, <1>5, <1>6, <1>7, <1>8, <1>9, <1>10, <1>11 DEF Next, Lobby, Reader
\* The transport, seen as a Conn.
connVars == <<ConnState, ConnSess, ConnAttached, taken>>

LEMMA ContractInit == Init => Contract!Init
  BY DEF Init, Contract!Init, ConnState, ConnSess, ConnAttached, Idle

\* A step that touches neither the operation, the session nor the slot can only
\* shut the transport.
LEMMA ContractShut ==
  ASSUME UNCHANGED <<op, sess, attached, taken>>, done \in BOOLEAN, done' \in {done, TRUE},
         rpc' \in {"shutdown", "gone"} <=> rpc \in {"shutdown", "gone"}
  PROVE  Contract!Shut \/ UNCHANGED connVars
<1>1. UNCHANGED <<ConnSess, ConnAttached, taken>>
  BY DEF ConnSess, ConnAttached
<1>2. ConnState' = ConnState \/ (ConnState = "open" /\ ConnState' = "shut")
  BY DEF ConnState
<1> QED BY <1>1, <1>2 DEF Contract!Shut, connVars

LEMMA ContractStep ==
  ASSUME TypeOK, LinkInv, [Next]_vars
  PROVE  Contract!Next \/ UNCHANGED connVars
<1> USE DEF ConnState, ConnSess, ConnAttached, connVars
<1>a. Idle.at = "idle" /\ Idle.msg = "none"
  BY DEF Idle, NoMessage
<1>b. done \in BOOLEAN /\ attached \in BOOLEAN /\ sess \in BOOLEAN /\ op \in Ops
  BY DEF TypeOK
<1>1. CASE Send
  <2>1. op = Idle /\ attached /\ sess /\ UNCHANGED <<done, rpc, sess, attached, taken>>
    BY <1>1 DEF Send, LinkInv
  <2>2. op' # Idle /\ op'.joining = FALSE /\ op'.at = "check"
    BY <1>1, <1>a DEF Send
  <2> QED BY <1>a, <1>b, <2>1, <2>2
<1>2. CASE KickOut
  <2>1. op = Idle /\ attached /\ sess /\ UNCHANGED <<done, rpc, sess, taken>>
    BY <1>2 DEF KickOut, LinkInv
  <2>2. op' # Idle /\ op'.joining = FALSE /\ op'.at = "check"
    BY <1>2, <1>a DEF KickOut
  <2> QED BY <1>a, <1>b, <2>1, <2>2
<1>3. CASE FindsDone \/ FindsFull
  <2>1. /\ op.at \in {"check", "send"} /\ op # Idle /\ op.joining \in BOOLEAN
        /\ UNCHANGED <<done, rpc, taken>>
        /\ op' = IF op.msg = "event" THEN [op EXCEPT !.at = "check", !.msg = "fatal"]
                 ELSE [op EXCEPT !.at = "shutdown"]
    BY <1>3, <1>a, <1>b, OpTypes DEF FindsDone, FindsFull, Refused
  <2>2. op' # Idle /\ op'.joining = op.joining /\ op'.at \in {"check", "shutdown"}
    BY <2>1, <1>a, <1>b DEF Ops
  <2> QED BY <1>b, <2>1, <2>2 DEF Contract!Next, Contract!Shut
<1>4. CASE FindsOpen
  <2>1. /\ op.at = "check" /\ op # Idle /\ ~done /\ UNCHANGED <<done, rpc, taken>>
        /\ op' = [op EXCEPT !.at = "send"]
    BY <1>4, <1>a DEF FindsOpen, Passes
  <2>2. op' # Idle /\ op'.joining = op.joining
    BY <2>1, <1>a, <1>b DEF Ops
  <2> QED BY <2>1, <2>2
<1>5. CASE Accepted
  <2>1. op.at = "send" /\ op # Idle /\ op.msg \in {"event", "fatal"} /\ op.joining \in BOOLEAN /\ UNCHANGED <<done, rpc, sess, attached>>
    BY <1>5, <1>a, <1>b, OpTypes DEF Accepted
  <2>2. CASE op.msg = "event"
    <3>1. op' = Idle /\ taken' = taken + 1 /\ sess /\ attached /\ rpc \notin {"shutdown", "gone"}
      BY <1>5, <2>1, <2>2 DEF Accepted, LinkInv
    <3> QED BY <1>a, <1>b, <2>1, <2>2, <3>1 DEF Contract!Next, Contract!Accept, Contract!Addressed
  <2>3. CASE op.msg = "fatal"
    <3>1. op' = [op EXCEPT !.at = "shutdown"] /\ taken' = taken
      BY <1>5, <2>3 DEF Accepted
    <3>2. op' # Idle /\ op'.joining = op.joining /\ op'.msg = "fatal"
      BY <3>1, <2>1, <2>3, <1>a, <1>b DEF Ops
    <3> QED BY <2>1, <2>3, <3>1, <3>2
  <2> QED BY <2>1, <2>2, <2>3
<1>6. CASE KickEnds
  <2>1. /\ op.at = "shutdown" /\ op # Idle /\ op.joining \in BOOLEAN
        /\ op' = Idle /\ done' /\ UNCHANGED <<rpc, sess, attached, taken>>
    BY <1>6, <1>a, <1>b, OpTypes DEF KickEnds, ShutsDown
  <2>2. sess /\ ~attached /\ rpc \notin {"shutdown", "gone"}
    BY <2>1 DEF LinkInv
  <2> QED BY <1>a, <1>b, <2>1, <2>2 DEF Contract!Next, Contract!Lose, Contract!Addressed
<1>7. CASE Join
  <2>1. op = Idle /\ ~sess /\ ~attached /\ UNCHANGED <<done, taken>> /\ rpc = "frame" /\ rpc' = "joining"
    BY <1>7 DEF Join, LinkInv
  <2>2. op' # Idle /\ op'.joining = TRUE /\ op'.at = "check"
    BY <1>7, <1>a DEF Join
  <2> QED BY <1>a, <1>b, <2>1, <2>2
<1>8. CASE Leave
  <2>1. op = Idle /\ op' = Idle /\ sess /\ ~sess' /\ sess' = FALSE /\ attached' = FALSE /\ rpc = "frame" /\ rpc' = "read"
        /\ UNCHANGED <<done, taken>>
    BY <1>8 DEF Leave
  <2> QED BY <2>1, <1>a DEF Contract!Next, Contract!Leave
<1>9. CASE Disconnect
  <2>1. op = Idle /\ op' = Idle /\ sess' = FALSE /\ attached' = FALSE /\ rpc = "ended" /\ rpc' = "shutdown"
        /\ UNCHANGED <<done, taken>>
    BY <1>9 DEF Disconnect
  <2> QED BY <2>1, <1>a DEF Contract!Next, Contract!End
<1>10. CASE Receive \/ ReadFails \/ JoinReturns \/ Handle \/ Binary \/ Reply \/ Stop \/ Return
  <2>1. /\ UNCHANGED <<op, sess, attached, taken>> /\ done' \in {done, TRUE}
        /\ rpc' \in {"shutdown", "gone"} <=> rpc \in {"shutdown", "gone"}
    BY <1>10 DEF Receive, ReadFails, JoinReturns, Handle, Binary, Reply, Stop, Return
  <2> QED BY <1>b, <2>1, ContractShut DEF Contract!Next
<1>11. CASE Writer \/ Break
  <2>1. UNCHANGED <<op, sess, attached, taken, rpc>>
    BY <1>11 DEF Writer, Take, SeeDone, Drained, Written, WriteFails, Close, Break, othersVars
  <2>2. done' \in {done, TRUE}
    <3>1. CASE WriteFails
      BY <3>1, <1>b DEF WriteFails
    <3> QED BY <1>11, <3>1 DEF Writer, Take, SeeDone, Drained, Written, Close, Break
  <2> QED BY <1>b, <2>1, <2>2, ContractShut DEF Contract!Next
<1>12. CASE UNCHANGED vars
  BY <1>12 DEF vars
<1> QED
  BY <1>1, <1>2, <1>3, <1>4, <1>5, <1>6, <1>7, <1>8, <1>9, <1>10, <1>11, <1>12
     DEF Next, Lobby, Reader

\* The transport is what the lobby relies on (lobby.Conn): Enqueue accepts a message
\* only of an open transport, one that refuses or is kicked is shut when the
\* operation ends, and its reader reports the end once.
THEOREM TransportIsConn == Spec => KeepsContract
<1>1. Init => LinkInv
  BY DEF Init, LinkInv, Idle, NoMessage
<1>2. Spec => []LinkInv
  BY <1>1, LinkInductive, TypeCorrect, PTL DEF Spec
<1> QED BY <1>2, ContractInit, ContractStep, TypeCorrect, PTL
        DEF Spec, KeepsContract, Contract!Spec, connVars
=============================================================================
