------------------------------ MODULE Senders ------------------------------
(***************************************************************************)
(* The reliable messages of one player to another, from send_reliable of   *)
(* either backend to the receiver's reassembler.                           *)
(***************************************************************************)
EXTENDS NativeSender, WasmSender

Connection ==
  \/ Dawdle
  \/ \E n \in LinkIds : Deliver(n) \/ Breaks(n)

Next == NativeNext \/ WasmNext \/ Connection

Safe == Init /\ [][Next]_vars

\* Tasks run and their timers fire, notifications reach who waits for them, and
\* a sound connection delivers.
Works(t) == SenderTask(t) \/ SendOne(t) \/ SendWorker(t) \/ SendOneWasm(t)

Runs ==
  /\ \A t \in Generations : WF_vars(Works(t))
  /\ \A n \in LinkIds : WF_vars(NotifyWaiters(n)) /\ WF_vars(Deliver(n))

Spec == Safe /\ Runs

----------------------------------------------------------------------------
Frame == [id : Nat, seq : Nat, total : Nat, msg : Nat]

Places == {"idle", "link", "open", "arm", "parked", "id", "chunk", "drain", "send", "ended",
           "spawned", "next", "await-link", "await-open", "opened", "refused", "burst",
           "await-drain"}

\* The types of the queues, the workers, the links and the receiver.
TypeOK ==
  /\ backend \in {"native", "wasm"} /\ game \in {"on", "over", "closed"}
  /\ link \in 0 .. made /\ made \in 0 .. MaxLinks /\ calls \in 0 .. Messages
  /\ chan \in [LinkIds ->
       [closed : BOOLEAN, state : {"connecting", "open", "closed"}, wire : Seq(Frame),
        nextId : 0 .. IdSpace - 1, cut : BOOLEAN, ring : BOOLEAN,
        done : SUBSET (1 .. Messages)]]
  /\ outcome \in [1 .. Messages -> {"none", "ok", "failed"}]
  /\ queue \in [Generations -> Seq(1 .. Messages)] /\ current \in 0 .. 2
  /\ running \in [Generations -> BOOLEAN]
  /\ worker \in [Generations ->
       [at : Places, gen : 0 .. 2, msg : 0 .. Messages, link : 0 .. MaxLinks,
        id : 0 .. IdSpace - 1, seq : Nat]]
  /\ rx.link \in 0 .. MaxLinks /\ DOMAIN rx.inflight \subseteq 0 .. IdSpace - 1
  /\ received \in Seq(1 .. Messages) /\ slow \in BOOLEAN

\* Every message handed whole to a channel that is still open and empty has been
\* received, unless its arrival took longer than the reassembly timeout: a link
\* that stays up loses nothing, through wrapping ids and pauses of the sender.
NoSilentLoss ==
  \A n \in LinkIds :
    chan[n].state = "open" /\ rx.link = n /\ chan[n].wire = <<>> /\ ~slow =>
      \A m \in chan[n].done : \E i \in DOMAIN received : received[i] = m

\* A native sender parked on a channel that is no longer connecting is about to
\* be notified: the change cannot fall between its look and its wait.
NoMissedWakeup ==
  \A g \in Generations :
    worker[g].at = "parked" =>
      LET c == chan[worker[g].link] IN
      c.closed \/ c.state # "connecting" => c.ring

\* Senders implements Mailbox: each message is received once at most, whole and
\* in order, and never after its send has failed.
Mail == INSTANCE Mailbox
KeepsOrder == Mail!Spec

Resolved == \A m \in 1 .. calls : outcome[m] # "none"

\* Every call of send_reliable returns.
SendResolves == []<>Resolved

\* A sender waits for the buffer of a link that failed, or whose channel the
\* other end closed, and that this client has not closed.
Stalled ==
  \E t \in Generations :
    /\ worker[t].at \in {"drain", "await-drain"}
    /\ LET c == chan[worker[t].link] IN ~c.closed /\ (c.cut \/ c.state = "closed")

\* Every call of send_reliable returns, unless a link dies under one that waits
\* for its buffer (wait_drain), and nothing ever closes or replaces that link.
HangsOnlyOnDeadLink == []<>Resolved \/ <>[]Stalled
=============================================================================
