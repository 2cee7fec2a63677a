---------------------------- MODULE NativeSender ----------------------------
(***************************************************************************)
(* The sender of the native backend (native/link.rs and the actor's part   *)
(* in native/actor.rs): one task per send queue, which runs beside the     *)
(* actor that makes and closes links, so that between two steps of it      *)
(* anything may happen to its link.                                        *)
(***************************************************************************)
EXTENDS Channel

Native == backend = "native"

\* Cmd::SendReliable: the queue and its task are made with the first message.
HandleSend ==
  /\ Native /\ MaySend
  /\ calls' = calls + 1
  /\ current' = QueueInUse
  /\ queue' = Queued
  /\ worker' = IF current # 0 THEN worker
               ELSE [worker EXCEPT ![QueueInUse] = At("idle", QueueInUse)]
  /\ UNCHANGED <<backend, game, link, made, chan, outcome, running, rx, received, slow>>

\* sender_task takes the next job; it ends once the queue is dropped and empty.
SenderTask(g) ==
  /\ Native /\ worker[g].at = "idle"
  /\ IF queue[g] # <<>>
       THEN /\ worker' = [worker EXCEPT ![g] = [At("link", g) EXCEPT !.msg = Head(queue[g])]]
            /\ queue' = [queue EXCEPT ![g] = Tail(@)]
       ELSE /\ current # g
            /\ worker' = [worker EXCEPT ![g] = Ended]
            /\ UNCHANGED queue
  /\ UNCHANGED <<backend, game, link, made, chan, calls, outcome, current, running,
                 rx, received, slow>>

Return(g, r) ==
  /\ Answered(worker[g].msg, r)
  /\ worker' = [worker EXCEPT ![g] = At("idle", g)]

Fail(g) == Return(g, "failed") /\ UNCHANGED <<chan, rx>>

Goto(g, at) ==
  /\ worker' = [worker EXCEPT ![g].at = at]
  /\ UNCHANGED <<chan, outcome, rx>>

\* wait_link: the watch shows the current link; it is dropped with the queue.
WaitLink(g) ==
  /\ worker[g].at = "link"
  /\ \/ /\ current = g /\ link # 0
        /\ worker' = [worker EXCEPT ![g].at = "open", ![g].link = link]
        /\ UNCHANGED <<chan, outcome, rx>>
     \/ current # g /\ Fail(g)

\* wait_reliable_open looks at the link and its channel ...
CheckOpen(g) ==
  LET c == chan[worker[g].link] IN
  /\ worker[g].at = "open"
  /\ \/ ~c.closed /\ c.state = "open" /\ Goto(g, "id")
     \/ ~c.closed /\ c.state = "connecting" /\ Goto(g, "arm")
     \/ (c.closed \/ c.state = "closed") /\ Fail(g)

\* Mutant: it waits without a second look.
ArmLate(g) == worker[g].at = "arm" /\ Goto(g, "parked")

\* ... and enables its notification before it looks again and waits.
Arm(g) ==
  LET c == chan[worker[g].link] IN
  /\ worker[g].at = "arm"
  /\ Goto(g, IF c.closed \/ c.state # "connecting" THEN "open" ELSE "parked")

\* CHANNEL_TIMEOUT, on the wait for a link or for its channel.
ChannelTimeout(g) ==
  /\ \/ worker[g].at = "link" /\ current = g /\ link = 0
     \/ worker[g].at = "parked"
  /\ Fail(g)

NextMsgId(g) ==
  LET n == worker[g].link IN
  /\ worker[g].at = "id"
  /\ worker' = [worker EXCEPT ![g].at = "chunk", ![g].id = chan[n].nextId]
  /\ TakeMsgId(n)
  /\ UNCHANGED outcome

\* The head of the loop over the chunks, with the first look of wait_drain.
StartChunk(g) ==
  LET n == worker[g].link IN
  /\ worker[g].at = "chunk"
  /\ IF chan[n].closed THEN Fail(g)
     ELSE Goto(g, IF Buffered(n) <= HighWater THEN "send" ELSE "drain")

\* Mutant: it waits for the buffer alone, not for the end of its link.
WaitDrainBlind(g) ==
  /\ worker[g].at = "drain"
  /\ Buffered(worker[g].link) <= LowWater /\ Goto(g, "send")

\* wait_drain looks again at each notification and at each poll.
WaitDrain(g) ==
  LET n == worker[g].link IN
  /\ worker[g].at = "drain"
  /\ \/ chan[n].closed /\ Fail(g)
     \/ ~chan[n].closed /\ Buffered(n) <= LowWater /\ Goto(g, "send")

SendChunk(g) ==
  LET w == worker[g] IN
  /\ w.at = "send"
  /\ IF chan[w.link].state # "open" THEN Fail(g)
     ELSE /\ chan' = Sent(w)
          /\ IF LastChunk(w) THEN Return(g, "ok")
             ELSE /\ worker' = [worker EXCEPT ![g].at = "chunk", ![g].seq = @ + 1]
                  /\ UNCHANGED outcome
          /\ UNCHANGED rx

SendOne(g) ==
  /\ Native
  /\ \/ WaitLink(g) \/ CheckOpen(g) \/ Arm(g) \/ ChannelTimeout(g) \/ NextMsgId(g)
     \/ StartChunk(g) \/ WaitDrain(g) \/ SendChunk(g)
  /\ UNCHANGED <<backend, game, link, made, calls, queue, current, running,
                 received, slow>>

----------------------------------------------------------------------------
(* The actor and the callbacks of the channel *)

\* Link::close marks the link; its channel is closed later, by a task.
CloseLink(n) ==
  IF n = 0 THEN chan ELSE [chan EXCEPT ![n].closed = TRUE, ![n].ring = TRUE]

CreateLink ==
  /\ Native /\ game = "on" /\ made < MaxLinks
  /\ made' = made + 1 /\ link' = made + 1
  /\ chan' = CloseLink(link)
  /\ UNCHANGED <<backend, game, calls, outcome, queue, current, running, worker,
                 rx, received, slow>>

ClosePeer ==
  /\ Native /\ link # 0
  /\ link' = 0
  /\ chan' = CloseLink(link)
  /\ UNCHANGED <<backend, game, made, calls, outcome, queue, current, running,
                 worker, rx, received, slow>>

\* The session ends, or the game is closed.
Ends == \/ game = "on" /\ game' \in {"over", "closed"}
        \/ game = "over" /\ game' = "closed"

TeardownPeers ==
  /\ Native /\ Ends
  /\ link' = 0 /\ current' = 0
  /\ chan' = CloseLink(link)
  /\ UNCHANGED <<backend, made, calls, outcome, queue, running, worker, rx,
                 received, slow>>

Changed(n, c) ==
  /\ chan' = [chan EXCEPT ![n] = [c EXCEPT !.ring = TRUE]]
  /\ UNCHANGED <<backend, received, slow, Unsent>>

OnOpen(n) ==
  /\ Native /\ n = link /\ chan[n].state = "connecting"
  /\ Changed(n, [chan[n] EXCEPT !.state = "open"])
  /\ rx' = Receiver(n)

\* The other end closes the channel, or the task of close_peer does.
OnClose(n) ==
  /\ Native /\ n <= made /\ chan[n].state # "closed"
  /\ Changed(n, [chan[n] EXCEPT !.state = "closed"])
  /\ UNCHANGED rx

\* state_notify.notify_waiters wakes who waits by now.
NotifyWaiters(n) ==
  /\ Native /\ chan[n].ring
  /\ chan' = [chan EXCEPT ![n].ring = FALSE]
  /\ worker' = [g \in Generations |->
       IF worker[g].at = "parked" /\ worker[g].link = n
         THEN [worker[g] EXCEPT !.at = "open"] ELSE worker[g]]
  /\ UNCHANGED <<backend, game, link, made, calls, outcome, queue, current, running,
                 rx, received, slow>>

NativeNext ==
  \/ HandleSend \/ CreateLink \/ ClosePeer \/ TeardownPeers
  \/ \E g \in Generations : SenderTask(g) \/ SendOne(g)
  \/ \E n \in LinkIds : OnOpen(n) \/ OnClose(n) \/ NotifyWaiters(n)
=============================================================================
