----------------------------- MODULE WasmSender -----------------------------
(***************************************************************************)
(* The sender of the browser backend (wasm/link.rs).  There is one thread: *)
(* a worker that runs (Busy) is not interrupted before its next await.  A  *)
(* worker serves the queue it finds when it looks, so one that outlives    *)
(* its queue goes on with the next one.                                    *)
(***************************************************************************)
EXTENDS Channel

Wasm == backend = "wasm"

Busy == \E t \in Generations : worker[t].at \in {"next", "open", "burst"}

Ready(t, at) == Wasm /\ ~Busy /\ worker[t].at = at

Asleep == {t \in Generations : worker[t].at = "ended"}

\* queue_reliable starts a worker unless the queue has one running.
QueueReliable ==
  /\ Wasm /\ ~Busy /\ MaySend
  /\ calls' = calls + 1
  /\ current' = QueueInUse
  /\ queue' = Queued
  /\ running' = [running EXCEPT ![QueueInUse] = TRUE]
  /\ IF running[QueueInUse] THEN UNCHANGED worker
     ELSE \E t \in Asleep : worker' = [worker EXCEPT ![t] = At("spawned", 0)]
  /\ UNCHANGED <<backend, game, link, made, chan, outcome, rx, received, slow>>

\* The head of send_worker's loop, and the first look of wait_link.
SendWorker(t) ==
  /\ Wasm
  /\ \/ worker[t].at = "next"
     \/ Ready(t, "spawned")
  /\ IF current = 0
       THEN /\ worker' = [worker EXCEPT ![t] = Ended]
            /\ UNCHANGED <<queue, running>>
     ELSE IF queue[current] = <<>>
       THEN /\ worker' = [worker EXCEPT ![t] = Ended]
            /\ running' = [running EXCEPT ![current] = FALSE]
            /\ UNCHANGED queue
     ELSE /\ worker' = [worker EXCEPT ![t] =
                [At(IF link = 0 THEN "await-link" ELSE "open", current)
                   EXCEPT !.msg = Head(queue[current]), !.link = link]]
          /\ queue' = [queue EXCEPT ![current] = Tail(@)]
          /\ UNCHANGED running
  /\ UNCHANGED <<backend, game, link, made, chan, calls, outcome, current, rx,
                 received, slow>>

\* The job of a worker is done.  The jobs of a queue that was dropped meanwhile
\* go with the last reference to it, which the worker held.
Done(t, r) ==
  LET w == worker[t]
      dropped == IF w.gen = current THEN {}
                 ELSE {queue[w.gen][i] : i \in DOMAIN queue[w.gen]} IN
  /\ outcome' = [m \in 1 .. Messages |->
       IF m = w.msg THEN r ELSE IF m \in dropped THEN "failed" ELSE outcome[m]]
  /\ queue' = IF w.gen = current THEN queue ELSE [queue EXCEPT ![w.gen] = <<>>]
  /\ worker' = [worker EXCEPT ![t] = At("next", 0)]

Failed(t) == Done(t, "failed") /\ UNCHANGED <<chan, rx>>

To(t, at) ==
  /\ worker' = [worker EXCEPT ![t].at = at]
  /\ UNCHANGED <<chan, outcome, queue, rx>>

\* What a worker that awaits a link or its channel is resumed with.
LinkArrived(t) ==
  /\ Ready(t, "await-link")
  /\ \/ worker[t].link # 0 /\ To(t, "open")
     \/ worker[t].gen # current /\ worker[t].link = 0 /\ Failed(t)

CheckReliableOpen(t) ==
  LET c == chan[worker[t].link] IN
  /\ Wasm /\ worker[t].at = "open"
  /\ \/ c.closed /\ Failed(t)
     \/ ~c.closed /\ c.state = "closed" /\ Failed(t)
     \/ ~c.closed /\ c.state = "connecting" /\ To(t, "await-open")
     \/ ~c.closed /\ c.state = "open" /\ To(t, "opened")

Refused(t) == Ready(t, "refused") /\ Failed(t)

AwaitTimeout(t) ==
  /\ \/ Ready(t, "await-link") /\ worker[t].link = 0 /\ worker[t].gen = current
     \/ Ready(t, "await-open")
  /\ Failed(t)

NextId(t) ==
  /\ Ready(t, "opened")
  /\ worker' = [worker EXCEPT ![t].at = "burst", ![t].id = chan[worker[t].link].nextId]
  /\ TakeMsgId(worker[t].link)
  /\ UNCHANGED <<outcome, queue>>

\* Chunks go out one after the other until too much is buffered.
Burst(t) ==
  LET w == worker[t] IN
  /\ Wasm /\ w.at = "burst"
  /\ \/ chan[w.link].closed /\ Failed(t)
     \/ /\ ~chan[w.link].closed /\ Buffered(w.link) > HighWater
        /\ To(t, "await-drain")
     \/ /\ ~chan[w.link].closed /\ Buffered(w.link) <= HighWater
        /\ IF chan[w.link].state # "open" THEN Failed(t)
           ELSE /\ chan' = Sent(w)
                /\ IF LastChunk(w) THEN Done(t, "ok")
                   ELSE /\ worker' = [worker EXCEPT ![t].seq = @ + 1]
                        /\ UNCHANGED <<outcome, queue>>
                /\ UNCHANGED rx

\* wait_drain looks again at each event and at each poll.
Drained(t) ==
  LET n == worker[t].link IN
  /\ Ready(t, "await-drain")
  /\ \/ chan[n].closed /\ Failed(t)
     \/ ~chan[n].closed /\ Buffered(n) <= LowWater /\ To(t, "burst")

SendOneWasm(t) ==
  /\ \/ LinkArrived(t) \/ CheckReliableOpen(t) \/ Refused(t) \/ AwaitTimeout(t)
     \/ NextId(t) \/ Burst(t) \/ Drained(t)
  /\ UNCHANGED <<backend, game, link, made, calls, current, running, received, slow>>

----------------------------------------------------------------------------
(* Links, and the callbacks of their channels *)

\* The open_waiters of link n are told.
Told(n, at) ==
  [t \in Generations |->
     IF worker[t].at = "await-open" /\ worker[t].link = n
       THEN [worker[t] EXCEPT !.at = at] ELSE worker[t]]

\* Link::close closes the channel and the connection at once.
ShutLink(n) ==
  IF n = 0 THEN chan
  ELSE [chan EXCEPT ![n].closed = TRUE, ![n].state = "closed"]

\* create_link closes the link there is and hands the new one to who waits.
CreateLinkWasm ==
  /\ Wasm /\ ~Busy /\ game = "on" /\ made < MaxLinks
  /\ made' = made + 1 /\ link' = made + 1
  /\ chan' = ShutLink(link)
  /\ worker' = [t \in Generations |->
       IF worker[t].at = "await-link" /\ worker[t].link = 0
         THEN [worker[t] EXCEPT !.link = made + 1] ELSE Told(link, "refused")[t]]
  /\ UNCHANGED <<backend, game, calls, outcome, queue, current, running, rx,
                 received, slow>>

ClosePeerWasm ==
  /\ Wasm /\ ~Busy /\ link # 0
  /\ link' = 0
  /\ chan' = ShutLink(link)
  /\ worker' = Told(link, "refused")
  /\ UNCHANGED <<backend, game, made, calls, outcome, queue, current, running, rx,
                 received, slow>>

\* A worker holds its queue while it waits; otherwise the queue goes at once.
Holds(t) == worker[t].gen = current /\ worker[t].at # "spawned"

TeardownPeersWasm ==
  /\ Wasm /\ ~Busy
  /\ \/ game = "on" /\ game' \in {"over", "closed"}
     \/ game = "over" /\ game' = "closed"
  /\ link' = 0 /\ current' = 0
  /\ chan' = ShutLink(link)
  /\ worker' = Told(link, "refused")
  /\ IF current = 0 \/ \E t \in Generations : Holds(t)
       THEN UNCHANGED <<outcome, queue>>
       ELSE /\ outcome' = [m \in 1 .. Messages |->
                 IF \E i \in DOMAIN queue[current] : queue[current][i] = m
                   THEN "failed" ELSE outcome[m]]
            /\ queue' = [queue EXCEPT ![current] = <<>>]
  /\ UNCHANGED <<backend, made, calls, running, rx, received, slow>>

OnOpenWasm(n) ==
  /\ Wasm /\ ~Busy /\ n = link /\ chan[n].state = "connecting"
  /\ chan' = [chan EXCEPT ![n].state = "open"]
  /\ rx' = Receiver(n)
  /\ worker' = Told(n, "opened")
  /\ UNCHANGED <<backend, game, link, made, calls, outcome, queue, current, running,
                 received, slow>>

\* The other end closes the channel.
OnCloseWasm(n) ==
  /\ Wasm /\ ~Busy /\ n <= made /\ chan[n].state # "closed"
  /\ chan' = [chan EXCEPT ![n].state = "closed"]
  /\ worker' = Told(n, "refused")
  /\ UNCHANGED <<backend, game, link, made, calls, outcome, queue, current, running,
                 rx, received, slow>>

WasmNext ==
  \/ QueueReliable \/ CreateLinkWasm \/ ClosePeerWasm \/ TeardownPeersWasm
  \/ \E t \in Generations : SendWorker(t) \/ SendOneWasm(t)
  \/ \E n \in LinkIds : OnOpenWasm(n) \/ OnCloseWasm(n)
=============================================================================
