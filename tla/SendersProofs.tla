--------------------------- MODULE SendersProofs ---------------------------
(***************************************************************************)
(* Proofs about Senders, both backends of send_reliable, for all lengths   *)
(* of the messages, all marks of the queue, all numbers of ids and links:  *)
(* its types, that it implements Mailbox, that it loses nothing silently,  *)
(* and that no sender misses its wakeup.                                   *)
(*                                                                         *)
(* Base says which place, message and link of a task go together.  Each    *)
(* action keeps Base and is a step of one of seven kinds (StepKinds), of   *)
(* which everything that follows speaks.                                   *)
(***************************************************************************)
EXTENDS Senders, TLAPS

\* Places of a task: with a message id, with the link it will send on, with any link,
\* and with no message; then those of either backend.
WithId == {"chunk", "drain", "send", "burst", "await-drain"}
OnLink == WithId \cup {"id", "opened"}
OfLink == OnLink \cup {"open", "arm", "parked", "await-open", "refused"}
NoJob == {"ended", "idle", "spawned", "next"}
NativePlaces == {"ended", "idle", "link", "open", "arm", "parked", "id", "chunk", "drain", "send"}
WasmPlaces == {"ended", "spawned", "next", "await-link", "open", "await-open", "opened",
               "refused", "burst", "await-drain"}

\* The types of frames, links and tasks, narrower than those of TypeOK.
Packet == [id : 0 .. IdSpace - 1, seq : Nat, total : Nat, msg : 1 .. Messages]
LinkState ==
  [closed : BOOLEAN, state : {"connecting", "open", "closed"}, wire : Seq(Packet),
   nextId : 0 .. IdSpace - 1, cut : BOOLEAN, ring : BOOLEAN, done : SUBSET (1 .. Messages)]
Task ==
  [at : Places, gen : 0 .. 2, msg : 0 .. Messages, link : 0 .. MaxLinks,
   id : 0 .. IdSpace - 1, seq : Nat]

\* An entry of the reassembler.
IsEntry(e) ==
  /\ e = [total |-> e.total, chunks |-> e.chunks, old |-> e.old]
  /\ e.total \in Nat /\ e.old \in BOOLEAN /\ DOMAIN e.chunks \subseteq Nat

\* The types of the tasks, the links, the queues, the receiver and the game.
TasksTyped == worker \in [Generations -> Task]
LinksTyped == chan \in [LinkIds -> LinkState]
QueuesTyped ==
  /\ queue \in [Generations -> Seq(1 .. Messages)]
  /\ outcome \in [1 .. Messages -> {"none", "ok", "failed"}]
  /\ calls \in 0 .. Messages
RxTyped ==
  /\ rx = [link |-> rx.link, inflight |-> rx.inflight] /\ rx.link \in 0 .. MaxLinks
  /\ DOMAIN rx.inflight \subseteq 0 .. IdSpace - 1
  /\ \A i \in DOMAIN rx.inflight : IsEntry(rx.inflight[i])
GameTyped ==
  /\ backend \in {"native", "wasm"} /\ game \in {"on", "over", "closed"}
  /\ link \in 0 .. made /\ made \in 0 .. MaxLinks /\ current \in 0 .. 2
  /\ running \in [Generations -> BOOLEAN] /\ slow \in BOOLEAN
Typed == TasksTyped /\ LinksTyped /\ QueuesTyped /\ RxTyped /\ GameTyped

\* Task w has the link, the message and the place that go together.
Sensible(t, w) ==
  /\ w.link \in 0 .. made
  /\ w.at \in OfLink => w.link # 0
  /\ w.at \notin OfLink \cup {"await-link"} => w.link = 0
  /\ w.at \in OnLink => chan[w.link].state # "connecting"
  /\ w.at \notin WithId => w.seq = 0
  /\ w.msg = 0 <=> w.at \in NoJob
  /\ w.msg # 0 => w.gen \in Generations
  /\ backend = "native" => w.at \in NativePlaces /\ (w.at = "ended" \/ w.gen = t)
  /\ backend = "wasm" => w.at \in WasmPlaces
\* All tasks are so.
Placed == \A t \in Generations : Sensible(t, worker[t])

\* Nothing is on a link that has not opened, and none beyond those made has; the
\* receiver is of one that has.
LinksOpened ==
  /\ \A n \in LinkIds :
       /\ chan[n].state = "connecting" => chan[n].wire = <<>>
       /\ n > made => chan[n].state = "connecting"
  /\ rx.link # 0 => chan[rx.link].state # "connecting"

\* Only one task has a link, whichever of the two workers it belongs to.
OneSender ==
  /\ \A t, u \in Generations : t # u => worker[t].link = 0 \/ worker[u].link = 0
  /\ game # "on" => link = 0 /\ current # 1
  /\ game = "on" => current # 2
  /\ backend = "native" => worker[2].link = 0 /\ (game = "on" => worker[2].at = "ended")
  /\ backend = "native" /\ current = 0 =>
       /\ game = "on" => worker[1].at = "ended"
       /\ game = "over" => worker[2].at = "ended"
  /\ backend = "wasm" /\ game = "on" =>
       /\ current = 0 => ~running[1]
       /\ \A t, u \in Generations : worker[t].at # "ended" => running[1] /\ (t = u \/ worker[u].at = "ended")

\* What the steps of either backend keep.
Base == Typed /\ Placed /\ LinksOpened /\ OneSender

\* What is assumed of the constants.
LEMMA Constants ==
  /\ Messages \in Nat /\ IdSpace \in Nat /\ HighWater \in Nat /\ LowWater \in Nat
  /\ MaxLinks \in Nat /\ LowWater <= HighWater /\ IdSpace > HighWater + 1
  /\ \A m \in 1 .. Messages : Chunks[m] \in Nat /\ Chunks[m] > 0
BY ChannelConstants DEF Messages

\* Only task t does something: it becomes w.
Becomes(t, w) ==
  /\ w \in Task
  /\ worker' \in [Generations -> Task]
  /\ worker'[t] = w
  /\ \A u \in Generations \ {t} : worker'[u] = worker[u]

\* The task that is replaced is the one that becomes w.
LEMMA TaskChange ==
  ASSUME TasksTyped, NEW t \in Generations, NEW w \in Task, worker' = [worker EXCEPT ![t] = w]
  PROVE  Becomes(t, w)
BY DEF TasksTyped, Becomes

\* The tasks as At makes them.
LEMMA TaskMade ==
  ASSUME NEW at \in Places, NEW g \in 0 .. 2
  PROVE  /\ At(at, g) \in Task
         /\ At(at, g).at = at /\ At(at, g).gen = g /\ At(at, g).msg = 0 /\ At(at, g).link = 0
         /\ At(at, g).seq = 0
<1>1. 0 \in 0 .. Messages /\ 0 \in 0 .. MaxLinks /\ 0 \in 0 .. IdSpace - 1 /\ 0 \in Nat
  BY Constants
<1> QED
  BY <1>1 DEF At, Task

\* A task that only moves.
LEMMA TaskMoved ==
  ASSUME TasksTyped, NEW t \in Generations, NEW at \in Places
  PROVE  LET w == [worker[t] EXCEPT !.at = at]
         IN /\ w \in Task /\ w.at = at /\ w.gen = worker[t].gen /\ w.msg = worker[t].msg
            /\ w.link = worker[t].link /\ w.id = worker[t].id /\ w.seq = worker[t].seq
BY DEF TasksTyped, Task

\* Task t may become w, in a step that leaves the links' states and the game as they are.
MayBecome(t, w) ==
  /\ Sensible(t, w)
  /\ w.link \in {0, worker[t].link} \/ \A u \in Generations \ {t} : worker[u].link = 0
  /\ backend = "native" /\ t = 2 => w.link = 0 /\ game # "on"
  /\ worker[t].at # "ended"

\* A queue may be marked as unserved by the worker that ends.
MayStop(w) ==
  /\ running' \in [Generations -> BOOLEAN]
  /\ \A g \in Generations : running'[g] => running[g]
  /\ running' = running \/ w.at = "ended"

\* A task's own step keeps the places and the links in order.
LEMMA TaskStep ==
  ASSUME Base, NEW t \in Generations, NEW w \in Task, Becomes(t, w), MayBecome(t, w), MayStop(w),
         UNCHANGED <<backend, game, link, made, current>>,
         \A n \in LinkIds : /\ chan'[n].state = chan[n].state
                            /\ chan'[n].wire = chan[n].wire \/ chan[n].state # "connecting",
         rx'.link = rx.link
  PROVE  Placed' /\ LinksOpened' /\ OneSender'
<1>1. \A u \in Generations : (u = t /\ worker'[u] = w) \/ (u # t /\ worker'[u] = worker[u])
  BY DEF Becomes
<1>2. Placed'
  <2> SUFFICES ASSUME NEW u \in Generations PROVE Sensible(u, worker[u])'
    BY DEF Placed
  <2> PICK v : v = worker'[u]
    OBVIOUS
  <2>1. Sensible(u, v)
    BY <1>1 DEF MayBecome, Base, Placed
  <2>2. v.link # 0 => v.link \in LinkIds
    BY <2>1, Constants DEF Sensible, LinkIds, Base, Typed, GameTyped
  <2> QED
    BY <2>1, <2>2 DEF Sensible, OnLink, OfLink, WithId
<1>3. LinksOpened'
  BY DEF LinksOpened, Base, Typed, RxTyped, LinkIds
<1>4. OneSender'
  <2>1. \A u, v \in Generations : u # v => worker'[u].link = 0 \/ worker'[v].link = 0
    BY <1>1 DEF Base, OneSender, MayBecome
  <2>2. backend = "native" => worker'[2].link = 0 /\ (game = "on" => worker'[2].at = "ended")
    BY <1>1 DEF Base, OneSender, MayBecome, Generations
  <2>3. backend = "wasm" /\ game = "on" =>
          /\ current = 0 => ~running'[1]
          /\ \A u, v \in Generations : worker'[u].at # "ended" => running'[1] /\ (u = v \/ worker'[v].at = "ended")
    <3> SUFFICES ASSUME backend = "wasm", game = "on"
                 PROVE  /\ current = 0 => ~running'[1]
                        /\ \A u, v \in Generations : worker'[u].at # "ended" => running'[1] /\ (u = v \/ worker'[v].at = "ended")
      OBVIOUS
    <3>1. current = 0 => ~running'[1]
      BY DEF Base, OneSender, MayStop, Generations
    <3>2. \A u, v \in Generations : worker[u].at # "ended" => running[1] /\ (u = v \/ worker[v].at = "ended")
      BY DEF Base, OneSender
    <3>3. \A u \in Generations : u # t => worker[u].at = "ended"
      BY <3>2 DEF MayBecome
    <3>4. \A u, v \in Generations : worker'[u].at # "ended" => running'[1] /\ (u = v \/ worker'[v].at = "ended")
      BY <1>1, <3>2, <3>3 DEF MayStop, MayBecome
    <3> QED
      BY <3>1, <3>4
  <2>4. backend = "native" /\ current = 0 =>
          /\ game = "on" => worker'[1].at = "ended"
          /\ game = "over" => worker'[2].at = "ended"
    BY <1>1 DEF Base, OneSender, MayBecome, Generations
  <2> QED
    BY <2>1, <2>2, <2>3, <2>4 DEF Base, OneSender
<1> QED
  BY <1>2, <1>3, <1>4
-----------------------------------------------------------------------------
(* The kinds of step *)

\* A link that sends.
Opened(c) == ~c.closed /\ c.state = "open"

\* Link c becomes d, and no frame is sent on it.
LinkRests(c, d) ==
  /\ d.nextId = c.nextId /\ d.done = c.done
  /\ d.wire = c.wire \/ d.wire = <<>>
  /\ d.state = "connecting" => c.state = "connecting"
  /\ d.state = "open" => \/ c.state = "open" /\ d.wire = c.wire /\ (c.closed => d.closed)
                         \/ c.state = "connecting" /\ d.wire = <<>>

\* Task v becomes w, and sends nothing.
PlaceRests(v, w) ==
  /\ w.at \in WithId => /\ v.at \in WithId
                        /\ w.msg = v.msg /\ w.link = v.link /\ w.id = v.id /\ w.seq = v.seq
  /\ v.at \in WithId /\ w.at \notin WithId => w.msg = 0 /\ w.at \notin OnLink /\ ~Opened(chan'[v.link])
  /\ w.at \in OnLink => \/ v.at \in OnLink /\ w.link = v.link
                        \/ Opened(chan'[w.link]) \/ chan'[w.link].wire = <<>>
  /\ w.at = "send" => v.at = "send" \/ Len(chan[w.link].wire) <= HighWater

\* It has the job that it had, or none.
JobRests(v, w) ==
  \/ w.msg = 0
  \/ /\ w.msg = v.msg /\ w.gen = v.gen
     /\ w.link \in {0, v.link} \/ game = "on"

\* It does neither.
TaskRests(v, w) == JobRests(v, w) /\ PlaceRests(v, w)

\* Message m is given up, by its task or with its queue.
GivenUp(m) ==
  \/ \E t \in Generations : worker[t].msg = m /\ worker'[t].msg = 0
  \/ \E g \in Generations : queue'[g] = <<>> /\ \E i \in 1 .. Len(queue[g]) : queue[g][i] = m

\* The outcomes of the messages other than m change for those given up only.
Others(m) ==
  \A k \in 1 .. Messages : k # m => \/ outcome'[k] = outcome[k]
                                    \/ outcome'[k] = "failed" /\ GivenUp(k)

\* A queue is as it was, or empty.
QueuesRest == \A g \in Generations : queue'[g] = queue[g] \/ queue'[g] = <<>>

\* No message is made, taken, framed or received.
Rests ==
  /\ UNCHANGED <<received, calls, slow>>
  /\ game' = "on" => game = "on"
  /\ \A t \in Generations : TaskRests(worker[t], worker'[t])
  /\ \A n \in LinkIds : LinkRests(chan[n], chan'[n])
  /\ QueuesRest /\ Others(0)
  /\ \/ rx' = rx
     \/ rx'.link \in LinkIds /\ rx'.inflight = [i \in {} |-> 0] /\ chan[rx'.link].state = "connecting"

\* Message m is made and put in queue g.
Calls(g) ==
  /\ g = 2 => game # "on"
  /\ g = 1 => game = "on"
  /\ calls < Messages /\ calls' = calls + 1
  /\ queue' = [queue EXCEPT ![g] = Append(@, calls + 1)]
  /\ \A t \in Generations :
       worker'[t] = worker[t] \/ (worker[t].at = "ended" /\ worker'[t].msg = 0 /\ worker'[t].at \in NoJob)
  /\ UNCHANGED <<game, outcome, received, chan, rx, slow>>

\* Task t takes the next message of queue g.
Takes(t, g) ==
  /\ worker[t].msg = 0 /\ queue[g] # <<>>
  /\ queue' = [queue EXCEPT ![g] = Tail(@)]
  /\ worker'[t].msg = Head(queue[g]) /\ worker'[t].gen = g /\ worker'[t].at \notin OnLink
  /\ worker'[t].link = 0 \/ game = "on"
  /\ g = 1 => \A u \in Generations \ {t} : worker[u].msg = 0 \/ worker[u].gen = 2
  /\ \A u \in Generations \ {t} : worker'[u] = worker[u]
  /\ UNCHANGED <<game, calls, outcome, received, chan, rx, slow>>

\* Task t takes the next id of its link.
TakesId(t) ==
  LET n == worker[t].link
      w == worker'[t] IN
  /\ worker[t].at \in {"id", "opened"} /\ w.at \in {"chunk", "burst"}
  /\ w.msg = worker[t].msg /\ w.gen = worker[t].gen /\ w.link = n /\ w.seq = 0
  /\ w.id = chan[n].nextId
  /\ \A u \in Generations \ {t} : worker'[u] = worker[u]
  /\ TakeMsgId(n)
  /\ UNCHANGED <<game, calls, outcome, queue, received, slow>>

\* Task t sends its next chunk.
Sends(t) ==
  LET v == worker[t]
      w == worker'[t] IN
  /\ v.at \in {"send", "burst"} /\ chan[v.link].state = "open"
  /\ v.at = "send" \/ Len(chan[v.link].wire) <= HighWater
  /\ chan' = Sent(v)
  /\ \A u \in Generations \ {t} : worker'[u] = worker[u]
  /\ \/ LastChunk(v) /\ w.msg = 0 /\ w.at \in NoJob /\ outcome'[v.msg] = "ok"
     \/ /\ ~LastChunk(v) /\ w.at \in {"chunk", "burst"} /\ outcome'[v.msg] = outcome[v.msg]
        /\ w.msg = v.msg /\ w.gen = v.gen /\ w.link = v.link /\ w.id = v.id /\ w.seq = v.seq + 1
  /\ Others(v.msg) /\ QueuesRest
  /\ UNCHANGED <<game, calls, received, rx, slow>>

-----------------------------------------------------------------------------
(* The tasks' own steps *)

\* A task's own step keeps Base where the types are kept.
LEMMA TaskBase ==
  ASSUME Base, NEW t \in Generations, NEW w \in Task, Becomes(t, w), MayBecome(t, w), MayStop(w),
         UNCHANGED <<backend, game, link, made, current, slow>>,
         \A n \in LinkIds : /\ chan'[n].state = chan[n].state
                            /\ chan'[n].wire = chan[n].wire \/ chan[n].state # "connecting",
         LinksTyped', QueuesTyped', RxTyped', rx'.link = rx.link
  PROVE  Base'
<1>1. Placed' /\ LinksOpened' /\ OneSender'
  BY TaskStep
<1>2. TasksTyped'
  BY DEF Becomes, TasksTyped
<1>3. GameTyped'
  BY DEF Base, Typed, GameTyped, MayStop
<1> QED
  BY <1>1, <1>2, <1>3 DEF Base, Typed

\* A step that marks no queue may stop a task at any place.
LEMMA StillRunning ==
  ASSUME Base, running' = running
  PROVE  \A w \in Task : MayStop(w)
BY DEF Base, Typed, GameTyped, MayStop

\* A task that stays as it is, and a link that does.
LEMMA RestsAlone ==
  /\ \A t \in Generations : worker'[t] = worker[t] => TaskRests(worker[t], worker'[t])
  /\ chan' = chan => \A n \in LinkIds : LinkRests(chan[n], chan'[n])
<1>1. ASSUME NEW t \in Generations, worker'[t] = worker[t] PROVE TaskRests(worker[t], worker'[t])
  BY <1>1 DEF TaskRests, JobRests, PlaceRests, OnLink
<1>2. ASSUME chan' = chan, NEW n \in LinkIds PROVE LinkRests(chan[n], chan'[n])
  BY <1>2 DEF LinkRests
<1> QED
  BY <1>1, <1>2

\* A task's own step that touches no link and no frame.
LEMMA RestingStep ==
  ASSUME Base, NEW t \in Generations, NEW w \in Task, worker' = [worker EXCEPT ![t] = w],
         MayBecome(t, w), TaskRests(worker[t], w), MayStop(w),
         UNCHANGED <<backend, game, link, made, chan, calls, current, rx, received, slow>>,
         QueuesTyped', QueuesRest, Others(0)
  PROVE  Base' /\ Rests
<1>1. Becomes(t, w)
  BY TaskChange DEF Base, Typed
<1>2. LinksTyped' /\ RxTyped'
  BY DEF Base, Typed, LinksTyped, RxTyped
<1>3. Base'
  BY <1>1, <1>2, TaskBase
<1>4. \A u \in Generations : TaskRests(worker[u], worker'[u])
  <2> SUFFICES ASSUME NEW u \in Generations PROVE TaskRests(worker[u], worker'[u])
    OBVIOUS
  <2>1. CASE u = t
    BY <1>1, <2>1 DEF Becomes
  <2>2. CASE u # t
    BY <1>1, <2>2, RestsAlone DEF Becomes
  <2> QED
    BY <2>1, <2>2
<1>5. \A n \in LinkIds : LinkRests(chan[n], chan'[n])
  BY RestsAlone
<1>6. Rests
  BY <1>4, <1>5 DEF Rests
<1> QED
  BY <1>3, <1>6

\* The same where the queues are left alone too.
LEMMA QuietStep ==
  ASSUME Base, NEW t \in Generations, NEW w \in Task, worker' = [worker EXCEPT ![t] = w],
         MayBecome(t, w), TaskRests(worker[t], w),
         UNCHANGED <<backend, game, link, made, chan, calls, current, running, rx, received, slow>>,
         UNCHANGED <<queue, outcome>>
  PROVE  Base' /\ Rests
<1>1. QueuesTyped' /\ QueuesRest /\ Others(0)
  BY DEF QueuesRest, Others, QueuesTyped, Base, Typed
<1> QED
  BY <1>1, StillRunning, RestingStep

\* What is known of a task.
LEMMA TaskFacts ==
  ASSUME Base, NEW t \in Generations
  PROVE  /\ worker[t] \in Task /\ worker[t].at \in Places /\ worker[t].msg \in 0 .. Messages
         /\ worker[t].link \in 0 .. MaxLinks /\ worker[t].seq \in Nat /\ worker[t].gen \in 0 .. 2
         /\ worker[t].id \in 0 .. IdSpace - 1 /\ Sensible(t, worker[t])
         /\ worker[t].link # 0 => worker[t].link \in LinkIds
         /\ t \in 0 .. 2 /\ t \in Nat
<1>1. worker[t] \in Task /\ Sensible(t, worker[t])
  BY DEF Base, Placed, Typed, TasksTyped
<1> QED
  BY <1>1, Constants DEF Task, LinkIds, Generations

\* A task that moves to another place of the same kind.
LEMMA MovesTo ==
  ASSUME Base, NEW t \in Generations, NEW at \in Places,
         worker' = [worker EXCEPT ![t].at = at],
         UNCHANGED <<backend, game, link, made, chan, calls, current, running, rx, received, slow>>,
         UNCHANGED <<queue, outcome>>,
         worker[t].at \in OfLink, at \in OfLink,
         at \in WithId <=> worker[t].at \in WithId,
         at \in OnLink /\ worker[t].at \notin OnLink => Opened(chan[worker[t].link]),
         at = "send" => worker[t].at = "send" \/ Len(chan[worker[t].link].wire) <= HighWater,
         backend = "native" => at \in NativePlaces, backend = "wasm" => at \in WasmPlaces
  PROVE  Base' /\ Rests
<1> DEFINE w == [worker[t] EXCEPT !.at = at]
<1>1. w \in Task /\ w.at = at /\ w.gen = worker[t].gen /\ w.msg = worker[t].msg
      /\ w.link = worker[t].link /\ w.id = worker[t].id /\ w.seq = worker[t].seq
  BY TaskMoved DEF Base, Typed
<1>2. worker' = [worker EXCEPT ![t] = w]
  BY DEF Base, Typed, TasksTyped
<1> HIDE DEF w
<1>3. Sensible(t, w)
  <2>1. Sensible(t, worker[t])
    BY TaskFacts
  <2>2. at \notin NoJob /\ worker[t].at \notin NoJob /\ worker[t].at # "ended"
    BY DEF NoJob, OfLink, OnLink, WithId
  <2> QED
    BY <1>1, <2>1, <2>2 DEF Sensible, Opened, OfLink, OnLink
<1>4. MayBecome(t, w)
  <2>1. worker[t].at # "ended" /\ worker[t].link # 0
    BY TaskFacts DEF Sensible, OfLink, OnLink, WithId
  <2>2. backend = "native" => t # 2
    BY <2>1 DEF Base, OneSender
  <2> QED
    BY <1>1, <1>3, <2>1, <2>2 DEF MayBecome
<1>5. TaskRests(worker[t], w)
  BY <1>1 DEF TaskRests, JobRests, PlaceRests, OnLink
<1> QED
  BY <1>2, <1>4, <1>5, <1>1, QuietStep

\* A native call that fails, or a step that gives the job up.
LEMMA NativeFails ==
  ASSUME Base, NEW g \in Generations, Native, worker[g].msg # 0, Fail(g),
         worker[g].at \in WithId => ~Opened(chan[worker[g].link]),
         UNCHANGED <<backend, game, link, made, calls, queue, current, running, received, slow>>
  PROVE  Base' /\ Rests
<1>1. worker[g].msg \in 1 .. Messages /\ worker[g].gen = g /\ g \in 0 .. 2 /\ worker[g].at # "ended"
  BY TaskFacts, Constants DEF Native, Sensible, NoJob
<1>2. outcome' = [outcome EXCEPT ![worker[g].msg] = "failed"] /\ worker' = [worker EXCEPT ![g] = At("idle", g)]
      /\ chan' = chan /\ rx' = rx
  BY DEF Fail, Return, Answered
<1>3. At("idle", g) \in Task /\ At("idle", g).at = "idle" /\ At("idle", g).gen = g /\ At("idle", g).msg = 0
      /\ At("idle", g).link = 0 /\ At("idle", g).seq = 0
  BY <1>1, TaskMade DEF Places
<1> DEFINE w == At("idle", g)
<1>4. w \in Task /\ w.at = "idle" /\ w.gen = g /\ w.msg = 0 /\ w.link = 0 /\ w.seq = 0
  BY <1>3
<1>5. worker' = [worker EXCEPT ![g] = w]
  BY <1>2
<1> HIDE DEF w
<1>6. Sensible(g, w)
  BY <1>4 DEF Sensible, OfLink, OnLink, WithId, NoJob, NativePlaces, Native, Base, Typed, GameTyped
<1>7. MayBecome(g, w)
  BY <1>1, <1>4, <1>6 DEF MayBecome, Base, OneSender
<1>8. TaskRests(worker[g], w)
  BY <1>2, <1>4 DEF TaskRests, JobRests, PlaceRests, WithId, OnLink
<1>9. QueuesTyped'
  BY <1>1, <1>2 DEF QueuesTyped, Base, Typed
<1>10. worker'[g].msg = 0
  BY <1>4, <1>5 DEF Base, Typed, TasksTyped
<1>11. Others(0)
  <2> SUFFICES ASSUME NEW k \in 1 .. Messages PROVE outcome'[k] = outcome[k] \/ (outcome'[k] = "failed" /\ GivenUp(k))
    BY DEF Others
  <2>1. CASE k = worker[g].msg
    BY <1>1, <1>2, <1>10, <2>1 DEF GivenUp, Base, Typed, QueuesTyped
  <2>2. CASE k # worker[g].msg
    BY <1>2, <2>2 DEF Base, Typed, QueuesTyped
  <2> QED
    BY <2>1, <2>2
<1>12. QueuesRest
  BY DEF QueuesRest
<1> QED
  BY <1>2, <1>4, <1>5, <1>7, <1>8, <1>9, <1>11, <1>12, StillRunning, RestingStep

-----------------------------------------------------------------------------
\* The rest of a sequence.
LEMMA Tails ==
  ASSUME NEW S, NEW s \in Seq(S), s # <<>>
  PROVE  /\ Tail(s) \in Seq(S) /\ Len(Tail(s)) = Len(s) - 1 /\ Len(s) \in Nat /\ Len(s) > 0
         /\ Head(s) = s[1] /\ Head(s) \in S
         /\ \A i \in 1 .. Len(s) - 1 : Tail(s)[i] = s[i + 1]
<1>1. Tail(s) \in Seq(S) /\ Len(Tail(s)) = Len(s) - 1 /\ Len(s) \in Nat /\ Head(s) = s[1]
  OBVIOUS
<1>2. Len(s) > 0 /\ Head(s) \in S
  OBVIOUS
<1>3. \A i \in 1 .. Len(s) - 1 : Tail(s)[i] = s[i + 1]
  OBVIOUS
<1> QED
  BY <1>1, <1>2, <1>3

\* A task that has no job takes one.
LEMMA TakingStep ==
  ASSUME Base, NEW t \in Generations, NEW g \in Generations, NEW w \in Task,
         worker' = [worker EXCEPT ![t] = w], MayBecome(t, w),
         UNCHANGED <<backend, game, link, made, chan, calls, current, running, rx, received, slow, outcome>>,
         worker[t].msg = 0, queue[g] # <<>>, queue' = [queue EXCEPT ![g] = Tail(@)],
         w.msg = Head(queue[g]), w.gen = g, w.at \notin OnLink, w.link = 0 \/ game = "on",
         g = 1 => \A u \in Generations \ {t} : worker[u].msg = 0 \/ worker[u].gen = 2
  PROVE  Base' /\ Takes(t, g)
<1>1. Becomes(t, w)
  BY TaskChange DEF Base, Typed
<1>2. LinksTyped' /\ RxTyped'
  BY DEF Base, Typed, LinksTyped, RxTyped
<1>3. QueuesTyped'
  <2>1. queue[g] \in Seq(1 .. Messages)
    BY DEF Base, Typed, QueuesTyped
  <2>2. Tail(queue[g]) \in Seq(1 .. Messages)
    BY <2>1, Tails
  <2>3. queue' \in [Generations -> Seq(1 .. Messages)]
    <3>1. queue \in [Generations -> Seq(1 .. Messages)]
      BY DEF Base, Typed, QueuesTyped
    <3> QED
      BY ONLY <3>1, <2>2, queue' = [queue EXCEPT ![g] = Tail(@)]
  <2> QED
    BY <2>3 DEF Base, Typed, QueuesTyped
<1>4. Base'
  BY <1>1, <1>2, <1>3, StillRunning, TaskBase
<1>5. Takes(t, g)
  BY <1>1 DEF Takes, Becomes
<1> QED
  BY <1>4, <1>5

\* The message at the head of a queue.
LEMMA QueueHead ==
  ASSUME Base, NEW g \in Generations, queue[g] # <<>>
  PROVE  Head(queue[g]) \in 1 .. Messages /\ Head(queue[g]) # 0 /\ Head(queue[g]) \in 0 .. Messages
<1>1. queue[g] \in Seq(1 .. Messages) /\ Messages \in Nat
  BY Constants DEF Base, Typed, QueuesTyped
<1>2. Head(queue[g]) \in 1 .. Messages
  BY <1>1
<1> QED
  BY <1>1, <1>2

\* sender_task takes a message, or ends.
LEMMA NativeSenderTask ==
  ASSUME Base, NEW g \in Generations, SenderTask(g)
  PROVE  Base' /\ (Rests \/ Takes(g, g))
<1>1. worker[g].at = "idle" /\ backend = "native" /\ worker[g].gen = g /\ worker[g].msg = 0 /\ g \in 0 .. 2
      /\ worker[g].link = 0
  BY TaskFacts DEF SenderTask, Native, Sensible, NoJob, OfLink, OnLink, WithId
<1>2. UNCHANGED <<backend, game, link, made, chan, calls, outcome, current, running, rx, received, slow>>
  BY DEF SenderTask
<1>0. g = 2 => game # "on"
  BY <1>1 DEF Base, OneSender
<1>3. CASE queue[g] # <<>>
  <2> DEFINE w == [At("link", g) EXCEPT !.msg = Head(queue[g])]
  <2>1. Head(queue[g]) # 0 /\ Head(queue[g]) \in 0 .. Messages /\ queue' = [queue EXCEPT ![g] = Tail(@)]
    BY <1>3, QueueHead DEF SenderTask
  <2>2. At("link", g) \in Task /\ At("link", g).at = "link" /\ At("link", g).gen = g
        /\ At("link", g).link = 0 /\ At("link", g).seq = 0
    BY <1>1, TaskMade DEF Places
  <2>3. w \in Task /\ w.at = "link" /\ w.gen = g /\ w.link = 0 /\ w.seq = 0 /\ w.msg = Head(queue[g])
    BY <2>1, <2>2 DEF Task
  <2>4. worker' = [worker EXCEPT ![g] = w]
    BY <1>3 DEF SenderTask
  <2> HIDE DEF w
  <2>5. Sensible(g, w)
    BY <1>1, <2>1, <2>3 DEF Sensible, OfLink, OnLink, WithId, NoJob, NativePlaces, Base, Typed, GameTyped
  <2>6. MayBecome(g, w)
    BY <1>0, <1>1, <2>5, <2>3 DEF MayBecome
  <2>7. w.at \notin OnLink
    BY <2>3 DEF OnLink, WithId
  <2>8. g = 1 => \A u \in Generations \ {g} : worker[u].msg = 0 \/ worker[u].gen = 2
    BY <1>1, TaskFacts DEF Sensible, NoJob, Generations
  <2> QED
    BY <1>1, <1>2, <1>3, <2>1, <2>3, <2>4, <2>6, <2>7, <2>8, TakingStep
<1>4. CASE queue[g] = <<>>
  <2> DEFINE w == Ended
  <2>1. worker' = [worker EXCEPT ![g] = w] /\ queue' = queue /\ current # g
    BY <1>4 DEF SenderTask
  <2>2. w \in Task /\ w.at = "ended" /\ w.msg = 0 /\ w.link = 0 /\ w.seq = 0
    BY TaskMade DEF Ended, Places
  <2> HIDE DEF w
  <2>3. Sensible(g, w)
    BY <1>1, <2>2 DEF Sensible, OfLink, OnLink, WithId, NoJob, NativePlaces, Base, Typed, GameTyped
  <2>4. MayBecome(g, w)
    BY <1>0, <1>1, <2>3, <2>2 DEF MayBecome
  <2>5. TaskRests(worker[g], w)
    BY <1>1, <2>2 DEF TaskRests, JobRests, PlaceRests, OnLink, WithId
  <2> QED
    BY <1>2, <2>1, <2>2, <2>4, <2>5, QuietStep
<1> QED
  BY <1>3, <1>4
-----------------------------------------------------------------------------
(* send_one of the native sender *)

\* What send_one of the native sender leaves alone.
Rest1 == UNCHANGED <<backend, game, link, made, calls, queue, current, running, received, slow>>

\* send_one waits for a link.
LEMMA NativeWaitLink ==
  ASSUME Base, NEW g \in Generations, Native, Rest1, WaitLink(g)
  PROVE  Base' /\ Rests
<1>1. worker[g].at = "link" /\ worker[g].gen = g /\ worker[g].msg # 0 /\ worker[g].link = 0 /\ worker[g].seq = 0
  BY TaskFacts DEF WaitLink, Sensible, Native, NoJob, OfLink, OnLink, WithId
<1>2. CASE Fail(g)
  BY <1>1, <1>2, NativeFails DEF Rest1, WithId
<1>3. CASE current = g /\ link # 0 /\ worker' = [worker EXCEPT ![g].at = "open", ![g].link = link]
           /\ UNCHANGED <<chan, outcome, rx>>
  <2> DEFINE w == [worker[g] EXCEPT !.at = "open", !.link = link]
  <2>1. link \in 0 .. MaxLinks /\ link \in 0 .. made
    BY Constants DEF Base, Typed, GameTyped
  <2>2. worker' = [worker EXCEPT ![g] = w]
    BY <1>3 DEF Base, Typed, TasksTyped
  <2>3. w \in Task /\ w.at = "open" /\ w.link = link /\ w.gen = worker[g].gen /\ w.msg = worker[g].msg
        /\ w.seq = worker[g].seq
    BY <2>1, TaskFacts DEF Task, Places
  <2> HIDE DEF w
  <2>4. Sensible(g, w)
    BY <1>1, <1>3, <2>1, <2>3, TaskFacts DEF Sensible, OfLink, OnLink, WithId, NoJob, Native, NativePlaces
  <2>5. game = "on" /\ g = 1
    BY <1>3 DEF Base, OneSender, Generations
  <2>6. \A u \in Generations \ {g} : worker[u].link = 0
    BY <2>5 DEF Native, Base, OneSender, Generations
  <2>7. MayBecome(g, w)
    BY <1>1, <2>4, <2>5, <2>6 DEF MayBecome
  <2>8. TaskRests(worker[g], w)
    BY <1>1, <2>3, <2>5 DEF TaskRests, JobRests, PlaceRests, OnLink, WithId
  <2> QED
    BY <1>3, <2>2, <2>3, <2>7, <2>8, QuietStep DEF Rest1
<1> QED
  BY <1>2, <1>3 DEF WaitLink

\* send_one looks at the channel.
LEMMA NativeCheckOpen ==
  ASSUME Base, NEW g \in Generations, Native, Rest1, CheckOpen(g)
  PROVE  Base' /\ Rests
<1>1. worker[g].at = "open" /\ worker[g].msg # 0
  BY TaskFacts DEF CheckOpen, Sensible, Native, NoJob
<1>2. CASE Fail(g)
  BY <1>1, <1>2, NativeFails DEF Rest1, WithId
<1>3. CASE Goto(g, "id") /\ ~chan[worker[g].link].closed /\ chan[worker[g].link].state = "open"
  BY <1>1, <1>3, MovesTo DEF Goto, Rest1, Native, NativePlaces, Places, OfLink, OnLink, WithId, Opened
<1>4. CASE Goto(g, "arm")
  BY <1>1, <1>4, MovesTo DEF Goto, Rest1, Native, NativePlaces, Places, OfLink, OnLink, WithId
<1> QED
  BY <1>2, <1>3, <1>4 DEF CheckOpen

\* send_one arms the notification it will wait for.
LEMMA NativeArm ==
  ASSUME Base, NEW g \in Generations, Native, Rest1, Arm(g)
  PROVE  Base' /\ Rests
<1>1. worker[g].at = "arm" /\ (Goto(g, "open") \/ Goto(g, "parked"))
  BY DEF Arm
<1>2. CASE Goto(g, "open")
  BY <1>1, <1>2, MovesTo DEF Goto, Rest1, Native, NativePlaces, Places, OfLink, OnLink, WithId
<1>3. CASE Goto(g, "parked")
  BY <1>1, <1>3, MovesTo DEF Goto, Rest1, Native, NativePlaces, Places, OfLink, OnLink, WithId
<1> QED
  BY <1>1, <1>2, <1>3

\* send_one gives up waiting for the channel.
LEMMA NativeTimeout ==
  ASSUME Base, NEW g \in Generations, Native, Rest1, ChannelTimeout(g)
  PROVE  Base' /\ Rests
<1>1. worker[g].at \in {"link", "parked"} /\ worker[g].msg # 0 /\ Fail(g)
  BY TaskFacts DEF ChannelTimeout, Sensible, Native, NoJob
<1> QED
  BY <1>1, NativeFails DEF Rest1, WithId

\* send_one begins the next chunk.
LEMMA NativeStartChunk ==
  ASSUME Base, NEW g \in Generations, Native, Rest1, StartChunk(g)
  PROVE  Base' /\ Rests
<1>1. worker[g].at = "chunk" /\ worker[g].msg # 0
  BY TaskFacts DEF StartChunk, Sensible, Native, NoJob
<1>2. CASE Fail(g) /\ chan[worker[g].link].closed
  BY <1>1, <1>2, NativeFails DEF Rest1, Opened
<1>3. CASE Goto(g, "send") /\ Buffered(worker[g].link) <= HighWater
  BY <1>1, <1>3, MovesTo DEF Goto, Rest1, Native, NativePlaces, Places, OfLink, OnLink, WithId, Buffered
<1>4. CASE Goto(g, "drain")
  BY <1>1, <1>4, MovesTo DEF Goto, Rest1, Native, NativePlaces, Places, OfLink, OnLink, WithId
<1> QED
  BY <1>2, <1>3, <1>4 DEF StartChunk

\* send_one waits for the buffer to drain.
LEMMA NativeWaitDrain ==
  ASSUME Base, NEW g \in Generations, Native, Rest1, WaitDrain(g)
  PROVE  Base' /\ Rests
<1>1. worker[g].at = "drain" /\ worker[g].msg # 0 /\ worker[g].link \in LinkIds
  BY TaskFacts DEF WaitDrain, Sensible, Native, NoJob, OfLink, OnLink, WithId
<1>2. CASE Fail(g) /\ chan[worker[g].link].closed
  BY <1>1, <1>2, NativeFails DEF Rest1, Opened
<1>3. CASE Goto(g, "send") /\ Buffered(worker[g].link) <= LowWater
  <2>1. chan[worker[g].link].wire \in Seq(Packet)
    BY <1>1 DEF Base, Typed, LinksTyped, LinkState
  <2>2. Len(chan[worker[g].link].wire) <= HighWater
    BY <1>3, <2>1, Constants DEF Buffered
  <2> QED
    BY <1>1, <1>3, <2>2, MovesTo DEF Goto, Rest1, Native, NativePlaces, Places, OfLink, OnLink, WithId
<1> QED
  BY <1>2, <1>3 DEF WaitDrain

-----------------------------------------------------------------------------
(* Ids and frames *)

\* Only link n changes: it becomes d.
LinkBecomes(n, d) ==
  /\ chan' \in [LinkIds -> LinkState]
  /\ chan'[n] = d
  /\ \A k \in LinkIds \ {n} : chan'[k] = chan[k]

\* The link that is replaced is the one that becomes d.
LEMMA LinkChange ==
  ASSUME LinksTyped, NEW n \in LinkIds, NEW d \in LinkState, chan' = [chan EXCEPT ![n] = d]
  PROVE  LinkBecomes(n, d)
BY DEF LinksTyped, LinkBecomes

\* Aged entries keep all but their age.
LEMMA AgedTyped ==
  ASSUME RxTyped, NEW ids, NEW r, r = Aged(rx, ids)
  PROVE  /\ r = [link |-> rx.link, inflight |-> r.inflight] /\ r.link = rx.link
         /\ DOMAIN r.inflight = DOMAIN rx.inflight
         /\ \A i \in DOMAIN rx.inflight :
              /\ IsEntry(r.inflight[i]) /\ r.inflight[i].total = rx.inflight[i].total
              /\ r.inflight[i].chunks = rx.inflight[i].chunks
              /\ r.inflight[i].old <=> rx.inflight[i].old \/ i \in ids
<1> DEFINE a(i) == IF i \in ids THEN [rx.inflight[i] EXCEPT !.old = TRUE] ELSE rx.inflight[i]
           I == [i \in DOMAIN rx.inflight |-> a(i)]
<1>1. rx = [link |-> rx.link, inflight |-> rx.inflight]
  BY DEF RxTyped
<1>2. r = [link |-> rx.link, inflight |-> I]
  BY <1>1 DEF Aged
<1>3. r.link = rx.link /\ r.inflight = I
  BY ONLY <1>2
<1>4. \A i \in DOMAIN rx.inflight :
        /\ IsEntry(a(i)) /\ a(i).total = rx.inflight[i].total
        /\ a(i).chunks = rx.inflight[i].chunks
        /\ a(i).old <=> rx.inflight[i].old \/ i \in ids
  <2> SUFFICES ASSUME NEW i \in DOMAIN rx.inflight
               PROVE  /\ IsEntry(a(i)) /\ a(i).total = rx.inflight[i].total
                      /\ a(i).chunks = rx.inflight[i].chunks
                      /\ a(i).old <=> rx.inflight[i].old \/ i \in ids
    OBVIOUS
  <2>1. IsEntry(rx.inflight[i])
    BY DEF RxTyped
  <2> DEFINE e == rx.inflight[i]
  <2>2. e = [total |-> e.total, chunks |-> e.chunks, old |-> e.old]
        /\ e.total \in Nat /\ e.old \in BOOLEAN /\ DOMAIN e.chunks \subseteq Nat
    BY <2>1 DEF IsEntry
  <2> HIDE DEF e
  <2>3. a(i) = IF i \in ids THEN [e EXCEPT !.old = TRUE] ELSE e
    BY DEF e
  <2> HIDE DEF a
  <2>4. CASE i \in ids
    <3>1. a(i) = [total |-> e.total, chunks |-> e.chunks, old |-> TRUE]
      BY <2>2, <2>3, <2>4
    <3> HIDE DEF a
    <3>2. a(i).total = e.total /\ a(i).chunks = e.chunks /\ a(i).old = TRUE
      BY <3>1
    <3>3. IsEntry(a(i))
      BY <3>1, <3>2, <2>2 DEF IsEntry
    <3> QED
      BY <3>2, <3>3, <2>4 DEF e
  <2>5. CASE i \notin ids
    <3>1. a(i) = e
      BY <2>3, <2>5
    <3> QED
      BY <3>1, <2>1, <2>5, <2>2 DEF e
  <2> QED
    BY <2>4, <2>5
<1> QED
  BY <1>2, <1>3, <1>4

\* A task that takes an id keeps Base.
LEMMA TakingIdStep ==
  ASSUME Base, NEW t \in Generations, NEW w \in Task,
         worker' = [worker EXCEPT ![t] = w], MayBecome(t, w),
         UNCHANGED <<backend, game, link, made, calls, current, running, received, slow, outcome, queue>>,
         worker[t].at \in {"id", "opened"}, w.at \in {"chunk", "burst"},
         w.msg = worker[t].msg, w.gen = worker[t].gen, w.link = worker[t].link, w.seq = 0,
         w.id = chan[worker[t].link].nextId, TakeMsgId(worker[t].link)
  PROVE  Base' /\ TakesId(t)
<1>1. Becomes(t, w)
  BY TaskChange DEF Base, Typed
<1> DEFINE n == worker[t].link
           next == (chan[n].nextId + 1) % IdSpace
           d == [chan[n] EXCEPT !.nextId = next]
<1>2. n \in LinkIds /\ chan[n] \in LinkState
  BY TaskFacts DEF Sensible, OfLink, OnLink, Base, Typed, LinksTyped
<1>3. next \in 0 .. IdSpace - 1
  <2> PICK k : k = chan[n].nextId
    OBVIOUS
  <2>1. k + 1 \in Nat /\ IdSpace \in Nat /\ IdSpace > 0
    BY <1>2, Constants DEF LinkState
  <2>2. (k + 1) % IdSpace \in 0 .. IdSpace - 1
    BY ONLY <2>1
  <2> QED
    BY <2>2
<1>0. chan' = [chan EXCEPT ![n].nextId = next]
  BY DEF TakeMsgId
<1> HIDE DEF next
<1>4. d \in LinkState /\ d.state = chan[n].state /\ d.wire = chan[n].wire
  BY <1>2, <1>3 DEF LinkState
<1>5. chan' = [chan EXCEPT ![n] = d]
  <2>2. chan \in [LinkIds -> LinkState]
    BY DEF Base, Typed, LinksTyped
  <2> QED
    BY ONLY <1>2, <1>0, <2>2
<1> HIDE DEF d
<1>6. LinkBecomes(n, d)
  BY <1>2, <1>4, <1>5, LinkChange DEF Base, Typed
<1>7. /\ LinksTyped'
      /\ \A k \in LinkIds : chan'[k].state = chan[k].state /\ chan'[k].wire = chan[k].wire
  BY <1>4, <1>6 DEF LinkBecomes, LinksTyped
<1>8. RxTyped' /\ rx'.link = rx.link
  <2>1. CASE rx' = rx
    BY <2>1 DEF Base, Typed, RxTyped
  <2>2. CASE rx' = Aged(rx, {chan[n].nextId})
    <3> DEFINE ids == {chan[n].nextId}
               r == rx'
    <3>1. r = Aged(rx, ids) /\ RxTyped
      BY <2>2 DEF Base, Typed
    <3> HIDE DEF r, ids
    <3>2. /\ r = [link |-> rx.link, inflight |-> r.inflight] /\ r.link = rx.link
          /\ DOMAIN r.inflight = DOMAIN rx.inflight
          /\ \A i \in DOMAIN rx.inflight : IsEntry(r.inflight[i])
      BY <3>1, AgedTyped
    <3>3. rx.link \in 0 .. MaxLinks /\ DOMAIN rx.inflight \subseteq 0 .. IdSpace - 1
      BY <3>1 DEF RxTyped
    <3>4. /\ r = [link |-> r.link, inflight |-> r.inflight] /\ r.link \in 0 .. MaxLinks
          /\ DOMAIN r.inflight \subseteq 0 .. IdSpace - 1
          /\ \A i \in DOMAIN r.inflight : IsEntry(r.inflight[i])
      BY <3>2, <3>3
    <3> QED
      BY <3>2, <3>4 DEF r, RxTyped
  <2> QED
    BY <2>1, <2>2 DEF TakeMsgId
<1>9. QueuesTyped'
  BY DEF QueuesTyped, Base, Typed
<1>10. Base'
  BY <1>1, <1>7, <1>8, <1>9, StillRunning, TaskBase
<1>11. TakesId(t)
  BY <1>1 DEF TakesId, Becomes
<1> QED
  BY <1>10, <1>11

\* What sending makes of the link.
LEMMA SentLink ==
  ASSUME Base, NEW t \in Generations, worker[t].at \in {"send", "burst"}, chan' = Sent(worker[t])
  PROVE  LET v == worker[t]
             n == v.link
             f == MakeFrame(v.id, v.seq, v.msg)
         IN /\ n \in LinkIds /\ chan' \in [LinkIds -> LinkState] /\ f \in Packet
            /\ f.id = v.id /\ f.seq = v.seq /\ f.msg = v.msg /\ f.total = Chunks[v.msg]
            /\ chan'[n].wire = Append(chan[n].wire, f)
            /\ chan'[n].done = IF LastChunk(v) THEN chan[n].done \cup {v.msg} ELSE chan[n].done
            /\ chan'[n].state = chan[n].state /\ chan'[n].closed = chan[n].closed
            /\ chan'[n].nextId = chan[n].nextId
            /\ \A k \in LinkIds \ {n} : chan'[k] = chan[k]
<1> DEFINE v == worker[t]
           n == v.link
           f == MakeFrame(v.id, v.seq, v.msg)
           dn == IF LastChunk(v) THEN chan[n].done \cup {v.msg} ELSE chan[n].done
           d == [chan[n] EXCEPT !.wire = Append(@, f), !.done = dn]
<1>1. n \in LinkIds /\ chan[n] \in LinkState /\ v.msg \in 1 .. Messages /\ v.id \in 0 .. IdSpace - 1 /\ v.seq \in Nat
  <2>1. n \in LinkIds /\ v.msg # 0
    BY TaskFacts DEF Sensible, OfLink, OnLink, WithId, NoJob
  <2> QED
    BY <2>1, TaskFacts, Constants DEF Base, Typed, LinksTyped
<1>2. f \in Packet /\ f.id = v.id /\ f.seq = v.seq /\ f.msg = v.msg /\ f.total = Chunks[v.msg]
  BY <1>1, Constants DEF MakeFrame, ChunkCount, Packet
<1>3. Append(chan[n].wire, f) \in Seq(Packet) /\ dn \in SUBSET (1 .. Messages)
  BY <1>1, <1>2 DEF LinkState
<1> HIDE DEF dn, f
<1>4. /\ d \in LinkState /\ d.wire = Append(chan[n].wire, f) /\ d.done = dn
      /\ d.state = chan[n].state /\ d.closed = chan[n].closed /\ d.nextId = chan[n].nextId
  BY <1>1, <1>3 DEF LinkState
<1>5. chan' = [chan EXCEPT ![n] = d]
  BY <1>1 DEF Sent, dn, f, Base, Typed, LinksTyped
<1> HIDE DEF d
<1>6. LinkBecomes(n, d)
  BY <1>1, <1>4, <1>5, LinkChange DEF Base, Typed
<1> QED
  BY <1>1, <1>2, <1>4, <1>6 DEF LinkBecomes, dn, f

\* A task that sends a chunk keeps Base.
LEMMA SendingStep ==
  ASSUME Base, NEW t \in Generations, NEW w \in Task,
         worker' = [worker EXCEPT ![t] = w], MayBecome(t, w),
         UNCHANGED <<backend, game, link, made, calls, current, running, received, slow, rx>>,
         worker[t].at \in {"send", "burst"}, chan' = Sent(worker[t]),
         chan[worker[t].link].state = "open",
         worker[t].at = "send" \/ Len(chan[worker[t].link].wire) <= HighWater,
         \/ LastChunk(worker[t]) /\ w.msg = 0 /\ w.at \in NoJob /\ outcome'[worker[t].msg] = "ok"
         \/ /\ ~LastChunk(worker[t]) /\ w.at \in {"chunk", "burst"}
            /\ outcome'[worker[t].msg] = outcome[worker[t].msg]
            /\ w.msg = worker[t].msg /\ w.gen = worker[t].gen /\ w.link = worker[t].link
            /\ w.id = worker[t].id /\ w.seq = worker[t].seq + 1,
         Others(worker[t].msg), QueuesRest, QueuesTyped'
  PROVE  Base' /\ Sends(t)
<1>1. Becomes(t, w)
  BY TaskChange DEF Base, Typed
<1>2. /\ LinksTyped'
      /\ \A n \in LinkIds : /\ chan'[n].state = chan[n].state
                            /\ chan'[n].wire = chan[n].wire \/ chan[n].state # "connecting"
  BY SentLink DEF LinksTyped
<1>3. RxTyped'
  BY DEF Base, Typed, RxTyped
<1>4. Base'
  BY <1>1, <1>2, <1>3, StillRunning, TaskBase
<1>5. Sends(t)
  BY <1>1 DEF Sends, Becomes
<1> QED
  BY <1>4, <1>5

-----------------------------------------------------------------------------
\* send_one takes the id of its message.
LEMMA NativeNextMsgId ==
  ASSUME Base, NEW g \in Generations, Native, Rest1, NextMsgId(g)
  PROVE  Base' /\ TakesId(g)
<1> DEFINE n == worker[g].link
           w == [worker[g] EXCEPT !.at = "chunk", !.id = chan[n].nextId]
<1>1. worker[g].at = "id" /\ worker[g].seq = 0 /\ n \in LinkIds /\ chan[n] \in LinkState
  BY TaskFacts DEF NextMsgId, Sensible, OfLink, OnLink, WithId, Base, Typed, LinksTyped
<1>2. chan[n].nextId \in 0 .. IdSpace - 1
  BY <1>1 DEF LinkState
<1>3. worker' = [worker EXCEPT ![g] = w]
  BY DEF NextMsgId, Base, Typed, TasksTyped
<1>4. w \in Task /\ w.at = "chunk" /\ w.id = chan[n].nextId /\ w.link = n /\ w.gen = worker[g].gen
      /\ w.msg = worker[g].msg /\ w.seq = 0
  BY <1>1, <1>2, TaskFacts DEF Task, Places
<1> HIDE DEF w
<1>5. Sensible(g, w)
  BY <1>1, <1>4, TaskFacts DEF Sensible, OfLink, OnLink, WithId, NoJob, Native, NativePlaces
<1>6. g # 2
  BY <1>1, Constants DEF Native, Base, OneSender, LinkIds
<1>7. MayBecome(g, w)
  BY <1>1, <1>4, <1>5, <1>6 DEF MayBecome
<1> QED
  BY <1>1, <1>3, <1>4, <1>7, TakingIdStep DEF Rest1, NextMsgId

\* send_one sends a chunk, or finds the channel closed.
LEMMA NativeSendChunk ==
  ASSUME Base, NEW g \in Generations, Native, Rest1, SendChunk(g)
  PROVE  Base' /\ (Rests \/ Sends(g))
<1> DEFINE v == worker[g]
<1>1. v.at = "send" /\ v.msg # 0 /\ v.link \in LinkIds /\ g # 2 /\ v.gen = g /\ g \in 0 .. 2
  <2>1. v.at = "send" /\ v.msg # 0 /\ v.link \in LinkIds /\ v.gen = g /\ g \in 0 .. 2
    BY TaskFacts DEF SendChunk, Sensible, OfLink, OnLink, WithId, NoJob, Native
  <2> QED
    BY <2>1, Constants DEF Native, Base, OneSender, LinkIds
<1>2. CASE chan[v.link].state # "open"
  <2>1. Fail(g)
    BY <1>2 DEF SendChunk
  <2> QED
    BY <1>1, <1>2, <2>1, NativeFails DEF Rest1, Opened
<1>3. CASE chan[v.link].state = "open" /\ LastChunk(v)
  <2> DEFINE w == At("idle", g)
  <2>1. chan' = Sent(v) /\ worker' = [worker EXCEPT ![g] = w] /\ outcome' = [outcome EXCEPT ![v.msg] = "ok"]
        /\ rx' = rx
    BY <1>3 DEF SendChunk, Return, Answered
  <2>2. w \in Task /\ w.at = "idle" /\ w.gen = g /\ w.msg = 0 /\ w.link = 0 /\ w.seq = 0
    BY <1>1, TaskMade DEF Places
  <2> HIDE DEF w
  <2>3. Sensible(g, w)
    BY <2>2 DEF Sensible, OfLink, OnLink, WithId, NoJob, NativePlaces, Native, Base, Typed, GameTyped
  <2>4. MayBecome(g, w)
    BY <1>1, <2>2, <2>3 DEF MayBecome
  <2>5. outcome \in [1 .. Messages -> {"none", "ok", "failed"}] /\ v.msg \in 1 .. Messages
    BY <1>1, TaskFacts, Constants DEF Base, Typed, QueuesTyped
  <2>6. outcome'[v.msg] = "ok" /\ Others(v.msg) /\ QueuesRest /\ QueuesTyped'
    BY <2>1, <2>5 DEF Others, QueuesRest, QueuesTyped, Base, Typed, Rest1
  <2>7. w.at \in NoJob
    BY <2>2 DEF NoJob
  <2> HIDE DEF v
  <2>8. Base' /\ Sends(g)
    BY <1>1, <1>3, <2>1, <2>2, <2>4, <2>6, <2>7, SendingStep DEF Rest1, v
  <2> QED
    BY <2>8
<1>4. CASE chan[v.link].state = "open" /\ ~LastChunk(v)
  <2> DEFINE next == worker[g].seq + 1
             w == [worker[g] EXCEPT !.at = "chunk", !.seq = next]
  <2>1. chan' = Sent(v) /\ worker' = [worker EXCEPT ![g] = w] /\ outcome' = outcome /\ rx' = rx
    BY <1>4 DEF SendChunk, Base, Typed, TasksTyped
  <2>2. w \in Task /\ w.at = "chunk" /\ w.gen = v.gen /\ w.msg = v.msg /\ w.link = v.link /\ w.seq = v.seq + 1
        /\ w.id = v.id
    <3>1. next \in Nat /\ worker[g] \in Task
      BY TaskFacts
    <3>2. next = v.seq + 1
      OBVIOUS
    <3> HIDE DEF next
    <3> QED
      BY <3>1, <3>2 DEF Places, Task
  <2> HIDE DEF w, next
  <2>3. Sensible(g, w)
    BY <1>1, <2>2, TaskFacts DEF Sensible, OfLink, OnLink, WithId, NoJob, NativePlaces, Native, Base, Typed, GameTyped
  <2>4. MayBecome(g, w)
    BY <1>1, <2>2, <2>3 DEF MayBecome
  <2>5. Others(v.msg) /\ QueuesRest /\ QueuesTyped'
    BY <2>1 DEF Others, QueuesRest, QueuesTyped, Base, Typed, Rest1
  <2> HIDE DEF v
  <2>6. Base' /\ Sends(g)
    BY <1>1, <1>4, <2>1, <2>2, <2>4, <2>5, SendingStep DEF Rest1, v
  <2> QED
    BY <2>6
<1> QED
  BY <1>2, <1>3, <1>4

\* A step of send_one.
LEMMA NativeSendOne ==
  ASSUME Base, NEW g \in Generations, SendOne(g)
  PROVE  Base' /\ (Rests \/ TakesId(g) \/ Sends(g))
<1>1. Native /\ Rest1
  BY DEF SendOne, Rest1
<1> QED
  BY <1>1, NativeWaitLink, NativeCheckOpen, NativeArm, NativeTimeout, NativeNextMsgId, NativeStartChunk,
     NativeWaitDrain, NativeSendChunk DEF SendOne
-----------------------------------------------------------------------------
(* Messages are given to the queues *)

\* A sequence with an element appended.
LEMMA Appends ==
  ASSUME NEW S, NEW s \in Seq(S), NEW e \in S
  PROVE  /\ Append(s, e) \in Seq(S) /\ Len(Append(s, e)) = Len(s) + 1 /\ Len(s) \in Nat
         /\ Append(s, e)[Len(s) + 1] = e
         /\ \A i \in 1 .. Len(s) : Append(s, e)[i] = s[i]
OBVIOUS

\* The queue that gets the next message, and how the tasks may change with it.
LEMMA CallingStep ==
  ASSUME Base, MaySend, calls' = calls + 1, current' = QueueInUse, queue' = Queued,
         UNCHANGED <<backend, game, link, made, chan, outcome, rx, received, slow>>,
         running' \in [Generations -> BOOLEAN], TasksTyped', Placed',
         \A t \in Generations :
           worker'[t] = worker[t] \/ (worker[t].at = "ended" /\ worker'[t].msg = 0 /\ worker'[t].at \in NoJob),
         backend = "native" /\ game = "on" => worker'[2].at = "ended",
         backend = "wasm" /\ game = "on" =>
           \A t, u \in Generations : worker'[t].at # "ended" => running'[1] /\ (t = u \/ worker'[u].at = "ended")
  PROVE  Base' /\ Calls(QueueInUse) /\ QueueInUse \in Generations
<1>1. /\ QueueInUse \in Generations /\ QueueInUse \in 1 .. 2
      /\ QueueInUse = 2 => game # "on"
      /\ QueueInUse = 1 => game = "on"
  BY DEF QueueInUse, Generations, Base, OneSender, Typed, GameTyped
<1> DEFINE g == QueueInUse
<1>2. calls + 1 \in 1 .. Messages /\ calls < Messages
  BY Constants DEF MaySend, Base, Typed, QueuesTyped
<1>3. queue' \in [Generations -> Seq(1 .. Messages)]
  <2>1. queue \in [Generations -> Seq(1 .. Messages)]
    BY DEF Base, Typed, QueuesTyped
  <2>2. Append(queue[g], calls + 1) \in Seq(1 .. Messages)
    BY <1>1, <1>2, <2>1, Appends
  <2>3. queue' = [queue EXCEPT ![g] = Append(queue[g], calls + 1)]
    BY DEF Queued
  <2> HIDE DEF g
  <2> QED
    BY ONLY <2>1, <2>2, <2>3
<1>4. Typed'
  <2>1. LinksTyped' /\ RxTyped'
    BY DEF Base, Typed, LinksTyped, RxTyped
  <2>2. QueuesTyped'
    BY <1>2, <1>3, Constants DEF Base, Typed, QueuesTyped
  <2>3. GameTyped'
    BY <1>1 DEF Base, Typed, GameTyped
  <2> QED
    BY <2>1, <2>2, <2>3 DEF Typed
<1>5. LinksOpened'
  BY DEF Base, LinksOpened
<1>6. \A t \in Generations : worker'[t].link = worker[t].link \/ worker'[t].link = 0
  <2> SUFFICES ASSUME NEW t \in Generations PROVE worker'[t].link = worker[t].link \/ worker'[t].link = 0
    OBVIOUS
  <2>1. CASE worker'[t].at \in NoJob
    BY <2>1 DEF Placed, Sensible, NoJob, OfLink, OnLink, WithId
  <2> QED
    BY <2>1
<1>7. OneSender'
  <2>1. \A t, u \in Generations : t # u => worker'[t].link = 0 \/ worker'[u].link = 0
    BY <1>6 DEF Base, OneSender
  <2>2. /\ game # "on" => link = 0 /\ current' # 1
        /\ game = "on" => current' # 2
        /\ current' # 0
    BY <1>1 DEF Base, OneSender
  <2>3. backend = "native" => worker'[2].link = 0
    BY <1>6 DEF Base, OneSender, Generations
  <2>4. game = "on" => current' = 1
    BY <1>1
  <2> QED
    BY <2>1, <2>2, <2>3, <2>4 DEF Base, OneSender
<1>8. Calls(g)
  BY <1>1, <1>2 DEF Calls, Queued
<1> QED
  BY <1>1, <1>4, <1>5, <1>7, <1>8 DEF Base

\* Tasks that stay or are made anew are placed.
LEMMA PlacedStays ==
  ASSUME Base, UNCHANGED <<backend, game, made, chan>>,
         \A t \in Generations : worker'[t] = worker[t] \/ Sensible(t, worker'[t])
  PROVE  Placed'
<1> SUFFICES ASSUME NEW t \in Generations PROVE Sensible(t, worker[t])'
  BY DEF Placed
<1> PICK v : v = worker'[t]
  OBVIOUS
<1>1. Sensible(t, v)
  BY DEF Base, Placed
<1> QED
  BY <1>1 DEF Sensible

\* handle_send_reliable queues the message, with a worker for it.
LEMMA NativeHandleSend ==
  ASSUME Base, HandleSend
  PROVE  Base' /\ QueueInUse \in Generations /\ Calls(QueueInUse)
<1> DEFINE g == QueueInUse
           w == At("idle", g)
<1>1. g \in Generations /\ g \in 0 .. 2 /\ (g = 2 => game # "on") /\ backend = "native"
  BY DEF QueueInUse, Generations, Base, OneSender, Typed, GameTyped, HandleSend, Native
<1>2. w \in Task /\ w.at = "idle" /\ w.gen = g /\ w.msg = 0 /\ w.link = 0 /\ w.seq = 0
  BY <1>1, TaskMade DEF Places
<1>3. Sensible(g, w)
  BY <1>1, <1>2 DEF Sensible, OfLink, OnLink, WithId, NoJob, NativePlaces, Base, Typed, GameTyped
<1>4. worker' = worker \/ (current = 0 /\ worker' = [worker EXCEPT ![g] = w])
  BY DEF HandleSend
<1> HIDE DEF w, g
<1>5. CASE worker' = worker
  <2>1. TasksTyped' /\ Placed'
    BY <1>5, PlacedStays DEF Base, Typed, TasksTyped, HandleSend
  <2>2. game = "on" => worker'[2].at = "ended"
    BY <1>1, <1>5 DEF Base, OneSender
  <2> QED
    BY <1>1, <1>5, <2>1, <2>2, CallingStep DEF HandleSend, g, Base, Typed, GameTyped
<1>6. CASE current = 0 /\ worker' = [worker EXCEPT ![g] = w]
  <2>0. Becomes(g, w)
    BY <1>1, <1>2, <1>6, TaskChange DEF Base, Typed
  <2>1. TasksTyped' /\ \A t \in Generations : worker'[t] = worker[t] \/ (t = g /\ worker'[t] = w)
    BY <2>0 DEF Becomes, TasksTyped
  <2>2. worker[g].at = "ended"
    BY <1>1, <1>6 DEF g, QueueInUse, Base, OneSender, HandleSend, MaySend, Typed, GameTyped
  <2>3. Placed'
    BY <1>3, <2>1, PlacedStays DEF HandleSend
  <2>4. \A t \in Generations :
           worker'[t] = worker[t] \/ (worker[t].at = "ended" /\ worker'[t].msg = 0 /\ worker'[t].at \in NoJob)
    BY <1>2, <2>1, <2>2 DEF NoJob
  <2>5. game = "on" => worker'[2].at = "ended"
    BY <1>1, <2>1 DEF Base, OneSender, Generations
  <2> QED
    BY <1>1, <2>1, <2>3, <2>4, <2>5, CallingStep DEF HandleSend, g, Base, Typed, GameTyped
<1> QED
  BY <1>4, <1>5, <1>6 DEF g

-----------------------------------------------------------------------------
(* What happens to the links *)

\* Links open and close, and no frame is sent on them.
LinksMove ==
  /\ LinksTyped'
  /\ \A n \in LinkIds :
       /\ LinkRests(chan[n], chan'[n])
       /\ chan'[n].state = "connecting" => chan[n].state = "connecting" /\ chan'[n].wire = chan[n].wire
       /\ n > made => chan'[n].state = chan[n].state

\* Links that are as they were.
LEMMA NoLinkMoves == Base /\ chan' = chan => LinksMove
<1> SUFFICES ASSUME Base, chan' = chan PROVE LinksMove
  OBVIOUS
<1>1. LinksTyped'
  BY DEF Base, Typed, LinksTyped
<1>2. \A n \in LinkIds : LinkRests(chan[n], chan'[n])
  BY RestsAlone
<1> QED
  BY <1>1, <1>2 DEF LinksMove

\* One link changes, and no frame is sent on it.
LEMMA LinkMoves ==
  ASSUME Base, NEW n \in LinkIds, NEW d \in LinkState, chan' = [chan EXCEPT ![n] = d],
         LinkRests(chan[n], d), n <= made \/ d.state = chan[n].state,
         d.state = "connecting" => chan[n].state = "connecting" /\ d.wire = chan[n].wire
  PROVE  LinksMove
<1>1. LinkBecomes(n, d)
  BY LinkChange DEF Base, Typed
<1>2. ASSUME NEW k \in LinkIds
      PROVE  /\ LinkRests(chan[k], chan'[k])
             /\ chan'[k].state = "connecting" => chan[k].state = "connecting" /\ chan'[k].wire = chan[k].wire
             /\ k > made => chan'[k].state = chan[k].state
  <2>1. CASE k = n
    <3>1. made \in Nat /\ n \in Nat
      BY Constants DEF Base, Typed, GameTyped, LinkIds
    <3> QED
      BY <1>1, <2>1, <3>1 DEF LinkBecomes
  <2>2. CASE k # n
    <3>1. chan'[k] = chan[k]
      BY <1>1, <2>2 DEF LinkBecomes
    <3>2. LinkRests(chan[k], chan[k])
      BY DEF LinkRests
    <3> QED
      BY <3>1, <3>2
  <2> QED
    BY <2>1, <2>2
<1> QED
  BY <1>1, <1>2 DEF LinkBecomes, LinksMove, LinksTyped

\* The link in use is one of those made.
LEMMA CurrentLink ==
  ASSUME Base, link # 0
  PROVE  link \in LinkIds /\ link <= made /\ chan[link] \in LinkState
BY Constants DEF Base, Typed, GameTyped, LinkIds, LinksTyped

\* close() of the native link.
LEMMA CloseMoves ==
  ASSUME Base, chan' = CloseLink(link)
  PROVE  LinksMove
<1>1. CASE link = 0
  BY <1>1, NoLinkMoves DEF CloseLink
<1>2. CASE link # 0
  <2> DEFINE d == [chan[link] EXCEPT !.closed = TRUE, !.ring = TRUE]
  <2>1. link \in LinkIds /\ link <= made /\ chan[link] \in LinkState
    BY <1>2, CurrentLink
  <2>2. d \in LinkState /\ d.state = chan[link].state /\ d.wire = chan[link].wire
        /\ d.nextId = chan[link].nextId /\ d.done = chan[link].done /\ d.closed
    BY <2>1 DEF LinkState
  <2>3. chan' = [chan EXCEPT ![link] = d]
    BY <1>2, <2>1 DEF CloseLink, Base, Typed, LinksTyped
  <2> HIDE DEF d
  <2>4. LinkRests(chan[link], d)
    BY <2>2 DEF LinkRests
  <2> QED
    BY <2>1, <2>2, <2>3, <2>4, LinkMoves
<1> QED
  BY <1>1, <1>2

\* close() of the wasm link.
LEMMA ShutMoves ==
  ASSUME Base, chan' = ShutLink(link)
  PROVE  LinksMove
<1>1. CASE link = 0
  BY <1>1, NoLinkMoves DEF ShutLink
<1>2. CASE link # 0
  <2> DEFINE d == [chan[link] EXCEPT !.closed = TRUE, !.state = "closed"]
  <2>1. link \in LinkIds /\ link <= made /\ chan[link] \in LinkState
    BY <1>2, CurrentLink
  <2>2. d \in LinkState /\ d.state = "closed" /\ d.wire = chan[link].wire
        /\ d.nextId = chan[link].nextId /\ d.done = chan[link].done /\ d.closed
    BY <2>1 DEF LinkState
  <2>3. chan' = [chan EXCEPT ![link] = d]
    BY <1>2, <2>1 DEF ShutLink, Base, Typed, LinksTyped
  <2> HIDE DEF d
  <2>4. LinkRests(chan[link], d)
    BY <2>2 DEF LinkRests
  <2> QED
    BY <2>1, <2>2, <2>3, <2>4, LinkMoves
<1> QED
  BY <1>1, <1>2

\* A link that changes its state, or is only marked.
LEMMA OneMoves ==
  ASSUME Base, NEW n \in LinkIds, NEW st \in {"connecting", "open", "closed"},
         NEW ring \in BOOLEAN, NEW cut \in BOOLEAN,
         chan' = [chan EXCEPT ![n] = [chan[n] EXCEPT !.state = st, !.ring = ring, !.cut = cut]],
         n <= made \/ st = chan[n].state,
         \/ st \in {chan[n].state, "closed"}
         \/ st = "open" /\ chan[n].state = "connecting"
  PROVE  LinksMove /\ chan'[n].state = st /\ chan'[n].wire = chan[n].wire
<1> DEFINE d == [chan[n] EXCEPT !.state = st, !.ring = ring, !.cut = cut]
<1>1. chan[n] \in LinkState /\ chan \in [LinkIds -> LinkState]
  BY DEF Base, Typed, LinksTyped
<1>3. d \in LinkState /\ d.state = st /\ d.wire = chan[n].wire
      /\ d.nextId = chan[n].nextId /\ d.done = chan[n].done /\ d.closed = chan[n].closed
  <2> PICK c \in LinkState : c = chan[n]
    BY <1>1
  <2>1. d = [c EXCEPT !.state = st, !.ring = ring, !.cut = cut]
    OBVIOUS
  <2>2. st \in {"connecting", "open", "closed"} /\ ring \in BOOLEAN /\ cut \in BOOLEAN
    OBVIOUS
  <2> HIDE DEF d
  <2>3. d \in LinkState
    BY ONLY <2>1, <2>2, c \in LinkState DEF LinkState
  <2>4. d.state = st /\ d.wire = c.wire /\ d.nextId = c.nextId /\ d.done = c.done /\ d.closed = c.closed
    BY ONLY <2>1, c \in LinkState DEF LinkState
  <2> QED
    BY <2>3, <2>4
<1>4. chan' = [chan EXCEPT ![n] = d]
  BY <1>1
<1> HIDE DEF d
<1>5. LinkRests(chan[n], d)
  <2>1. chan[n].state = "connecting" => chan[n].wire = <<>>
    BY DEF Base, LinksOpened
  <2> QED
    BY <1>3, <2>1 DEF LinkRests
<1>6. LinksMove
  BY <1>3, <1>4, <1>5, LinkMoves
<1> QED
  BY <1>1, <1>3, <1>4, <1>6

\* What a step of the links keeps.
LEMMA LinksStep ==
  ASSUME Base, LinksMove, made' >= made, GameTyped', TasksTyped', QueuesTyped', UNCHANGED backend,
         \A t \in Generations : worker'[t] = worker[t] \/ Sensible(t, worker[t])',
         rx' = rx \/ \E n \in LinkIds : rx' = Receiver(n) /\ chan[n].state = "connecting" /\ chan'[n].state # "connecting"
  PROVE  /\ Typed' /\ Placed' /\ LinksOpened'
         /\ \A n \in LinkIds : LinkRests(chan[n], chan'[n])
         /\ \/ rx' = rx
            \/ rx'.link \in LinkIds /\ rx'.inflight = [i \in {} |-> 0] /\ chan[rx'.link].state = "connecting"
<1>0. made \in Nat /\ made' \in Nat /\ LinkIds \subseteq Nat
  BY Constants DEF Base, Typed, GameTyped, LinkIds
<1>1. \/ rx' = rx
      \/ /\ rx'.link \in LinkIds /\ rx'.inflight = [i \in {} |-> 0] /\ chan[rx'.link].state = "connecting"
         /\ chan'[rx'.link].state # "connecting" /\ rx' = [link |-> rx'.link, inflight |-> rx'.inflight]
  BY DEF Receiver
<1>2. RxTyped'
  <2>1. CASE rx' = rx
    BY <2>1 DEF Base, Typed, RxTyped
  <2>2. CASE /\ rx'.link \in LinkIds /\ rx'.inflight = [i \in {} |-> 0]
             /\ rx' = [link |-> rx'.link, inflight |-> rx'.inflight]
    <3>1. DOMAIN rx'.inflight = {}
      BY <2>2
    <3> QED
      BY <2>2, <3>1, Constants DEF RxTyped, LinkIds
  <2> QED
    BY <1>1, <2>1, <2>2
<1>3. Typed'
  BY <1>2 DEF Typed, LinksMove
<1>4. LinksOpened'
  <2>1. ASSUME NEW n \in LinkIds
        PROVE  /\ chan'[n].state = "connecting" => chan'[n].wire = <<>>
               /\ n > made' => chan'[n].state = "connecting"
    BY <1>0 DEF LinksMove, Base, LinksOpened
  <2>2. rx'.link # 0 => chan'[rx'.link].state # "connecting"
    <3>1. CASE rx' = rx /\ rx.link # 0
      <4>1. rx.link \in LinkIds
        BY <3>1, Constants DEF Base, Typed, RxTyped, LinkIds
      <4> QED
        BY <3>1, <4>1 DEF LinksMove, Base, LinksOpened
    <3> QED
      BY <1>1, <3>1
  <2> QED
    BY <2>1, <2>2 DEF LinksOpened
<1>5. Placed'
  <2> SUFFICES ASSUME NEW t \in Generations, worker'[t] = worker[t] PROVE Sensible(t, worker[t])'
    BY DEF Placed
  <2> PICK v : v = worker[t]
    OBVIOUS
  <2>1. Sensible(t, v)
    BY DEF Base, Placed
  <2>2. v.at \in OnLink => chan'[v.link].state # "connecting"
    <3>1. v.at \in OnLink => v.link \in LinkIds
      BY TaskFacts DEF Sensible, OfLink
    <3> QED
      BY <2>1, <3>1 DEF Sensible, LinksMove
  <2>3. v.link \in 0 .. made'
    BY <1>0, <2>1 DEF Sensible
  <2> QED
    BY <2>1, <2>2, <2>3 DEF Sensible
<1> QED
  BY <1>1, <1>3, <1>4, <1>5 DEF LinksMove

-----------------------------------------------------------------------------
(* The actor of the native client *)

\* A step that leaves the tasks alone.
LEMMA LinksOnly ==
  ASSUME Base, LinksMove, made' >= made, GameTyped', UNCHANGED <<backend, worker, outcome, queue, calls, received, slow>>,
         running' = running,
         game' = "on" => game = "on",
         \/ UNCHANGED <<game, current>> /\ (link' # 0 => game = "on")
         \/ Ends /\ link' = 0 /\ current' = 0 /\ backend = "native",
         rx' = rx \/ \E n \in LinkIds : rx' = Receiver(n) /\ chan[n].state = "connecting" /\ chan'[n].state # "connecting"
  PROVE  Base' /\ Rests
<1>1. TasksTyped' /\ QueuesTyped'
  BY DEF Base, Typed, TasksTyped, QueuesTyped
<1>2. /\ Typed' /\ Placed' /\ LinksOpened'
      /\ \A n \in LinkIds : LinkRests(chan[n], chan'[n])
      /\ \/ rx' = rx
         \/ rx'.link \in LinkIds /\ rx'.inflight = [i \in {} |-> 0] /\ chan[rx'.link].state = "connecting"
  BY <1>1, LinksStep
<1>3. OneSender'
  <2>1. CASE UNCHANGED <<game, current>>
    BY <2>1 DEF Base, OneSender
  <2>2. CASE Ends /\ link' = 0 /\ current' = 0 /\ backend = "native"
    BY <2>2 DEF Base, OneSender, Ends
  <2> QED
    BY <2>1, <2>2
<1>4. Rests
  BY <1>2, RestsAlone DEF Rests, QueuesRest, Others
<1> QED
  BY <1>2, <1>3, <1>4 DEF Base

\* create_link of the actor.
LEMMA NativeCreateLink ==
  ASSUME Base, CreateLink
  PROVE  Base' /\ Rests
<1>1. LinksMove
  BY CloseMoves DEF CreateLink
<1>2. GameTyped' /\ made' >= made /\ game = "on"
  BY Constants DEF CreateLink, Base, Typed, GameTyped
<1> QED
  BY <1>1, <1>2, LinksOnly DEF CreateLink

\* close_peer of the actor.
LEMMA NativeClosePeer ==
  ASSUME Base, ClosePeer
  PROVE  Base' /\ Rests
<1>1. LinksMove
  BY CloseMoves DEF ClosePeer
<1>2. GameTyped' /\ made' >= made
  BY Constants DEF ClosePeer, Base, Typed, GameTyped
<1> QED
  BY <1>1, <1>2, LinksOnly DEF ClosePeer

\* teardown of the actor.
LEMMA NativeTeardown ==
  ASSUME Base, TeardownPeers
  PROVE  Base' /\ Rests
<1>1. LinksMove
  BY CloseMoves DEF TeardownPeers
<1>2. GameTyped' /\ made' >= made
  BY Constants DEF TeardownPeers, Base, Typed, GameTyped, Ends
<1>3. game' = "on" => game = "on"
  BY DEF TeardownPeers, Ends
<1> QED
  BY <1>1, <1>2, <1>3, LinksOnly DEF TeardownPeers, Native

\* What is left alone when a channel changes.
LEMMA ChannelOnly ==
  ASSUME Base, LinksMove, UNCHANGED <<backend, received, slow, Unsent>>,
         rx' = rx \/ \E n \in LinkIds : rx' = Receiver(n) /\ chan[n].state = "connecting" /\ chan'[n].state # "connecting"
  PROVE  Base' /\ Rests
<1>1. GameTyped' /\ made' >= made
  BY Constants DEF Unsent, Base, Typed, GameTyped
<1>2. link' # 0 => game = "on"
  BY DEF Unsent, Base, OneSender
<1> QED
  BY <1>1, <1>2, LinksOnly DEF Unsent

\* The parts of a link.
LEMMA LinkParts ==
  ASSUME Base, NEW n \in LinkIds
  PROVE  /\ chan[n] \in LinkState /\ chan[n].state \in {"connecting", "open", "closed"}
         /\ chan[n].ring \in BOOLEAN /\ chan[n].cut \in BOOLEAN /\ chan[n].wire \in Seq(Packet)
         /\ n = link => n <= made
         /\ chan[n].state # "connecting" => n <= made
<1>1. chan[n] \in LinkState
  BY DEF Base, Typed, LinksTyped
<1>2. (n = link => n <= made) /\ (chan[n].state # "connecting" => n <= made)
  BY Constants DEF Base, LinksOpened, Typed, GameTyped, LinkIds
<1> QED
  BY <1>1, <1>2 DEF LinkState

\* The native channel opens.
LEMMA NativeOnOpen ==
  ASSUME Base, NEW n \in LinkIds, OnOpen(n)
  PROVE  Base' /\ Rests
<1> PICK c \in LinkState : c = chan[n]
  BY LinkParts
<1> DEFINE d == [chan[n] EXCEPT !.state = "open", !.ring = TRUE, !.cut = chan[n].cut]
           e == [[chan[n] EXCEPT !.state = "open"] EXCEPT !.ring = TRUE]
<1>1. e = d
  <2>1. [[c EXCEPT !.state = "open"] EXCEPT !.ring = TRUE]
          = [c EXCEPT !.state = "open", !.ring = TRUE, !.cut = c.cut]
    BY DEF LinkState
  <2> QED
    BY <2>1
<1>2. chan' = [chan EXCEPT ![n] = e]
  BY DEF OnOpen, Changed
<1> HIDE DEF e
<1>3. chan' = [chan EXCEPT ![n] = d]
  BY <1>1, <1>2
<1>4. LinksMove /\ chan'[n].state = "open"
  BY <1>3, LinkParts, OneMoves DEF OnOpen
<1> QED
  BY <1>4, ChannelOnly DEF OnOpen, Changed

\* The native channel closes.
LEMMA NativeOnClose ==
  ASSUME Base, NEW n \in LinkIds, OnClose(n)
  PROVE  Base' /\ Rests
<1> PICK c \in LinkState : c = chan[n]
  BY LinkParts
<1> DEFINE d == [chan[n] EXCEPT !.state = "closed", !.ring = TRUE, !.cut = chan[n].cut]
           e == [[chan[n] EXCEPT !.state = "closed"] EXCEPT !.ring = TRUE]
<1>1. e = d
  <2>1. [[c EXCEPT !.state = "closed"] EXCEPT !.ring = TRUE]
          = [c EXCEPT !.state = "closed", !.ring = TRUE, !.cut = c.cut]
    BY DEF LinkState
  <2> QED
    BY <2>1
<1>2. chan' = [chan EXCEPT ![n] = e]
  BY DEF OnClose, Changed
<1> HIDE DEF e
<1>3. chan' = [chan EXCEPT ![n] = d]
  BY <1>1, <1>2
<1>4. LinksMove
  BY <1>3, LinkParts, OneMoves DEF OnClose
<1> QED
  BY <1>4, ChannelOnly DEF OnClose, Changed

\* The connection fails.
LEMMA BreaksStep ==
  ASSUME Base, NEW n \in LinkIds, Breaks(n)
  PROVE  Base' /\ Rests
<1> PICK c \in LinkState : c = chan[n]
  BY LinkParts
<1> DEFINE d == [chan[n] EXCEPT !.state = chan[n].state, !.ring = chan[n].ring, !.cut = TRUE]
           e == [chan[n] EXCEPT !.cut = TRUE]
<1>1. e = d
  <2>1. [c EXCEPT !.cut = TRUE]
          = [c EXCEPT !.state = c.state, !.ring = c.ring, !.cut = TRUE]
    BY DEF LinkState
  <2> QED
    BY <2>1
<1>2. chan' = [chan EXCEPT ![n] = e]
  BY DEF Breaks
<1> HIDE DEF e
<1>3. chan' = [chan EXCEPT ![n] = d]
  BY <1>1, <1>2
<1>4. LinksMove
  BY <1>3, LinkParts, OneMoves DEF Breaks
<1> QED
  BY <1>4, ChannelOnly DEF Breaks

\* Tasks that are told of something and go on.
LEMMA NativeNotify ==
  ASSUME Base, NEW n \in LinkIds, NotifyWaiters(n)
  PROVE  Base' /\ Rests
<1>0. made \in Nat
  BY Constants DEF Base, Typed, GameTyped
<1>1. \A t \in Generations : worker'[t] = worker[t] \/ (worker[t].at = "parked" /\ worker[t].link = n /\ worker'[t] = [worker[t] EXCEPT !.at = "open"])
  BY DEF NotifyWaiters
<1>2. worker' = [t \in Generations |->
       IF worker[t].at = "parked" /\ worker[t].link = n THEN [worker[t] EXCEPT !.at = "open"] ELSE worker[t]]
  BY DEF NotifyWaiters
<1>3. ASSUME NEW t \in Generations, worker[t].at = "parked", worker[t].link = n,
             worker'[t] = [worker[t] EXCEPT !.at = "open"]
      PROVE  /\ worker'[t] \in Task /\ worker'[t].link = worker[t].link /\ Sensible(t, worker'[t])
             /\ TaskRests(worker[t], worker'[t]) /\ worker'[t].at = "open" /\ n <= made
  <2> DEFINE w == [worker[t] EXCEPT !.at = "open"]
  <2>0. "open" \in Places /\ TasksTyped
    BY DEF Base, Typed, Places
  <2>1. w \in Task /\ w.at = "open" /\ w.gen = worker[t].gen /\ w.msg = worker[t].msg
        /\ w.link = worker[t].link /\ w.id = worker[t].id /\ w.seq = worker[t].seq
    BY ONLY <2>0, t \in Generations, TaskMoved
  <2>9. w = worker'[t]
    BY <1>3
  <2> HIDE DEF w
  <2>2. Sensible(t, w)
    BY <1>3, <2>1, TaskFacts DEF Sensible, OfLink, OnLink, WithId, NoJob, NativePlaces, NotifyWaiters, Native
  <2>3. TaskRests(worker[t], w)
    BY <1>3, <2>1 DEF TaskRests, JobRests, PlaceRests, OnLink, WithId
  <2>4. n <= made
    BY <1>3, TaskFacts DEF Sensible
  <2> QED
    BY <2>1, <2>2, <2>3, <2>4, <2>9
<1>4. LinksMove
  <2> PICK c \in LinkState : c = chan[n]
    BY LinkParts
  <2> DEFINE d == [chan[n] EXCEPT !.state = chan[n].state, !.ring = FALSE, !.cut = chan[n].cut]
             e == [chan[n] EXCEPT !.ring = FALSE]
  <2>1. e = d
    <3>1. [c EXCEPT !.ring = FALSE]
            = [c EXCEPT !.state = c.state, !.ring = FALSE, !.cut = c.cut]
      BY DEF LinkState
    <3> QED
      BY <3>1
  <2>2. chan' = [chan EXCEPT ![n] = e]
    BY DEF NotifyWaiters
  <2> HIDE DEF e
  <2>3. chan' = [chan EXCEPT ![n] = d]
    BY <2>1, <2>2
  <2> QED
    BY <2>3, LinkParts, OneMoves
<1>5. /\ UNCHANGED <<backend, game, link, made, calls, outcome, queue, current, running, rx, received, slow>>
      /\ backend = "native"
  BY DEF NotifyWaiters, Native
<1>6. TasksTyped'
  <2>1. \A t \in Generations : worker'[t] \in Task
    BY <1>1, <1>3, TaskFacts
  <2> QED
    BY <1>2, <2>1 DEF TasksTyped
<1>7. QueuesTyped' /\ GameTyped' /\ made' >= made
  BY <1>0, <1>5 DEF Base, Typed, QueuesTyped, GameTyped
<1>8. \A t \in Generations : worker'[t] = worker[t] \/ Sensible(t, worker[t])'
  <2> SUFFICES ASSUME NEW t \in Generations, worker[t].at = "parked", worker[t].link = n,
                      worker'[t] = [worker[t] EXCEPT !.at = "open"]
               PROVE  Sensible(t, worker[t])'
    BY <1>1
  <2> PICK w : w = worker'[t]
    OBVIOUS
  <2>1. Sensible(t, w) /\ w.at = "open"
    BY <1>3
  <2> QED
    BY <2>1, <1>5 DEF Sensible, OnLink, WithId
<1>9. /\ Typed' /\ Placed' /\ LinksOpened'
      /\ \A k \in LinkIds : LinkRests(chan[k], chan'[k])
  BY <1>4, <1>5, <1>6, <1>7, <1>8, LinksStep
<1>10. OneSender'
  <2>1. \A t \in Generations : worker'[t].link = worker[t].link /\ (worker[t].at = "ended" => worker'[t].at = "ended")
    BY <1>1, <1>3
  <2> QED
    BY <1>5, <2>1 DEF Base, OneSender, Generations
<1>11. \A t \in Generations : TaskRests(worker[t], worker'[t])
  BY <1>1, <1>3, RestsAlone
<1>12. Rests
  BY <1>5, <1>9, <1>11 DEF Rests, QueuesRest, Others
<1> QED
  BY <1>9, <1>10, <1>12 DEF Base

-----------------------------------------------------------------------------
(* The tasks of the wasm sender *)

\* What the end of a send leaves of the outcomes and the queues.
LEMMA DoneEffect ==
  ASSUME Base, NEW t \in Generations, worker[t].msg # 0, NEW r \in {"ok", "failed"}, Done(t, r), calls' = calls
  PROVE  /\ QueuesTyped' /\ QueuesRest
         /\ outcome'[worker[t].msg] = r /\ Others(worker[t].msg)
<1> DEFINE v == worker[t]
           dropped == IF v.gen = current THEN {} ELSE {queue[v.gen][i] : i \in DOMAIN queue[v.gen]}
<1>1. v.msg \in 1 .. Messages /\ v.gen \in Generations
  BY TaskFacts, Constants DEF Sensible
<1>2. /\ outcome' = [m \in 1 .. Messages |-> IF m = v.msg THEN r ELSE IF m \in dropped THEN "failed" ELSE outcome[m]]
      /\ queue' = IF v.gen = current THEN queue ELSE [queue EXCEPT ![v.gen] = <<>>]
  BY DEF Done
<1>3. queue \in [Generations -> Seq(1 .. Messages)] /\ outcome \in [1 .. Messages -> {"none", "ok", "failed"}]
      /\ calls \in 0 .. Messages
  BY DEF Base, Typed, QueuesTyped
<1>4. /\ outcome' \in [1 .. Messages -> {"none", "ok", "failed"}]
      /\ outcome'[v.msg] = r
      /\ \A k \in 1 .. Messages : k # v.msg => outcome'[k] = outcome[k] \/ (outcome'[k] = "failed" /\ k \in dropped)
  <2> HIDE DEF dropped, v
  <2> QED
    BY <1>1, <1>2, <1>3
<1>5. queue' \in [Generations -> Seq(1 .. Messages)] /\ QueuesRest
      /\ (v.gen # current => queue'[v.gen] = <<>>)
  <2>1. CASE v.gen = current
    BY <1>2, <1>3, <2>1 DEF QueuesRest
  <2>2. CASE v.gen # current
    <3>1. queue' = [queue EXCEPT ![v.gen] = <<>>]
      BY <1>2, <2>2
    <3>2. <<>> \in Seq(1 .. Messages)
      OBVIOUS
    <3> HIDE DEF v
    <3> QED
      BY <1>1, <1>3, <3>1, <3>2 DEF QueuesRest
  <2> QED
    BY <2>1, <2>2
<1>6. Others(v.msg)
  <2> SUFFICES ASSUME NEW k \in 1 .. Messages, k # v.msg, k \in dropped
               PROVE  GivenUp(k)
    BY <1>4 DEF Others
  <2>1. v.gen # current /\ \E i \in DOMAIN queue[v.gen] : queue[v.gen][i] = k
    OBVIOUS
  <2>2. DOMAIN queue[v.gen] = 1 .. Len(queue[v.gen])
    BY <1>1, <1>3
  <2> QED
    BY <1>1, <1>5, <2>1, <2>2 DEF GivenUp
<1> QED
  BY <1>3, <1>4, <1>5, <1>6 DEF QueuesTyped

\* The worker looks for its next job.
LEMMA NextTask ==
  ASSUME Base, Wasm, NEW t \in Generations, worker[t].msg # 0
  PROVE  LET w == At("next", 0)
         IN /\ w \in Task /\ w.at = "next" /\ w.gen = 0 /\ w.msg = 0 /\ w.link = 0 /\ w.seq = 0
            /\ MayBecome(t, w) /\ w.at \in NoJob
<1> DEFINE w == At("next", 0)
<1>1. w \in Task /\ w.at = "next" /\ w.gen = 0 /\ w.msg = 0 /\ w.link = 0 /\ w.seq = 0
  BY TaskMade DEF Places
<1> HIDE DEF w
<1>2. Sensible(t, w)
  BY <1>1 DEF Sensible, OfLink, OnLink, WithId, NoJob, WasmPlaces, Wasm, Base, Typed, GameTyped
<1>3. worker[t].at # "ended"
  BY TaskFacts DEF Sensible, NoJob
<1>4. MayBecome(t, w) /\ w.at \in NoJob
  BY <1>1, <1>2, <1>3 DEF MayBecome, Wasm, NoJob
<1> QED
  BY <1>1, <1>4 DEF w

\* What a wasm sender task leaves alone.
Rest2 == UNCHANGED <<backend, game, link, made, calls, current, running, received, slow>>

\* A wasm send that fails.
LEMMA WasmFails ==
  ASSUME Base, NEW t \in Generations, Wasm, worker[t].msg # 0, Failed(t), Rest2,
         worker[t].at \in WithId => ~Opened(chan[worker[t].link])
  PROVE  Base' /\ Rests
<1> DEFINE w == At("next", 0)
<1>1. /\ w \in Task /\ w.at = "next" /\ w.gen = 0 /\ w.msg = 0 /\ w.link = 0 /\ w.seq = 0
      /\ MayBecome(t, w)
  BY NextTask
<1>2. worker' = [worker EXCEPT ![t] = w] /\ chan' = chan /\ rx' = rx
  BY DEF Failed, Done
<1>3. QueuesTyped' /\ QueuesRest /\ outcome'[worker[t].msg] = "failed" /\ Others(worker[t].msg)
  BY DoneEffect DEF Failed, Rest2
<1> HIDE DEF w
<1>4. worker'[t].msg = 0
  BY <1>1, <1>2 DEF Base, Typed, TasksTyped
<1>5. GivenUp(worker[t].msg)
  BY <1>4 DEF GivenUp
<1>6. Others(0)
  BY <1>3, <1>5 DEF Others
<1>7. TaskRests(worker[t], w)
  BY <1>1, <1>2 DEF TaskRests, JobRests, PlaceRests, WithId, OnLink
<1> QED
  BY <1>1, <1>2, <1>3, <1>6, <1>7, StillRunning, RestingStep DEF Rest2

\* A wasm send that goes on at another place of its link.
LEMMA WasmMoves ==
  ASSUME Base, NEW t \in Generations, NEW at \in OfLink, To(t, at), Wasm, Rest2,
         worker[t].at \in OfLink, at \in WasmPlaces,
         at \in WithId <=> worker[t].at \in WithId,
         at \in OnLink /\ worker[t].at \notin OnLink => Opened(chan[worker[t].link])
  PROVE  Base' /\ Rests
<1>1. at \in Places /\ at # "send"
  BY DEF Places, OfLink, OnLink, WithId, WasmPlaces
<1> QED
  BY <1>1, MovesTo DEF To, Rest2, Wasm

\* A link arrives for a wasm send.
LEMMA WasmLinkArrived ==
  ASSUME Base, NEW t \in Generations, Rest2, LinkArrived(t)
  PROVE  Base' /\ Rests
<1>1. worker[t].at = "await-link" /\ worker[t].msg # 0 /\ worker[t].seq = 0 /\ Wasm
  BY TaskFacts DEF LinkArrived, Ready, Sensible, NoJob, WithId
<1>2. CASE Failed(t)
  BY <1>1, <1>2, WasmFails DEF WithId
<1>3. CASE worker[t].link # 0 /\ To(t, "open")
  <2> DEFINE w == [worker[t] EXCEPT !.at = "open"]
  <2>0. "open" \in Places /\ TasksTyped
    BY DEF Base, Typed, Places
  <2>1. w \in Task /\ w.at = "open" /\ w.gen = worker[t].gen /\ w.msg = worker[t].msg
        /\ w.link = worker[t].link /\ w.id = worker[t].id /\ w.seq = worker[t].seq
    BY ONLY <2>0, t \in Generations, TaskMoved
  <2>2. worker' = [worker EXCEPT ![t] = w]
    BY <1>3 DEF To, Base, Typed, TasksTyped
  <2> HIDE DEF w
  <2>3. Sensible(t, w)
    BY <1>1, <1>3, <2>1, TaskFacts DEF Sensible, OfLink, OnLink, WithId, NoJob, WasmPlaces, Wasm
  <2>4. MayBecome(t, w)
    BY <1>1, <2>1, <2>3 DEF MayBecome, Wasm
  <2>5. TaskRests(worker[t], w)
    BY <1>1, <2>1 DEF TaskRests, JobRests, PlaceRests, WithId, OnLink
  <2> QED
    BY <1>3, <2>1, <2>2, <2>4, <2>5, QuietStep DEF To, Rest2
<1> QED
  BY <1>2, <1>3 DEF LinkArrived

\* A wasm send looks at the channel.
LEMMA WasmCheckOpen ==
  ASSUME Base, NEW t \in Generations, Rest2, CheckReliableOpen(t)
  PROVE  Base' /\ Rests
<1>1. worker[t].at = "open" /\ worker[t].msg # 0 /\ Wasm
  BY TaskFacts DEF CheckReliableOpen, Sensible, NoJob
<1>2. CASE Failed(t)
  BY <1>1, <1>2, WasmFails DEF WithId
<1>3. CASE To(t, "await-open")
  BY <1>1, <1>3, WasmMoves DEF OfLink, OnLink, WithId, WasmPlaces
<1>4. CASE To(t, "opened") /\ Opened(chan[worker[t].link])
  BY <1>1, <1>4, WasmMoves DEF OfLink, OnLink, WithId, WasmPlaces
<1> QED
  BY <1>2, <1>3, <1>4 DEF CheckReliableOpen, Opened

\* A wasm send is refused, or gives up waiting.
LEMMA WasmWaits ==
  ASSUME Base, NEW t \in Generations, Rest2, Refused(t) \/ AwaitTimeout(t)
  PROVE  Base' /\ Rests
<1>1. worker[t].at \in {"refused", "await-link", "await-open"} /\ worker[t].msg # 0 /\ Wasm /\ Failed(t)
  BY TaskFacts DEF Refused, AwaitTimeout, Ready, Sensible, NoJob
<1> QED
  BY <1>1, WasmFails DEF WithId

\* The buffer has drained for a wasm send.
LEMMA WasmDrained ==
  ASSUME Base, NEW t \in Generations, Rest2, Drained(t)
  PROVE  Base' /\ Rests
<1>1. worker[t].at = "await-drain" /\ worker[t].msg # 0 /\ Wasm
  BY TaskFacts DEF Drained, Ready, Sensible, NoJob
<1>2. CASE chan[worker[t].link].closed /\ Failed(t)
  BY <1>1, <1>2, WasmFails DEF Opened
<1>3. CASE To(t, "burst")
  BY <1>1, <1>3, WasmMoves DEF OfLink, OnLink, WithId, WasmPlaces
<1> QED
  BY <1>2, <1>3 DEF Drained

\* A wasm send takes the id of its message.
LEMMA WasmNextId ==
  ASSUME Base, NEW t \in Generations, Rest2, NextId(t)
  PROVE  Base' /\ TakesId(t)
<1> DEFINE n == worker[t].link
           next == chan[n].nextId
           w == [worker[t] EXCEPT !.at = "burst", !.id = next]
<1>1. worker[t].at = "opened" /\ worker[t].seq = 0 /\ n \in LinkIds /\ chan[n] \in LinkState /\ Wasm
  BY TaskFacts DEF NextId, Ready, Sensible, OfLink, OnLink, WithId, Base, Typed, LinksTyped
<1>2. next \in 0 .. IdSpace - 1
  BY <1>1 DEF LinkState
<1>3. worker' = [worker EXCEPT ![t] = w]
  BY DEF NextId, Base, Typed, TasksTyped
<1>4. w \in Task /\ w.at = "burst" /\ w.id = next /\ w.link = n /\ w.gen = worker[t].gen
      /\ w.msg = worker[t].msg /\ w.seq = 0
  <2> HIDE DEF next
  <2> QED
    BY <1>1, <1>2, TaskFacts DEF Task, Places
<1> HIDE DEF w
<1>5. Sensible(t, w)
  BY <1>1, <1>4, TaskFacts DEF Sensible, OfLink, OnLink, WithId, NoJob, Wasm, WasmPlaces
<1>6. MayBecome(t, w)
  BY <1>1, <1>4, <1>5 DEF MayBecome, Wasm
<1> QED
  BY <1>1, <1>3, <1>4, <1>6, TakingIdStep DEF Rest2, NextId

\* A wasm send sends chunks until the buffer is full.
LEMMA WasmBurst ==
  ASSUME Base, NEW t \in Generations, Rest2, Burst(t)
  PROVE  Base' /\ (Rests \/ Sends(t))
<1> DEFINE v == worker[t]
<1>1. v.at = "burst" /\ v.msg # 0 /\ v.link \in LinkIds /\ Wasm
  BY TaskFacts DEF Burst, Sensible, OfLink, OnLink, WithId, NoJob
<1>2. CASE Failed(t) /\ (chan[v.link].closed \/ chan[v.link].state # "open")
  BY <1>1, <1>2, WasmFails DEF Opened
<1>3. CASE To(t, "await-drain")
  BY <1>1, <1>3, WasmMoves DEF OfLink, OnLink, WithId, WasmPlaces
<1>4. CASE /\ Buffered(v.link) <= HighWater /\ chan[v.link].state = "open" /\ chan' = Sent(v)
           /\ LastChunk(v) /\ Done(t, "ok") /\ rx' = rx
  <2> DEFINE w == At("next", 0)
  <2>1. /\ w \in Task /\ w.at = "next" /\ w.gen = 0 /\ w.msg = 0 /\ w.link = 0 /\ w.seq = 0
        /\ MayBecome(t, w) /\ w.at \in NoJob
    BY <1>1, NextTask
  <2>2. worker' = [worker EXCEPT ![t] = w]
    BY <1>4 DEF Done
  <2>3. QueuesTyped' /\ QueuesRest /\ outcome'[v.msg] = "ok" /\ Others(v.msg)
    BY <1>1, <1>4, DoneEffect DEF Rest2
  <2> HIDE DEF w, v
  <2>4. Base' /\ Sends(t)
    BY <1>1, <1>4, <2>1, <2>2, <2>3, SendingStep DEF Rest2, v, Buffered
  <2> QED
    BY <2>4
<1>5. CASE /\ Buffered(v.link) <= HighWater /\ chan[v.link].state = "open" /\ chan' = Sent(v)
           /\ ~LastChunk(v) /\ worker' = [worker EXCEPT ![t].seq = @ + 1]
           /\ UNCHANGED <<outcome, queue>> /\ rx' = rx
  <2> DEFINE next == worker[t].seq + 1
             w == [worker[t] EXCEPT !.seq = next]
  <2>1. worker' = [worker EXCEPT ![t] = w]
    BY <1>5 DEF Base, Typed, TasksTyped
  <2>2. w \in Task /\ w.at = "burst" /\ w.gen = v.gen /\ w.msg = v.msg /\ w.link = v.link /\ w.seq = v.seq + 1
        /\ w.id = v.id
    <3>1. next \in Nat /\ worker[t] \in Task
      BY TaskFacts
    <3>2. next = v.seq + 1
      OBVIOUS
    <3> HIDE DEF next
    <3> QED
      BY <1>1, <3>1, <3>2 DEF Task
  <2> HIDE DEF w, next
  <2>3. Sensible(t, w)
    BY <1>1, <2>2, TaskFacts DEF Sensible, OfLink, OnLink, WithId, NoJob, WasmPlaces, Wasm
  <2>4. MayBecome(t, w)
    BY <1>1, <2>2, <2>3 DEF MayBecome, Wasm
  <2>5. Others(v.msg) /\ QueuesRest /\ QueuesTyped'
    BY <1>5 DEF Others, QueuesRest, QueuesTyped, Base, Typed, Rest2
  <2> HIDE DEF v
  <2>6. Base' /\ Sends(t)
    BY <1>1, <1>5, <2>1, <2>2, <2>4, <2>5, SendingStep DEF Rest2, v, Buffered
  <2> QED
    BY <2>6
<1> QED
  BY <1>2, <1>3, <1>4, <1>5 DEF Burst

\* Each step of send_one of the wasm sender.
LEMMA WasmSendOne ==
  ASSUME Base, NEW t \in Generations, SendOneWasm(t)
  PROVE  Base' /\ (Rests \/ TakesId(t) \/ Sends(t))
<1>1. Rest2
  BY DEF SendOneWasm, Rest2
<1> QED
  BY <1>1, WasmLinkArrived, WasmCheckOpen, WasmWaits, WasmNextId, WasmBurst, WasmDrained DEF SendOneWasm

-----------------------------------------------------------------------------
\* The wasm worker takes a message, or ends.
LEMMA WasmSendWorker ==
  ASSUME Base, NEW t \in Generations, SendWorker(t)
  PROVE  Base' /\ (Rests \/ \E g \in Generations : Takes(t, g))
<1>1. /\ worker[t].at \in {"next", "spawned"} /\ worker[t].msg = 0 /\ worker[t].link = 0 /\ backend = "wasm"
      /\ worker[t].at # "ended"
  BY TaskFacts DEF SendWorker, Ready, Wasm, Sensible, NoJob, OfLink, OnLink, WithId
<1>2. UNCHANGED <<backend, game, link, made, chan, calls, outcome, current, rx, received, slow>>
  BY DEF SendWorker
<1>3. /\ Ended \in Task /\ Ended.at = "ended" /\ MayBecome(t, Ended) /\ TaskRests(worker[t], Ended)
  <2> DEFINE w == Ended
  <2>1. w \in Task /\ w.at = "ended" /\ w.msg = 0 /\ w.link = 0 /\ w.seq = 0
    BY TaskMade DEF Ended, Places
  <2> HIDE DEF w
  <2>2. Sensible(t, w)
    BY <1>1, <2>1 DEF Sensible, OfLink, OnLink, WithId, NoJob, WasmPlaces, Base, Typed, GameTyped
  <2>3. MayBecome(t, w)
    BY <1>1, <2>1, <2>2 DEF MayBecome
  <2>4. TaskRests(worker[t], w)
    BY <1>1, <2>1 DEF TaskRests, JobRests, PlaceRests, OnLink, WithId
  <2> QED
    BY <2>1, <2>3, <2>4 DEF w
<1>4. CASE current = 0
  <2>1. worker' = [worker EXCEPT ![t] = Ended] /\ UNCHANGED <<queue, running>>
    BY <1>4 DEF SendWorker
  <2> QED
    BY <1>2, <1>3, <2>1, QuietStep
<1>5. CASE current # 0 /\ queue[current] = <<>>
  <2>1. /\ worker' = [worker EXCEPT ![t] = Ended] /\ queue' = queue
        /\ running' = [running EXCEPT ![current] = FALSE]
    BY <1>5 DEF SendWorker
  <2>2. running \in [Generations -> BOOLEAN] /\ current \in Generations
    BY <1>5 DEF Base, Typed, GameTyped, Generations
  <2>3. /\ running' \in [Generations -> BOOLEAN]
        /\ \A g \in Generations : running'[g] => running[g]
    BY <2>1, <2>2
  <2>4. MayStop(Ended)
    BY <1>3, <2>3 DEF MayStop
  <2>5. QueuesTyped' /\ QueuesRest /\ Others(0)
    BY <1>2, <2>1 DEF QueuesRest, Others, QueuesTyped, Base, Typed
  <2> QED
    BY <1>2, <1>3, <2>1, <2>4, <2>5, RestingStep
<1>6. CASE current # 0 /\ queue[current] # <<>>
  <2> DEFINE g == current
             at == IF link = 0 THEN "await-link" ELSE "open"
             w == [At(at, g) EXCEPT !.msg = Head(queue[g]), !.link = link]
  <2>1. g \in Generations /\ g \in 0 .. 2 /\ link \in 0 .. made /\ link \in 0 .. MaxLinks
    BY <1>6, Constants DEF Base, Typed, GameTyped, Generations
  <2>2. worker' = [worker EXCEPT ![t] = w] /\ queue' = [queue EXCEPT ![g] = Tail(@)] /\ running' = running
    BY <1>6 DEF SendWorker
  <2>3. Head(queue[g]) # 0 /\ Head(queue[g]) \in 0 .. Messages
    BY <1>6, <2>1, QueueHead
  <2>4. at \in {"await-link", "open"} /\ at \in Places /\ (at = "open" => link # 0) /\ (at = "await-link" => link = 0)
    BY DEF Places
  <2>5. w \in Task /\ w.at = at /\ w.gen = g /\ w.link = link /\ w.seq = 0 /\ w.msg = Head(queue[g])
    <3> HIDE DEF at
    <3>1. At(at, g) \in Task /\ At(at, g).at = at /\ At(at, g).gen = g /\ At(at, g).seq = 0
      BY <2>1, <2>4, TaskMade
    <3> QED
      BY <2>1, <2>3, <3>1 DEF Task
  <2> HIDE DEF w, at
  <2>6. Sensible(t, w)
    BY <1>1, <2>1, <2>3, <2>4, <2>5 DEF Sensible, OfLink, OnLink, WithId, NoJob, WasmPlaces
  <2>7. link # 0 => \A u \in Generations \ {t} : worker[u].link = 0
    <3> SUFFICES ASSUME link # 0, NEW u \in Generations \ {t} PROVE worker[u].link = 0
      OBVIOUS
    <3>1. worker[u].at = "ended"
      BY <1>1 DEF Base, OneSender
    <3> QED
      BY <3>1, TaskFacts DEF Sensible, OfLink, OnLink, WithId
  <2>8. MayBecome(t, w)
    BY <1>1, <2>5, <2>6, <2>7 DEF MayBecome
  <2>9. w.at \notin OnLink
    BY <2>4, <2>5 DEF OnLink, WithId
  <2>11. link # 0 => game = "on"
    BY DEF Base, OneSender
  <2>12. g = 1 => \A u \in Generations \ {t} : worker[u].msg = 0 \/ worker[u].gen = 2
    <3> SUFFICES ASSUME g = 1, NEW u \in Generations \ {t} PROVE worker[u].msg = 0
      OBVIOUS
    <3>1. worker[u].at = "ended"
      BY <1>1 DEF Base, OneSender, Typed, GameTyped
    <3> QED
      BY <3>1, TaskFacts DEF Sensible, NoJob
  <2>10. Base' /\ Takes(t, g)
    BY <2>11, <2>12, <1>1, <1>2, <1>6, <2>1, <2>2, <2>5, <2>8, <2>9, TakingStep
  <2> QED
    BY <2>1, <2>10
<1> QED
  BY <1>4, <1>5, <1>6

\* send_reliable of the wasm client queues the message, with a worker for it.
LEMMA WasmQueueReliable ==
  ASSUME Base, QueueReliable
  PROVE  Base' /\ QueueInUse \in Generations /\ Calls(QueueInUse)
<1> DEFINE g == QueueInUse
           w == At("spawned", 0)
<1>1. g \in Generations /\ backend = "wasm" /\ (game = "on" => g = 1)
  BY DEF QueueInUse, Generations, Base, OneSender, Typed, GameTyped, QueueReliable, Wasm
<1>2. w \in Task /\ w.at = "spawned" /\ w.gen = 0 /\ w.msg = 0 /\ w.link = 0 /\ w.seq = 0
  BY TaskMade DEF Places
<1>3. \A t \in Generations : Sensible(t, w)
  BY <1>1, <1>2 DEF Sensible, OfLink, OnLink, WithId, NoJob, WasmPlaces, Base, Typed, GameTyped
<1>4. \/ running[g] /\ worker' = worker
      \/ ~running[g] /\ \E t \in Asleep : worker' = [worker EXCEPT ![t] = w]
  BY DEF QueueReliable
<1>5. running' = [running EXCEPT ![g] = TRUE]
  BY DEF QueueReliable
<1> HIDE DEF w, g
<1>6. running \in [Generations -> BOOLEAN]
  BY DEF Base, Typed, GameTyped
<1>7. running' \in [Generations -> BOOLEAN] /\ running'[g]
  BY <1>1, <1>5, <1>6
<1>8. CASE running[g] /\ worker' = worker
  <2>1. TasksTyped' /\ Placed'
    BY <1>8, PlacedStays DEF Base, Typed, TasksTyped, QueueReliable
  <2>2. game = "on" =>
          \A t, u \in Generations : worker'[t].at # "ended" => running'[1] /\ (t = u \/ worker'[u].at = "ended")
    BY <1>1, <1>7, <1>8 DEF Base, OneSender
  <2> QED
    BY <1>1, <1>7, <1>8, <2>1, <2>2, CallingStep DEF QueueReliable, g
<1>9. ASSUME ~running[g], NEW t \in Asleep, worker' = [worker EXCEPT ![t] = w]
      PROVE  Base' /\ QueueInUse \in Generations /\ Calls(QueueInUse)
  <2>0. t \in Generations /\ worker[t].at = "ended"
    BY DEF Asleep
  <2>1. Becomes(t, w)
    BY <1>2, <1>9, <2>0, TaskChange DEF Base, Typed
  <2>2. TasksTyped' /\ \A u \in Generations : worker'[u] = worker[u] \/ (u = t /\ worker'[u] = w)
    BY <2>1 DEF Becomes, TasksTyped
  <2>3. Placed'
    BY <1>3, <2>2, PlacedStays DEF QueueReliable
  <2>4. \A u \in Generations :
           worker'[u] = worker[u] \/ (worker[u].at = "ended" /\ worker'[u].msg = 0 /\ worker'[u].at \in NoJob)
    BY <1>2, <2>0, <2>2 DEF NoJob
  <2>5. game = "on" =>
          \A u, v \in Generations : worker'[u].at # "ended" => running'[1] /\ (u = v \/ worker'[v].at = "ended")
    <3> SUFFICES ASSUME game = "on", NEW u \in Generations, NEW v \in Generations, worker'[u].at # "ended"
                 PROVE  running'[1] /\ (u = v \/ worker'[v].at = "ended")
      OBVIOUS
    <3>1. \A k \in Generations : worker[k].at = "ended"
      BY <1>1, <1>9 DEF Base, OneSender
    <3>2. u = t
      BY <2>2, <3>1
    <3>3. v # t => worker'[v].at = "ended"
      BY <2>2, <3>1
    <3> QED
      BY <1>1, <1>7, <3>2, <3>3
  <2> QED
    BY <1>1, <1>7, <2>2, <2>3, <2>4, <2>5, CallingStep DEF QueueReliable, g
<1> QED
  BY <1>4, <1>8, <1>9 DEF g
-----------------------------------------------------------------------------
(* The links of the wasm client *)

\* Task t is told of its link, and goes on as w.
Tells(t, w) ==
  /\ w \in Task /\ Sensible(t, w)' /\ TaskRests(worker[t], w)
  /\ worker[t].at # "ended" /\ w.at # "ended"
  /\ w.link = worker[t].link \/ (game = "on" /\ backend = "wasm")

\* A step of the wasm client on its links: those who wait on them are told.
LEMMA WasmLinks ==
  ASSUME Base, backend = "wasm", LinksMove, made' >= made, GameTyped', QueuesTyped', QueuesRest, Others(0),
         UNCHANGED <<backend, calls, running, received, slow>>,
         worker' = [t \in Generations |-> worker'[t]],
         \A t \in Generations : worker'[t] = worker[t] \/ \E w \in Task : worker'[t] = w /\ Tells(t, w),
         \/ UNCHANGED <<game, current>> /\ (link' # 0 => game = "on")
         \/ game' # "on" /\ link' = 0 /\ current' = 0,
         rx' = rx \/ \E n \in LinkIds : rx' = Receiver(n) /\ chan[n].state = "connecting" /\ chan'[n].state # "connecting"
  PROVE  Base' /\ Rests
<1>1. \A t \in Generations : worker'[t] \in Task
  BY TaskFacts
<1>2. TasksTyped'
  BY <1>1 DEF TasksTyped
<1>3. \A t \in Generations : worker'[t] = worker[t] \/ Sensible(t, worker[t])'
  <2> SUFFICES ASSUME NEW t \in Generations, NEW w \in Task, worker'[t] = w, Tells(t, w)
               PROVE  Sensible(t, worker[t])'
    OBVIOUS
  <2>1. Sensible(t, w)'
    BY DEF Tells
  <2> QED
    BY <2>1 DEF Sensible
<1>4. /\ Typed' /\ Placed' /\ LinksOpened'
      /\ \A n \in LinkIds : LinkRests(chan[n], chan'[n])
      /\ \/ rx' = rx
         \/ rx'.link \in LinkIds /\ rx'.inflight = [i \in {} |-> 0] /\ chan[rx'.link].state = "connecting"
  BY <1>2, <1>3, LinksStep
<1>5. OneSender'
  <2>1. \A t \in Generations : \/ worker'[t].link = worker[t].link
                               \/ game = "on" /\ worker[t].at # "ended"
    BY DEF Tells
  <2>2. \A t \in Generations : worker[t].at = "ended" <=> worker'[t].at = "ended"
    BY DEF Tells
  <2>3. \A t \in Generations : worker[t].at = "ended" => worker[t].link = 0 /\ worker'[t].link = 0
    BY TaskFacts DEF Tells, Sensible, OfLink, OnLink, WithId
  <2>4. \A t, u \in Generations : t # u => worker'[t].link = 0 \/ worker'[u].link = 0
    <3> SUFFICES ASSUME NEW t \in Generations, NEW u \in Generations, t # u
                 PROVE  worker'[t].link = 0 \/ worker'[u].link = 0
      OBVIOUS
    <3>1. worker[t].link = 0 \/ worker[u].link = 0
      BY DEF Base, OneSender
    <3>2. game = "on" => worker[t].at = "ended" \/ worker[u].at = "ended"
      BY DEF Base, OneSender
    <3> QED
      BY <2>1, <2>3, <3>1, <3>2
  <2>5. /\ game' # "on" => link' = 0 /\ current' # 1
        /\ game' = "on" => current' # 2
    BY DEF Base, OneSender
  <2>6. game' = "on" => game = "on" /\ current' = current
    OBVIOUS
  <2> QED
    BY <2>2, <2>4, <2>5, <2>6 DEF Base, OneSender
<1>6. \A t \in Generations : TaskRests(worker[t], worker'[t])
  BY RestsAlone DEF Tells
<1>7. Rests
  BY <1>4, <1>6 DEF Rests
<1> QED
  BY <1>4, <1>5, <1>7 DEF Base

-----------------------------------------------------------------------------
\* Who waits for link n is told that it opened, or that it is closed.
LEMMA ToldTells ==
  ASSUME Base, backend = "wasm", NEW n \in Nat, NEW at \in {"opened", "refused"}, NEW t \in Generations,
         made' >= made, made' \in Nat, backend' = backend,
         at = "opened" => chan'[n].state = "open" /\ chan'[n].wire = <<>>,
         worker'[t] = Told(n, at)[t]
  PROVE  worker'[t] = worker[t] \/ \E w \in Task : worker'[t] = w /\ Tells(t, w)
<1> SUFFICES ASSUME worker[t].at = "await-open", worker[t].link = n,
                    worker'[t] = [worker[t] EXCEPT !.at = at]
             PROVE  \E w \in Task : worker'[t] = w /\ Tells(t, w)
  BY DEF Told
<1> DEFINE d == [worker[t] EXCEPT !.at = at]
<1>1. at \in Places /\ TasksTyped
  BY DEF Base, Typed, Places
<1>10. d \in Task /\ d.at = at /\ d.gen = worker[t].gen /\ d.msg = worker[t].msg
      /\ d.link = worker[t].link /\ d.id = worker[t].id /\ d.seq = worker[t].seq
  BY ONLY <1>1, t \in Generations, TaskMoved
<1> PICK w : w = d
  OBVIOUS
<1>3. worker'[t] = w
  OBVIOUS
<1> HIDE DEF d
<1>2. w \in Task /\ w.at = at /\ w.gen = worker[t].gen /\ w.msg = worker[t].msg
      /\ w.link = worker[t].link /\ w.id = worker[t].id /\ w.seq = worker[t].seq
  BY <1>10
<1>4. worker[t].link \in 0 .. made' /\ made \in Nat
  BY TaskFacts, Constants DEF Sensible, Base, Typed, GameTyped
<1>8. worker[t].msg # 0 /\ worker[t].gen \in Generations /\ worker[t].seq = 0 /\ worker[t].link # 0
  BY TaskFacts DEF Sensible, OfLink, OnLink, WithId, NoJob
<1>9. w.at \in OnLink => chan'[w.link].state # "connecting"
  BY <1>2 DEF OnLink, WithId
<1>5. Sensible(t, w)'
  BY <1>2, <1>4, <1>8, <1>9 DEF Sensible, OfLink, OnLink, WithId, NoJob, WasmPlaces
<1>6. TaskRests(worker[t], w)
  BY <1>2 DEF TaskRests, JobRests, PlaceRests, OnLink, WithId
<1>7. Tells(t, w)
  BY <1>2, <1>5, <1>6 DEF Tells
<1> QED
  BY <1>2, <1>3, <1>7

\* The backend and the links, where the client is the wasm one.
LEMMA WasmGame ==
  ASSUME Base, Wasm
  PROVE  backend = "wasm" /\ made \in Nat /\ link \in Nat
BY Constants DEF Base, Typed, GameTyped, Wasm

\* Queues and outcomes that are left alone.
LEMMA QueuesLeft ==
  ASSUME Base, UNCHANGED <<outcome, queue, calls>>
  PROVE  QueuesTyped' /\ QueuesRest /\ Others(0)
BY DEF QueuesRest, Others, QueuesTyped, Base, Typed

\* create_link of the wasm client.
LEMMA WasmCreateLink ==
  ASSUME Base, CreateLinkWasm
  PROVE  Base' /\ Rests
<1>0. backend = "wasm" /\ made \in Nat /\ link \in Nat
  BY WasmGame DEF CreateLinkWasm
<1>1. LinksMove
  BY ShutMoves DEF CreateLinkWasm
<1>2. GameTyped' /\ made' >= made /\ made' \in Nat /\ made' = made + 1 /\ made + 1 \in 0 .. MaxLinks
  BY <1>0, Constants DEF CreateLinkWasm, Base, Typed, GameTyped
<1>3. game = "on" /\ game' = game /\ current' = current
  BY DEF CreateLinkWasm
<1>4. worker' = [t \in Generations |->
         IF worker[t].at = "await-link" /\ worker[t].link = 0
           THEN [worker[t] EXCEPT !.link = made + 1] ELSE Told(link, "refused")[t]]
  BY DEF CreateLinkWasm
<1>5. ASSUME NEW t \in Generations
      PROVE  worker'[t] = worker[t] \/ \E w \in Task : worker'[t] = w /\ Tells(t, w)
  <2>1. CASE worker[t].at = "await-link" /\ worker[t].link = 0
    <3> DEFINE next == made + 1
               d == [worker[t] EXCEPT !.link = next]
    <3>9. d \in Task /\ d.at = worker[t].at /\ d.gen = worker[t].gen /\ d.msg = worker[t].msg
          /\ d.link = next /\ d.seq = worker[t].seq
      <4>1. worker[t] \in Task /\ next \in 0 .. MaxLinks
        BY <1>2, TaskFacts
      <4> HIDE DEF next
      <4> QED
        BY <4>1 DEF Task
    <3> PICK w : w = d
      OBVIOUS
    <3>2. worker'[t] = w
      BY <1>4, <2>1
    <3>3. next \in 0 .. made'
      BY <1>0, <1>2
    <3> HIDE DEF d, next
    <3>1. w \in Task /\ w.at = worker[t].at /\ w.gen = worker[t].gen /\ w.msg = worker[t].msg
          /\ w.link = next /\ w.seq = worker[t].seq
      BY <3>9
    <3>7. worker[t].msg # 0 /\ worker[t].gen \in Generations /\ worker[t].seq = 0
      BY <2>1, TaskFacts DEF Sensible, OfLink, OnLink, WithId, NoJob
    <3>8. backend' = "wasm" /\ w.at = "await-link" /\ w.msg # 0 /\ w.gen \in Generations /\ w.seq = 0 /\ w.link \in 0 .. made'
      BY <1>0, <2>1, <3>1, <3>3, <3>7 DEF CreateLinkWasm
    <3>4. Sensible(t, w)'
      BY <3>8 DEF Sensible, OfLink, OnLink, WithId, NoJob, WasmPlaces
    <3>5. TaskRests(worker[t], w)
      BY <1>3, <2>1, <3>1 DEF TaskRests, JobRests, PlaceRests, OnLink, WithId
    <3>6. Tells(t, w)
      BY <1>0, <1>3, <2>1, <3>1, <3>4, <3>5 DEF Tells
    <3> QED
      BY <3>1, <3>2, <3>6
  <2>2. CASE ~(worker[t].at = "await-link" /\ worker[t].link = 0)
    <3>1. worker'[t] = Told(link, "refused")[t]
      BY <1>4, <2>2
    <3> QED
      BY <1>0, <1>2, <3>1, ToldTells DEF CreateLinkWasm
  <2> QED
    BY <2>1, <2>2
<1>6. worker' = [t \in Generations |-> worker'[t]]
  BY <1>4
<1>7. QueuesTyped' /\ QueuesRest /\ Others(0)
  BY QueuesLeft DEF CreateLinkWasm
<1> QED
  BY <1>0, <1>1, <1>2, <1>3, <1>5, <1>6, <1>7, WasmLinks DEF CreateLinkWasm

\* close_peer of the wasm client.
LEMMA WasmClosePeer ==
  ASSUME Base, ClosePeerWasm
  PROVE  Base' /\ Rests
<1>0. backend = "wasm" /\ made \in Nat /\ link \in Nat
  BY WasmGame DEF ClosePeerWasm
<1>1. LinksMove
  BY ShutMoves DEF ClosePeerWasm
<1>2. GameTyped' /\ made' = made /\ made' >= made /\ link' = 0
  BY <1>0 DEF ClosePeerWasm, Base, Typed, GameTyped
<1>3. worker' = Told(link, "refused")
  BY DEF ClosePeerWasm
<1>5. ASSUME NEW t \in Generations
      PROVE  worker'[t] = worker[t] \/ \E w \in Task : worker'[t] = w /\ Tells(t, w)
  BY <1>0, <1>2, <1>3, ToldTells DEF ClosePeerWasm
<1>6. worker' = [t \in Generations |-> worker'[t]]
  BY <1>3 DEF Told
<1>7. QueuesTyped' /\ QueuesRest /\ Others(0)
  BY QueuesLeft DEF ClosePeerWasm
<1> QED
  BY <1>0, <1>1, <1>2, <1>5, <1>6, <1>7, WasmLinks DEF ClosePeerWasm

\* teardown of the wasm client.
LEMMA WasmTeardown ==
  ASSUME Base, TeardownPeersWasm
  PROVE  Base' /\ Rests
<1>0. backend = "wasm" /\ made \in Nat /\ link \in Nat
  BY WasmGame DEF TeardownPeersWasm
<1>1. LinksMove
  BY ShutMoves DEF TeardownPeersWasm
<1>2. GameTyped' /\ made' = made /\ made' >= made /\ link' = 0 /\ current' = 0 /\ game' # "on"
  BY <1>0 DEF TeardownPeersWasm, Base, Typed, GameTyped
<1>3. worker' = Told(link, "refused")
  BY DEF TeardownPeersWasm
<1>5. ASSUME NEW t \in Generations
      PROVE  worker'[t] = worker[t] \/ \E w \in Task : worker'[t] = w /\ Tells(t, w)
  BY <1>0, <1>2, <1>3, ToldTells DEF TeardownPeersWasm
<1>6. worker' = [t \in Generations |-> worker'[t]]
  BY <1>3 DEF Told
<1>7. QueuesTyped' /\ QueuesRest /\ Others(0)
  <2>1. CASE UNCHANGED <<outcome, queue>>
    BY <2>1, QueuesLeft DEF TeardownPeersWasm
  <2>2. CASE /\ current # 0
             /\ outcome' = [m \in 1 .. Messages |->
                  IF \E i \in DOMAIN queue[current] : queue[current][i] = m THEN "failed" ELSE outcome[m]]
             /\ queue' = [queue EXCEPT ![current] = <<>>]
    <3>1. current \in Generations
      BY <2>2 DEF Base, Typed, GameTyped, Generations
    <3>2. queue \in [Generations -> Seq(1 .. Messages)] /\ outcome \in [1 .. Messages -> {"none", "ok", "failed"}]
          /\ calls' \in 0 .. Messages
      BY DEF Base, Typed, QueuesTyped, TeardownPeersWasm
    <3>3. <<>> \in Seq(1 .. Messages)
      OBVIOUS
    <3>4. queue' \in [Generations -> Seq(1 .. Messages)] /\ QueuesRest /\ queue'[current] = <<>>
      BY <2>2, <3>1, <3>2, <3>3 DEF QueuesRest
    <3>5. DOMAIN queue[current] = 1 .. Len(queue[current])
      BY <3>1, <3>2
    <3>6. /\ outcome' \in [1 .. Messages -> {"none", "ok", "failed"}]
          /\ \A k \in 1 .. Messages : \/ outcome'[k] = outcome[k]
                                      \/ outcome'[k] = "failed" /\ \E i \in 1 .. Len(queue[current]) : queue[current][i] = k
      BY <2>2, <3>2, <3>5
    <3>7. Others(0)
      BY <3>1, <3>4, <3>6 DEF Others, GivenUp
    <3> QED
      BY <3>2, <3>4, <3>6, <3>7 DEF QueuesTyped
  <2> QED
    BY <2>1, <2>2 DEF TeardownPeersWasm
<1> QED
  BY <1>0, <1>1, <1>2, <1>5, <1>6, <1>7, WasmLinks DEF TeardownPeersWasm

\* The wasm channel opens.
LEMMA WasmOnOpen ==
  ASSUME Base, NEW n \in LinkIds, OnOpenWasm(n)
  PROVE  Base' /\ Rests
<1>0. backend = "wasm" /\ made \in Nat /\ link \in Nat /\ n \in Nat
  BY WasmGame DEF OnOpenWasm, LinkIds
<1> PICK c \in LinkState : c = chan[n]
  BY LinkParts
<1>1. LinksMove /\ chan'[n].state = "open" /\ chan'[n].wire = <<>>
  <2> DEFINE d == [chan[n] EXCEPT !.state = "open", !.ring = chan[n].ring, !.cut = chan[n].cut]
             e == [chan[n] EXCEPT !.state = "open"]
  <2>1. e = d
    <3>1. [c EXCEPT !.state = "open"] = [c EXCEPT !.state = "open", !.ring = c.ring, !.cut = c.cut]
      BY DEF LinkState
    <3> QED
      BY <3>1
  <2>2. chan' = [chan EXCEPT ![n] = e]
    BY DEF OnOpenWasm
  <2> HIDE DEF e
  <2>3. chan' = [chan EXCEPT ![n] = d]
    BY <2>1, <2>2
  <2>4. LinksMove /\ chan'[n].state = "open" /\ chan'[n].wire = chan[n].wire
    BY <2>3, LinkParts, OneMoves DEF OnOpenWasm
  <2>5. chan[n].wire = <<>>
    BY DEF OnOpenWasm, Base, LinksOpened
  <2> QED
    BY <2>4, <2>5
<1>2. GameTyped' /\ made' = made /\ made' >= made /\ link' = link
  BY <1>0 DEF OnOpenWasm, Base, Typed, GameTyped
<1>3. worker' = Told(n, "opened")
  BY DEF OnOpenWasm
<1>5. ASSUME NEW t \in Generations
      PROVE  worker'[t] = worker[t] \/ \E w \in Task : worker'[t] = w /\ Tells(t, w)
  BY <1>0, <1>1, <1>2, <1>3, ToldTells DEF OnOpenWasm
<1>6. worker' = [t \in Generations |-> worker'[t]]
  BY <1>3 DEF Told
<1>7. QueuesTyped' /\ QueuesRest /\ Others(0)
  BY QueuesLeft DEF OnOpenWasm
<1>8. link' # 0 => game = "on"
  BY <1>2 DEF Base, OneSender
<1>9. rx' = Receiver(n) /\ chan[n].state = "connecting" /\ chan'[n].state # "connecting"
  BY <1>1 DEF OnOpenWasm
<1> QED
  BY <1>0, <1>1, <1>2, <1>5, <1>6, <1>7, <1>8, <1>9, WasmLinks DEF OnOpenWasm

\* The wasm channel closes.
LEMMA WasmOnClose ==
  ASSUME Base, NEW n \in LinkIds, OnCloseWasm(n)
  PROVE  Base' /\ Rests
<1>0. backend = "wasm" /\ made \in Nat /\ link \in Nat /\ n \in Nat
  BY WasmGame DEF OnCloseWasm, LinkIds
<1> PICK c \in LinkState : c = chan[n]
  BY LinkParts
<1>1. LinksMove
  <2> DEFINE d == [chan[n] EXCEPT !.state = "closed", !.ring = chan[n].ring, !.cut = chan[n].cut]
             e == [chan[n] EXCEPT !.state = "closed"]
  <2>1. e = d
    <3>1. [c EXCEPT !.state = "closed"] = [c EXCEPT !.state = "closed", !.ring = c.ring, !.cut = c.cut]
      BY DEF LinkState
    <3> QED
      BY <3>1
  <2>2. chan' = [chan EXCEPT ![n] = e]
    <3>1. chan \in [LinkIds -> LinkState]
      BY DEF Base, Typed, LinksTyped
    <3> QED
      BY <3>1 DEF OnCloseWasm
  <2> HIDE DEF e
  <2>3. chan' = [chan EXCEPT ![n] = d]
    BY <2>1, <2>2
  <2> QED
    BY <2>3, LinkParts, OneMoves DEF OnCloseWasm
<1>2. GameTyped' /\ made' = made /\ made' >= made /\ link' = link
  BY <1>0 DEF OnCloseWasm, Base, Typed, GameTyped
<1>3. worker' = Told(n, "refused")
  BY DEF OnCloseWasm
<1>5. ASSUME NEW t \in Generations
      PROVE  worker'[t] = worker[t] \/ \E w \in Task : worker'[t] = w /\ Tells(t, w)
  BY <1>0, <1>2, <1>3, ToldTells DEF OnCloseWasm
<1>6. worker' = [t \in Generations |-> worker'[t]]
  BY <1>3 DEF Told
<1>7. QueuesTyped' /\ QueuesRest /\ Others(0)
  BY QueuesLeft DEF OnCloseWasm
<1>8. link' # 0 => game = "on"
  BY <1>2 DEF Base, OneSender
<1> QED
  BY <1>0, <1>1, <1>2, <1>5, <1>6, <1>7, <1>8, WasmLinks DEF OnCloseWasm

-----------------------------------------------------------------------------
(* Reassembly *)

\* The chunks that frame f adds to.
Joins(inflight, f) == f.id \in DOMAIN inflight /\ ~inflight[f.id].old /\ inflight[f.id].total = f.total

\* The entry a frame is put in has its chunk, and those it had if it was not pruned.
LEMMA EntryEffect ==
  ASSUME NEW inflight, \A i \in DOMAIN inflight : IsEntry(inflight[i]), NEW f \in Packet,
         NEW e, e = Entry(Prune(inflight), f)
  PROVE  /\ IsEntry(e) /\ e.total = f.total /\ ~e.old
         /\ f.seq \in DOMAIN e.chunks
         /\ Joins(inflight, f) =>
              /\ DOMAIN e.chunks = DOMAIN inflight[f.id].chunks \cup {f.seq}
              /\ \A s \in DOMAIN inflight[f.id].chunks : e.chunks[s] = inflight[f.id].chunks[s]
              /\ f.seq \notin DOMAIN inflight[f.id].chunks => e.chunks[f.seq] = f.msg
         /\ ~Joins(inflight, f) => DOMAIN e.chunks = {f.seq} /\ e.chunks[f.seq] = f.msg
<1> DEFINE kept == Prune(inflight)
           b == IF f.id \in DOMAIN kept /\ kept[f.id].total = f.total THEN kept[f.id] ELSE NewEntry(f)
           k == [s \in DOMAIN b.chunks \cup {f.seq} |-> IF s = f.seq THEN f.msg ELSE b.chunks[s]]
<1>1. f.seq \in Nat /\ f.total \in Nat
  BY DEF Packet
<1>2. \A i : i \in DOMAIN kept <=> i \in DOMAIN inflight /\ ~inflight[i].old
  BY DEF Prune
<1>3. \A i \in DOMAIN kept : kept[i] = inflight[i]
  BY DEF Prune
<1>4. /\ NewEntry(f) = [total |-> f.total, chunks |-> NewEntry(f).chunks, old |-> FALSE]
      /\ NewEntry(f).total = f.total /\ NewEntry(f).old = FALSE /\ DOMAIN NewEntry(f).chunks = {}
  BY DEF NewEntry
<1>5. /\ b = [total |-> b.total, chunks |-> b.chunks, old |-> b.old]
      /\ b.total = f.total /\ b.old = FALSE /\ DOMAIN b.chunks \subseteq Nat
      /\ Joins(inflight, f) => b = inflight[f.id]
      /\ ~Joins(inflight, f) => DOMAIN b.chunks = {}
  <2>1. Joins(inflight, f) <=> f.id \in DOMAIN kept /\ kept[f.id].total = f.total
    <3> HIDE DEF kept
    <3> QED
      BY <1>2, <1>3 DEF Joins
  <2>2. CASE Joins(inflight, f)
    <3>1. b = inflight[f.id]
      BY <1>3, <2>1, <2>2
    <3>2. IsEntry(inflight[f.id]) /\ ~inflight[f.id].old /\ inflight[f.id].total = f.total
      BY <2>2 DEF Joins
    <3> HIDE DEF b
    <3> QED
      BY <2>2, <3>1, <3>2 DEF IsEntry
  <2>3. CASE ~Joins(inflight, f)
    <3>1. b = NewEntry(f)
      BY <2>1, <2>3
    <3> HIDE DEF b
    <3> QED
      BY <2>3, <3>1, <1>4
  <2> QED
    BY <2>2, <2>3
<1>6. e = IF f.seq \in DOMAIN b.chunks THEN b ELSE [b EXCEPT !.chunks = k]
  BY DEF Entry
<1> HIDE DEF b
<1>7. DOMAIN k = DOMAIN b.chunks \cup {f.seq} /\ k[f.seq] = f.msg
      /\ \A s \in DOMAIN b.chunks : s # f.seq => k[s] = b.chunks[s]
  OBVIOUS
<1> HIDE DEF k
<1>8. CASE f.seq \in DOMAIN b.chunks
  <2>1. e = b
    BY <1>6, <1>8
  <2>2. DOMAIN e.chunks = DOMAIN b.chunks \cup {f.seq}
    BY <1>8, <2>1
  <2>3. IsEntry(e) /\ e.total = f.total /\ ~e.old
    BY <1>1, <1>5, <2>1 DEF IsEntry
  <2> QED
    BY <1>5, <1>8, <2>1, <2>2, <2>3
<1>9. CASE f.seq \notin DOMAIN b.chunks
  <2>1. e = [total |-> b.total, chunks |-> k, old |-> b.old]
    BY <1>5, <1>6, <1>9
  <2>2. e.total = f.total /\ e.old = FALSE /\ e.chunks = k
    BY <1>5, <2>1
  <2>3. IsEntry(e)
    BY <1>1, <1>5, <1>7, <2>1, <2>2 DEF IsEntry
  <2>4. \A s \in DOMAIN b.chunks : e.chunks[s] = b.chunks[s]
    BY <1>7, <1>9, <2>2
  <2> QED
    BY <1>5, <1>7, <1>9, <2>2, <2>3, <2>4
<1> QED
  BY <1>8, <1>9

\* What is left of the entries, and what is handed on.
LEMMA PushEffect ==
  ASSUME NEW inflight, \A i \in DOMAIN inflight : IsEntry(inflight[i]), NEW f \in Packet,
         NEW e, e = Entry(Prune(inflight), f), NEW p, p = Push(inflight, f)
  PROVE  /\ DOMAIN p.inflight \subseteq DOMAIN inflight \cup {f.id}
         /\ \A i \in DOMAIN p.inflight : \/ i # f.id /\ i \in DOMAIN inflight /\ p.inflight[i] = inflight[i]
                                         \/ i = f.id /\ p.inflight[i] = e
         /\ \A i \in DOMAIN p.inflight : IsEntry(p.inflight[i])
         /\ \/ Complete(e) /\ p.out = <<Assembled(e)>> /\ f.id \notin DOMAIN p.inflight
            \/ ~Complete(e) /\ p.out = <<>> /\ f.id \in DOMAIN p.inflight /\ p.inflight[f.id] = e
         /\ \A i \in DOMAIN inflight : i # f.id /\ ~inflight[i].old => i \in DOMAIN p.inflight
<1> DEFINE kept == Prune(inflight)
           rest == {i \in DOMAIN kept : i # f.id}
<1>1. /\ \A i : i \in DOMAIN kept <=> i \in DOMAIN inflight /\ ~inflight[i].old
      /\ \A i \in DOMAIN kept : kept[i] = inflight[i]
  BY DEF Prune
<1>2. IsEntry(e)
  BY EntryEffect
<1>3. p = IF Complete(e)
            THEN [inflight |-> [i \in rest |-> kept[i]], out |-> <<Assembled(e)>>]
            ELSE [inflight |-> [i \in rest \cup {f.id} |-> IF i = f.id THEN e ELSE kept[i]], out |-> <<>>]
  BY DEF Push
<1> HIDE DEF kept
<1>4. CASE Complete(e)
  <2>1. p.inflight = [i \in rest |-> kept[i]] /\ p.out = <<Assembled(e)>>
    BY <1>3, <1>4
  <2>2. DOMAIN p.inflight = rest /\ \A i \in rest : p.inflight[i] = kept[i]
    BY <2>1
  <2> QED
    BY <1>1, <1>4, <2>1, <2>2
<1>5. CASE ~Complete(e)
  <2>1. p.inflight = [i \in rest \cup {f.id} |-> IF i = f.id THEN e ELSE kept[i]] /\ p.out = <<>>
    BY <1>3, <1>5
  <2>2. DOMAIN p.inflight = rest \cup {f.id} /\ p.inflight[f.id] = e /\ \A i \in rest : p.inflight[i] = kept[i]
    BY <2>1
  <2> QED
    BY <1>1, <1>2, <1>5, <2>1, <2>2
<1> QED
  BY <1>4, <1>5

\* What a delivery does to the link.
LEMMA DeliverLink ==
  ASSUME Base, NEW n \in LinkIds, Deliver(n)
  PROVE  /\ chan' \in [LinkIds -> LinkState]
         /\ chan[n].wire \in Seq(Packet) /\ chan[n].wire # <<>> /\ Head(chan[n].wire) \in Packet
         /\ chan'[n].wire = Tail(chan[n].wire) /\ chan'[n].state = chan[n].state
         /\ chan'[n].nextId = chan[n].nextId /\ chan'[n].done = chan[n].done /\ chan'[n].closed = chan[n].closed
         /\ \A k \in LinkIds \ {n} : chan'[k] = chan[k]
<1> PICK c \in LinkState : c = chan[n]
  BY LinkParts
<1> DEFINE rest == Tail(c.wire)
           d == [c EXCEPT !.wire = rest]
<1>1. c.wire \in Seq(Packet) /\ c.wire # <<>>
  BY DEF Deliver, LinkState
<1>2. rest \in Seq(Packet) /\ Head(c.wire) \in Packet
  BY <1>1, Tails
<1>3. chan' = [chan EXCEPT ![n] = d]
  BY DEF Deliver, Base, Typed, LinksTyped
<1> HIDE DEF rest
<1>4. d \in LinkState /\ d.wire = rest /\ d.state = c.state /\ d.nextId = c.nextId /\ d.done = c.done /\ d.closed = c.closed
  BY <1>2 DEF LinkState
<1> HIDE DEF d
<1>5. LinkBecomes(n, d)
  BY <1>3, <1>4, LinkChange DEF Base, Typed
<1> QED
  BY <1>1, <1>2, <1>4, <1>5 DEF LinkBecomes, rest

\* What a delivery does to the receiver.
LEMMA DeliverRx ==
  ASSUME Base, NEW n \in LinkIds, Deliver(n)
  PROVE  LET f == Head(chan[n].wire)
             e == Entry(Prune(rx.inflight), f)
         IN /\ RxTyped' /\ rx'.link = rx.link
            /\ \/ UNCHANGED <<rx, received>> /\ ~(rx.link = n /\ ParseFrame(f))
               \/ /\ rx.link = n /\ ParseFrame(f)
                  /\ rx'.inflight = Push(rx.inflight, f).inflight
                  /\ received' = received \o Push(rx.inflight, f).out
<1> DEFINE f == Head(chan[n].wire)
           p == Push(rx.inflight, f)
           I == p.inflight
<1>1. f \in Packet /\ f.id \in 0 .. IdSpace - 1
  BY DeliverLink DEF Packet
<1>2. CASE UNCHANGED <<rx, received>> /\ ~(rx.link = n /\ ParseFrame(f))
  BY <1>2 DEF Base, Typed, RxTyped
<1>3. CASE rx.link = n /\ ParseFrame(f) /\ rx' = [rx EXCEPT !.inflight = p.inflight] /\ received' = received \o p.out
  <2>1. rx = [link |-> rx.link, inflight |-> rx.inflight] /\ rx.link \in 0 .. MaxLinks
        /\ DOMAIN rx.inflight \subseteq 0 .. IdSpace - 1
        /\ \A i \in DOMAIN rx.inflight : IsEntry(rx.inflight[i])
    BY DEF Base, Typed, RxTyped
  <2>2. rx' = [link |-> rx.link, inflight |-> I]
    BY <1>3, <2>1
  <2>3. DOMAIN I \subseteq DOMAIN rx.inflight \cup {f.id} /\ \A i \in DOMAIN I : IsEntry(I[i])
    <3> HIDE DEF f
    <3> QED
      BY <1>1, <2>1, PushEffect
  <2> HIDE DEF I
  <2>4. rx'.link = rx.link /\ rx'.inflight = I
    BY <2>2
  <2>5. RxTyped'
    BY <1>1, <2>1, <2>2, <2>3, <2>4 DEF RxTyped
  <2> QED
    BY <1>3, <2>4, <2>5 DEF I
<1> QED
  BY <1>2, <1>3 DEF Deliver

\* A delivery keeps Base.
LEMMA DeliverBase ==
  ASSUME Base, NEW n \in LinkIds, Deliver(n)
  PROVE  Base'
<1>1. RxTyped' /\ rx'.link = rx.link
  BY DeliverRx
<1>2. /\ chan' \in [LinkIds -> LinkState]
      /\ chan[n].wire # <<>>
      /\ chan'[n].state = chan[n].state
      /\ \A k \in LinkIds \ {n} : chan'[k] = chan[k]
  BY DeliverLink
<1>3. UNCHANGED <<backend, game, link, made, calls, outcome, queue, current, running, worker, slow>>
  BY DEF Deliver, Unsent
<1>4. Typed'
  BY <1>1, <1>2, <1>3 DEF Base, Typed, TasksTyped, LinksTyped, QueuesTyped, GameTyped
<1>5. \A k \in LinkIds : chan'[k].state = chan[k].state
  BY <1>2
<1>6. LinksOpened'
  <2>1. chan[n].state # "connecting"
    BY <1>2 DEF Base, LinksOpened
  <2>2. rx.link # 0 => rx.link \in LinkIds
    BY Constants DEF Base, Typed, RxTyped, LinkIds
  <2> QED
    BY <1>1, <1>2, <1>3, <1>5, <2>1, <2>2 DEF Base, LinksOpened
<1>7. Placed'
  <2> SUFFICES ASSUME NEW t \in Generations PROVE Sensible(t, worker[t])'
    BY DEF Placed
  <2>1. worker[t].at \in OnLink => worker[t].link \in LinkIds
    BY TaskFacts DEF Sensible, OfLink
  <2> QED
    BY <1>3, <1>5, <2>1 DEF Base, Placed, Sensible
<1>8. OneSender'
  BY <1>3 DEF Base, OneSender
<1> QED
  BY <1>4, <1>6, <1>7, <1>8 DEF Base

\* A slow arrival keeps Base.
LEMMA DawdleBase ==
  ASSUME Base, Dawdle
  PROVE  Base'
<1>1. UNCHANGED <<backend, game, link, made, calls, outcome, queue, current, running, worker, chan>> /\ slow' \in BOOLEAN
  BY DEF Dawdle, Unsent
<1> DEFINE r == rx'
           ids == DOMAIN rx.inflight
<1>2. r = Aged(rx, ids) /\ RxTyped
  BY DEF Dawdle, Base, Typed
<1> HIDE DEF r, ids
<1>3. /\ r = [link |-> rx.link, inflight |-> r.inflight] /\ r.link = rx.link
      /\ DOMAIN r.inflight = DOMAIN rx.inflight
      /\ \A i \in DOMAIN rx.inflight : IsEntry(r.inflight[i])
  BY <1>2, AgedTyped
<1>4. rx.link \in 0 .. MaxLinks /\ DOMAIN rx.inflight \subseteq 0 .. IdSpace - 1
  BY <1>2 DEF RxTyped
<1>5. /\ r = [link |-> r.link, inflight |-> r.inflight] /\ r.link \in 0 .. MaxLinks
      /\ DOMAIN r.inflight \subseteq 0 .. IdSpace - 1
      /\ \A i \in DOMAIN r.inflight : IsEntry(r.inflight[i])
  BY <1>3, <1>4
<1>6. RxTyped' /\ rx'.link = rx.link
  BY <1>3, <1>5 DEF r, RxTyped
<1>7. Typed'
  BY <1>1, <1>6 DEF Base, Typed, TasksTyped, LinksTyped, QueuesTyped, GameTyped
<1>8. LinksOpened'
  BY <1>1, <1>6 DEF Base, LinksOpened
<1>9. Placed'
  BY <1>1 DEF Base, Placed, Sensible
<1>10. OneSender'
  BY <1>1 DEF Base, OneSender
<1> QED
  BY <1>7, <1>8, <1>9, <1>10 DEF Base
-----------------------------------------------------------------------------
\* A step of one of the kinds.
Kinds ==
  \/ Rests \/ Dawdle
  \/ \E g \in Generations : Calls(g)
  \/ \E t \in Generations : (\E g \in Generations : Takes(t, g)) \/ TakesId(t) \/ Sends(t)
  \/ \E n \in LinkIds : Deliver(n)

\* Each step of either backend and of the connection keeps Base and is of a kind.
LEMMA StepKinds == Base /\ [Next]_vars => Base' /\ Kinds
<1> SUFFICES ASSUME Base, [Next]_vars PROVE Base' /\ Kinds
  OBVIOUS
<1>1. CASE UNCHANGED vars
  <2>1. UNCHANGED <<backend, game, link, made, chan, calls, outcome, queue, current, running, worker, rx, received, slow>>
    BY <1>1 DEF vars
  <2>2. Typed'
    BY <2>1 DEF Base, Typed, TasksTyped, LinksTyped, QueuesTyped, RxTyped, GameTyped
  <2>3. Placed'
    BY <2>1 DEF Base, Placed, Sensible
  <2>4. LinksOpened' /\ OneSender'
    BY <2>1 DEF Base, LinksOpened, OneSender
  <2>5. Rests
    BY <2>1, RestsAlone DEF Rests, QueuesRest, Others
  <2> QED
    BY <2>2, <2>3, <2>4, <2>5 DEF Base, Kinds
<1>2. CASE NativeNext
  <2>1. CASE HandleSend
    BY <2>1, NativeHandleSend DEF Kinds
  <2>2. CASE CreateLink \/ ClosePeer \/ TeardownPeers
    BY <2>2, NativeCreateLink, NativeClosePeer, NativeTeardown DEF Kinds
  <2>3. ASSUME NEW g \in Generations, SenderTask(g) \/ SendOne(g) PROVE Base' /\ Kinds
    BY <2>3, NativeSenderTask, NativeSendOne DEF Kinds
  <2>4. ASSUME NEW n \in LinkIds, OnOpen(n) \/ OnClose(n) \/ NotifyWaiters(n) PROVE Base' /\ Kinds
    BY <2>4, NativeOnOpen, NativeOnClose, NativeNotify DEF Kinds
  <2> QED
    BY <1>2, <2>1, <2>2, <2>3, <2>4 DEF NativeNext
<1>3. CASE WasmNext
  <2>1. CASE QueueReliable
    BY <2>1, WasmQueueReliable DEF Kinds
  <2>2. CASE CreateLinkWasm \/ ClosePeerWasm \/ TeardownPeersWasm
    BY <2>2, WasmCreateLink, WasmClosePeer, WasmTeardown DEF Kinds
  <2>3. ASSUME NEW t \in Generations, SendWorker(t) \/ SendOneWasm(t) PROVE Base' /\ Kinds
    BY <2>3, WasmSendWorker, WasmSendOne DEF Kinds
  <2>4. ASSUME NEW n \in LinkIds, OnOpenWasm(n) \/ OnCloseWasm(n) PROVE Base' /\ Kinds
    BY <2>4, WasmOnOpen, WasmOnClose DEF Kinds
  <2> QED
    BY <1>3, <2>1, <2>2, <2>3, <2>4 DEF WasmNext
<1>4. CASE Connection
  <2>1. CASE Dawdle
    BY <2>1, DawdleBase DEF Kinds
  <2>2. ASSUME NEW n \in LinkIds, Deliver(n) \/ Breaks(n) PROVE Base' /\ Kinds
    BY <2>2, DeliverBase, BreaksStep DEF Kinds
  <2> QED
    BY <1>4, <2>1, <2>2 DEF Connection
<1> QED
  BY <1>1, <1>2, <1>3, <1>4 DEF Next

\* Base holds at first.
LEMMA BaseInit == Init => Base
<1> SUFFICES ASSUME Init PROVE Base
  OBVIOUS
<1>1. Ended \in Task /\ Ended.at = "ended" /\ Ended.msg = 0 /\ Ended.link = 0 /\ Ended.seq = 0
  BY TaskMade DEF Ended, Places
<1>2. TasksTyped /\ \A t \in Generations : worker[t] = Ended
  BY <1>1 DEF Init, TasksTyped
<1>3. <<>> \in Seq(Packet) /\ <<>> \in Seq(1 .. Messages) /\ 0 \in 0 .. IdSpace - 1 /\ {} \in SUBSET (1 .. Messages)
  BY Constants
<1>4. NewChannel \in LinkState /\ NewChannel.state = "connecting" /\ NewChannel.wire = <<>>
  BY <1>3 DEF NewChannel, LinkState
<1>5. LinksTyped /\ \A n \in LinkIds : chan[n].state = "connecting" /\ chan[n].wire = <<>>
  BY <1>4 DEF Init, LinksTyped
<1>6. QueuesTyped
  BY <1>3, Constants DEF Init, QueuesTyped
<1>7. RxTyped /\ rx.link = 0
  <2>1. rx = [link |-> 0, inflight |-> [i \in {} |-> 0]]
    BY DEF Init, Receiver
  <2>2. rx.link = 0 /\ rx.inflight = [i \in {} |-> 0]
    BY <2>1
  <2>3. DOMAIN rx.inflight = {}
    BY <2>2
  <2> QED
    BY <2>1, <2>2, <2>3, Constants DEF RxTyped
<1>8. GameTyped
  <2>1. running \in [Generations -> BOOLEAN]
    BY DEF Init
  <2>2. link = 0 /\ made = 0 /\ current = 0 /\ game = "on" /\ backend \in {"native", "wasm"} /\ slow \in BOOLEAN
    BY DEF Init
  <2> QED
    BY <2>1, <2>2, Constants DEF GameTyped
<1>9. Placed
  <2>1. \A t \in Generations : Sensible(t, Ended)
    BY <1>1, Constants DEF Sensible, OfLink, OnLink, WithId, NoJob, NativePlaces, WasmPlaces, Init
  <2> QED
    BY <1>2, <2>1 DEF Placed
<1>10. LinksOpened /\ OneSender
  BY <1>1, <1>2, <1>5, <1>7 DEF Init, LinksOpened, OneSender, Generations
<1> QED
  BY <1>2, <1>5, <1>6, <1>7, <1>8, <1>9, <1>10 DEF Base, Typed

(* The flow of messages *)

\* The last message received, those that wait in queue g, the frames on link n, and
\* the tasks that have a message and an id.
LastReceived == IF received = <<>> THEN 0 ELSE received[Len(received)]
Waiting(g) == {queue[g][i] : i \in 1 .. Len(queue[g])}
OnWire(n) == {chan[n].wire[k] : k \in 1 .. Len(chan[n].wire)}
HasJob(t) == worker[t].msg # 0
HasId(t) == worker[t].at \in WithId

\* The messages of a queue, and of the first queue before those of the second,
\* are in the order of the calls; so are the jobs and the queues they came from.
Order ==
  /\ \A g \in Generations : \A i, j \in 1 .. Len(queue[g]) : i < j => queue[g][i] < queue[g][j]
  /\ \A m \in Waiting(1), k \in Waiting(2) : m < k
  /\ \A t \in Generations, g \in Generations : HasJob(t) =>
       \A m \in Waiting(g) : IF g >= worker[t].gen THEN worker[t].msg < m ELSE m < worker[t].msg
  /\ \A t, u \in Generations : t # u /\ HasJob(t) /\ HasJob(u) =>
       /\ worker[t].msg # worker[u].msg
       /\ worker[t].gen = 1 => worker[u].gen = 2 /\ worker[t].msg < worker[u].msg
  /\ game = "on" => queue[2] = <<>> /\ \A t \in Generations : HasJob(t) => worker[t].gen = 1
  /\ \A t \in Generations : HasJob(t) /\ worker[t].gen = 2 => worker[t].link = 0

\* A message that waits or is being sent has been called for and not answered.
Unreturned ==
  /\ \A m \in 1 .. Messages : m > calls => outcome[m] = "none"
  /\ \A g \in Generations : \A m \in Waiting(g) : m <= calls /\ outcome[m] = "none"
  /\ \A t \in Generations : HasJob(t) => worker[t].msg <= calls /\ outcome[worker[t].msg] = "none"

\* Frame f is of a message that task t comes to later, or of a chunk it has sent.
Behind(f, n, t) ==
  \/ f.msg < worker[t].msg
  \/ HasId(t) /\ n = worker[t].link /\ f.msg = worker[t].msg /\ f.seq < worker[t].seq

\* Nothing received or on its way is of a message that still waits.
Ahead ==
  /\ \A g \in Generations : \A m \in Waiting(g) :
       LastReceived < m /\ \A n \in LinkIds : \A f \in OnWire(n) : f.msg < m
  /\ LastReceived <= calls /\ \A n \in LinkIds : \A f \in OnWire(n) : f.msg <= calls
  /\ \A t \in Generations : HasJob(t) =>
       LastReceived < worker[t].msg /\ \A n \in LinkIds : \A f \in OnWire(n) : Behind(f, n, t)

\* Frame f is sent before frame h.
Precedes(f, h) == f.msg < h.msg \/ (f.msg = h.msg /\ f.seq < h.seq)

\* The frames on a link are of messages in order; the last of one says it is sent.
Frames ==
  /\ \A n \in LinkIds : \A f \in OnWire(n) :
       f.total = Chunks[f.msg] /\ f.seq < f.total /\ (f.seq + 1 = f.total => outcome[f.msg] = "ok")
  /\ \A n \in LinkIds : \A k, l \in 1 .. Len(chan[n].wire) : k < l => Precedes(chan[n].wire[k], chan[n].wire[l])

\* Link n can send; it sends the first chunk of a message; the id after id i.
Live(n) == Opened(chan[n]) \/ \E t \in Generations : worker[t].at \in OnLink /\ worker[t].link = n
Starting(n) == \E t \in Generations : HasId(t) /\ worker[t].link = n /\ worker[t].seq = 0
NextId1(i) == IF i + 1 = IdSpace THEN 0 ELSE i + 1

\* How many ids were taken since id i, where next is the next one.
Dist(i, next) == IF i < next THEN next - i ELSE next + IdSpace - i

\* The frames of a link that is in use have ids taken lately.
Recent(n, k) ==
  LET far == Dist(chan[n].wire[k].id, chan[n].nextId) + k - Len(chan[n].wire)
  IN far <= 1 \/ (far = 2 /\ Starting(n))

\* Messages whose frames are on a link at the same time have ids of their own.
IdsApart ==
  /\ \A n \in LinkIds : \A f, h \in OnWire(n) : f.id = h.id => f.msg = h.msg
  /\ \A t \in Generations : HasId(t) =>
       /\ chan[worker[t].link].nextId = NextId1(worker[t].id)
       /\ worker[t].seq < Chunks[worker[t].msg]
       /\ \A f \in OnWire(worker[t].link) : f.id = worker[t].id => f.msg = worker[t].msg
  /\ \A n \in LinkIds : Live(n) => \A k \in 1 .. Len(chan[n].wire) : Recent(n, k)
  /\ \A n \in LinkIds : Len(chan[n].wire) <= HighWater + 1
  /\ \A t \in Generations : worker[t].at = "send" => Len(chan[worker[t].link].wire) <= HighWater

\* An entry has chunks of the message that goes on with its id, in order.
EntryFits(n, i) ==
  /\ \A f \in OnWire(n) : f.id = i =>
       \A s \in DOMAIN rx.inflight[i].chunks : rx.inflight[i].chunks[s] = f.msg /\ s < f.seq
  /\ \A t \in Generations : HasId(t) /\ worker[t].link = n /\ worker[t].id = i =>
       \A s \in DOMAIN rx.inflight[i].chunks : rx.inflight[i].chunks[s] = worker[t].msg /\ s < worker[t].seq

\* The entries that are not old fit, and the frames to come are of later messages.
Reassembly ==
  \A n \in LinkIds : n = rx.link =>
    /\ \A i \in DOMAIN rx.inflight : ~rx.inflight[i].old => EntryFits(n, i)
    /\ \A f \in OnWire(n) : LastReceived < f.msg

\* What was received is in order.
Ordered ==
  /\ received \in Seq(1 .. Messages)
  /\ \A i, j \in 1 .. Len(received) : i < j => received[i] < received[j]

\* Frame f is the last of its message.
Final(f) == f.seq + 1 = f.total

\* Each frame but the first goes on where the one before it stopped.
Continues(f, h) ==
  \/ ~Final(f) /\ h.id = f.id /\ h.msg = f.msg /\ h.seq = f.seq + 1
  \/ Final(f) /\ h.seq = 0

\* No frame of a link is missing between two others, nor between the last one and the
\* next chunk of who sends on it; and a message cut short is the last on its link.
Gapless ==
  /\ \A n \in LinkIds : \A k \in 1 .. Len(chan[n].wire) - 1 : Continues(chan[n].wire[k], chan[n].wire[k + 1])
  /\ \A t \in Generations : HasId(t) /\ worker[t].seq > 0 =>
       LET w == worker[t]
           wire == chan[w.link].wire
       IN wire # <<>> =>
            /\ wire[Len(wire)].id = w.id /\ wire[Len(wire)].msg = w.msg
            /\ wire[Len(wire)].seq + 1 = w.seq
  /\ \A n \in LinkIds : Live(n) /\ chan[n].wire # <<>> =>
       \/ Final(chan[n].wire[Len(chan[n].wire)])
       \/ \E t \in Generations : HasId(t) /\ worker[t].link = n /\ worker[t].seq > 0

\* The receiver has the chunks 0 .. seq - 1 of the message with this id.
Has(id, seq, total) ==
  /\ id \in DOMAIN rx.inflight /\ ~rx.inflight[id].old
  /\ rx.inflight[id].total = total /\ DOMAIN rx.inflight[id].chunks = 0 .. seq - 1

\* What the receiver has of the message whose next frame is the next to come.
Expects ==
  \A n \in LinkIds : n = rx.link /\ chan[n].state = "open" /\ ~slow =>
    /\ chan[n].wire # <<>> /\ chan[n].wire[1].seq > 0 =>
         Has(chan[n].wire[1].id, chan[n].wire[1].seq, chan[n].wire[1].total)
    /\ chan[n].wire = <<>> => \A t \in Generations :
         HasId(t) /\ worker[t].link = n /\ worker[t].seq > 0 =>
           Has(worker[t].id, worker[t].seq, Chunks[worker[t].msg])

\* A message sent whole was received, or its last frame is still to come.
Arrives ==
  /\ \A n \in LinkIds : chan[n].state = "connecting" => chan[n].done = {}
  /\ \A n \in LinkIds : n = rx.link /\ chan[n].state = "open" /\ ~slow =>
       \A m \in chan[n].done :
         \/ \E i \in 1 .. Len(received) : received[i] = m
         \/ \E f \in OnWire(n) : f.msg = m /\ Final(f)

\* What the kinds of step keep.
Flow == Order /\ Unreturned /\ Ahead /\ Frames /\ IdsApart /\ Reassembly /\ Ordered
-----------------------------------------------------------------------------
(* What the kinds of step do to queues, jobs and links *)

\* The messages of a queue are messages.
LEMMA QueueFacts ==
  ASSUME Base, NEW g \in Generations
  PROVE  /\ queue[g] \in Seq(1 .. Messages) /\ Len(queue[g]) \in Nat
         /\ \A i \in 1 .. Len(queue[g]) : queue[g][i] \in 1 .. Messages /\ queue[g][i] \in Nat
         /\ \A m \in Waiting(g) : m \in 1 .. Messages /\ m \in Nat
         /\ queue[g] = <<>> => Waiting(g) = {}
<1>1. queue[g] \in Seq(1 .. Messages) /\ Messages \in Nat
  BY Constants DEF Base, Typed, QueuesTyped
<1>2. \A i \in 1 .. Len(queue[g]) : queue[g][i] \in 1 .. Messages /\ queue[g][i] \in Nat
  BY <1>1
<1>3. queue[g] = <<>> => Waiting(g) = {}
  BY <1>1 DEF Waiting
<1> QED
  BY <1>1, <1>2, <1>3 DEF Waiting

\* The frames of a link are frames.
LEMMA WireFacts ==
  ASSUME Base, NEW n \in LinkIds
  PROVE  /\ chan[n].wire \in Seq(Packet) /\ Len(chan[n].wire) \in Nat
         /\ \A k \in 1 .. Len(chan[n].wire) : chan[n].wire[k] \in Packet
         /\ \A f \in OnWire(n) : f \in Packet
         /\ \A f \in Packet : f.id \in 0 .. IdSpace - 1 /\ f.seq \in Nat /\ f.total \in Nat /\ f.msg \in 1 .. Messages
         /\ chan[n].nextId \in 0 .. IdSpace - 1 /\ chan[n].done \subseteq 1 .. Messages
<1>1. chan[n].wire \in Seq(Packet) /\ chan[n].nextId \in 0 .. IdSpace - 1 /\ chan[n].done \subseteq 1 .. Messages
  BY LinkParts DEF LinkState
<1>2. \A k \in 1 .. Len(chan[n].wire) : chan[n].wire[k] \in Packet
  BY <1>1
<1>3. \A f \in OnWire(n) : f \in Packet
  BY <1>2 DEF OnWire
<1>4. \A f \in Packet : f.id \in 0 .. IdSpace - 1 /\ f.seq \in Nat /\ f.total \in Nat /\ f.msg \in 1 .. Messages
  BY DEF Packet
<1>5. Len(chan[n].wire) \in Nat
  BY <1>1
<1> QED
  BY <1>1, <1>2, <1>3, <1>4, <1>5

\* Each queue is as it was or empty, each task has its job or none.
Settled ==
  /\ QueuesRest /\ \A t \in Generations : JobRests(worker[t], worker'[t])
  /\ game' = "on" => game = "on"
  /\ calls' = calls

\* All steps but a call and the taking of a message leave queues and jobs so.
LEMMA KindsSettle ==
  ASSUME Base, \/ Rests \/ Dawdle
               \/ \E t \in Generations : TakesId(t) \/ Sends(t)
               \/ \E n \in LinkIds : Deliver(n)
  PROVE  Settled
<1>1. CASE Rests
  BY <1>1 DEF Rests, Settled, TaskRests
<1>2. CASE Dawdle \/ \E n \in LinkIds : Deliver(n)
  BY Zenon, <1>2 DEF Dawdle, Deliver, Unsent, Settled, QueuesRest, JobRests
<1>3. ASSUME NEW t \in Generations, TakesId(t) PROVE Settled
  <2>1. JobRests(worker[t], worker'[t])
    BY <1>3 DEF TakesId, JobRests
  <2>2. \A u \in Generations : u # t => JobRests(worker[u], worker'[u])
    BY <1>3 DEF TakesId, JobRests
  <2> QED
    BY <1>3, <2>1, <2>2 DEF TakesId, Settled, QueuesRest
<1>4. ASSUME NEW t \in Generations, Sends(t) PROVE Settled
  <2>1. JobRests(worker[t], worker'[t])
    BY <1>4 DEF Sends, JobRests
  <2>2. \A u \in Generations : u # t => JobRests(worker[u], worker'[u])
    BY <1>4 DEF Sends, JobRests
  <2> QED
    BY <1>4, <2>1, <2>2 DEF Sends, Settled
<1> QED
  BY <1>1, <1>2, <1>3, <1>4

\* Queues and jobs that are left or emptied are in order.
LEMMA SettledOrder ==
  ASSUME Base, Base', Order, Settled
  PROVE  Order'
<1>1. ASSUME NEW g \in Generations PROVE queue'[g] = queue[g] \/ queue'[g] = <<>>
  BY DEF Settled, QueuesRest
<1>2. ASSUME NEW g \in Generations
      PROVE  Waiting(g)' \subseteq Waiting(g)
  <2>1. CASE queue'[g] = queue[g]
    BY <2>1 DEF Waiting
  <2>2. CASE queue'[g] = <<>>
    BY <2>2 DEF Waiting
  <2> QED
    BY <1>1, <2>1, <2>2
<1>3. \A t \in Generations : worker'[t].msg # 0 =>
        worker'[t].msg = worker[t].msg /\ worker'[t].gen = worker[t].gen
          /\ (worker'[t].link \in {0, worker[t].link} \/ game = "on")
  BY DEF Settled, JobRests
<1>4. \A g \in Generations : \A i, j \in 1 .. Len(queue'[g]) : i < j => queue'[g][i] < queue'[g][j]
  <2> SUFFICES ASSUME NEW g \in Generations
               PROVE  \A i, j \in 1 .. Len(queue'[g]) : i < j => queue'[g][i] < queue'[g][j]
    OBVIOUS
  <2>1. CASE queue'[g] = queue[g]
    BY <2>1 DEF Order
  <2>2. CASE queue'[g] = <<>>
    BY <2>2
  <2> QED
    BY <1>1, <2>1, <2>2
<1>5. \A m \in Waiting(1)', k \in Waiting(2)' : m < k
  BY <1>2 DEF Order, Generations
<1>6. \A t \in Generations, g \in Generations : worker'[t].msg # 0 =>
        \A m \in Waiting(g)' : IF g >= worker'[t].gen THEN worker'[t].msg < m ELSE m < worker'[t].msg
  BY <1>2, <1>3 DEF Order, HasJob
<1>7. \A t, u \in Generations : t # u /\ worker'[t].msg # 0 /\ worker'[u].msg # 0 =>
       /\ worker'[t].msg # worker'[u].msg
       /\ worker'[t].gen = 1 => worker'[u].gen = 2 /\ worker'[t].msg < worker'[u].msg
  BY <1>3 DEF Order, HasJob
<1>8. game' = "on" => queue'[2] = <<>> /\ \A t \in Generations : worker'[t].msg # 0 => worker'[t].gen = 1
  BY <1>1, <1>3 DEF Order, HasJob, Settled, Generations
<1>9. \A t \in Generations : worker'[t].msg # 0 /\ worker'[t].gen = 2 => worker'[t].link = 0
  BY <1>3 DEF Order, HasJob
<1> QED
  BY <1>4, <1>5, <1>6, <1>7, <1>8, <1>9 DEF Order, HasJob

\* The queues and the jobs after a call.
LEMMA CallsEffect ==
  ASSUME Base, NEW g \in Generations, Calls(g)
  PROVE  /\ calls' = calls + 1 /\ calls + 1 \in 1 .. Messages /\ calls \in Nat
         /\ queue'[g] = Append(queue[g], calls + 1) /\ Waiting(g)' = Waiting(g) \cup {calls + 1}
         /\ \A h \in Generations : h # g => queue'[h] = queue[h] /\ Waiting(h)' = Waiting(h)
         /\ \A t \in Generations : worker'[t].msg = 0 \/ worker'[t] = worker[t]
         /\ \A t \in Generations : PlaceRests(worker[t], worker'[t])
<1>1. calls' = calls + 1 /\ calls + 1 \in 1 .. Messages /\ calls \in Nat
  BY Constants DEF Calls, Base, Typed, QueuesTyped
<1>2. queue'[g] = Append(queue[g], calls + 1) /\ \A h \in Generations : h # g => queue'[h] = queue[h]
  BY DEF Calls, Base, Typed, QueuesTyped
<1>3. \A h \in Generations : h # g => Waiting(h)' = Waiting(h)
  BY <1>2 DEF Waiting
<1>4. Waiting(g)' = Waiting(g) \cup {calls + 1}
  <2> DEFINE q == queue[g]
             q1 == Append(queue[g], calls + 1)
  <2>1. q \in Seq(1 .. Messages) /\ Len(q) \in Nat
    BY QueueFacts
  <2>2. /\ Len(q1) = Len(q) + 1 /\ q1[Len(q) + 1] = calls + 1
        /\ \A i \in 1 .. Len(q) : q1[i] = q[i]
    BY <1>1, <2>1, Appends
  <2> HIDE DEF q, q1
  <2>3. {q1[i] : i \in 1 .. Len(q1)} = {q[i] : i \in 1 .. Len(q)} \cup {calls + 1}
    <3>1. \A i : i \in 1 .. Len(q1) <=> i \in 1 .. Len(q) \/ i = Len(q) + 1
      BY <2>1, <2>2
    <3> QED
      BY <2>2, <3>1
  <2> QED
    BY <1>2, <2>3 DEF Waiting, q, q1
<1>5. \A t \in Generations : worker'[t].msg = 0 \/ worker'[t] = worker[t]
  BY DEF Calls
<1>6. \A t \in Generations : PlaceRests(worker[t], worker'[t])
  BY DEF Calls, PlaceRests, NoJob, OnLink, WithId
<1> QED
  BY <1>1, <1>2, <1>3, <1>4, <1>5, <1>6

\* The message of a new call comes after all the others.
LEMMA CallsOrder ==
  ASSUME Base, Base', Order, Unreturned, NEW g \in Generations, Calls(g)
  PROVE  Order'
<1> DEFINE m1 == calls + 1
<1>0. /\ calls' = calls + 1 /\ calls + 1 \in 1 .. Messages /\ calls \in Nat
      /\ queue'[g] = Append(queue[g], calls + 1) /\ Waiting(g)' = Waiting(g) \cup {calls + 1}
      /\ \A h \in Generations : h # g => queue'[h] = queue[h] /\ Waiting(h)' = Waiting(h)
      /\ \A t \in Generations : worker'[t].msg = 0 \/ worker'[t] = worker[t]
  BY CallsEffect
<1>1. \A h \in Generations : \A m \in Waiting(h) : m < m1 /\ m \in Nat
  BY <1>0, QueueFacts DEF Unreturned
<1>2. \A t \in Generations : HasJob(t) => worker[t].msg < m1 /\ worker[t].gen \in Generations
  BY <1>0, TaskFacts, Constants DEF Unreturned, HasJob, Sensible
<1>3. (g = 2 => game # "on") /\ (g = 1 => game = "on") /\ game' = game
  BY DEF Calls
<1>4. \A h \in Generations : \A i, j \in 1 .. Len(queue'[h]) : i < j => queue'[h][i] < queue'[h][j]
  <2> SUFFICES ASSUME NEW h \in Generations, NEW i \in 1 .. Len(queue'[h]), NEW j \in 1 .. Len(queue'[h]), i < j
               PROVE  queue'[h][i] < queue'[h][j]
    OBVIOUS
  <2>1. CASE h # g
    BY <1>0, <2>1 DEF Order
  <2>2. CASE h = g
    <3> DEFINE q == queue[g]
               q1 == queue'[g]
    <3>1. q \in Seq(1 .. Messages) /\ Len(q) \in Nat
      BY QueueFacts
    <3>2. /\ Len(q1) = Len(q) + 1 /\ q1[Len(q) + 1] = calls + 1
          /\ \A k \in 1 .. Len(q) : q1[k] = q[k]
      BY <1>0, <3>1, Appends
    <3>3. \A k \in 1 .. Len(q) : q[k] < m1
      BY <1>1 DEF Waiting
    <3>4. \A k, l \in 1 .. Len(q) : k < l => q[k] < q[l]
      BY DEF Order
    <3> HIDE DEF q, q1
    <3>5. i \in 1 .. Len(q) /\ (j \in 1 .. Len(q) \/ j = Len(q) + 1)
      BY <2>2, <3>1, <3>2 DEF q1
    <3>6. q1[i] < q1[j]
      BY <3>2, <3>3, <3>4, <3>5
    <3> QED
      BY <2>2, <3>6 DEF q1
  <2> QED
    BY <2>1, <2>2
<1>5. \A m \in Waiting(1)', k \in Waiting(2)' : m < k
  <2>1. CASE g = 1
    <3>1. Waiting(2)' = {}
      BY <1>0, <1>3, <2>1, QueueFacts DEF Order, Generations
    <3> QED
      BY <3>1
  <2>2. CASE g = 2
    BY <1>0, <1>1, <2>2 DEF Order, Generations
  <2> QED
    BY <2>1, <2>2 DEF Generations
<1>6. \A t \in Generations, h \in Generations : worker'[t].msg # 0 =>
        \A m \in Waiting(h)' : IF h >= worker'[t].gen THEN worker'[t].msg < m ELSE m < worker'[t].msg
  <2> SUFFICES ASSUME NEW t \in Generations, NEW h \in Generations, worker'[t].msg # 0, NEW m \in Waiting(h)'
               PROVE  IF h >= worker'[t].gen THEN worker'[t].msg < m ELSE m < worker'[t].msg
    OBVIOUS
  <2>1. worker'[t] = worker[t] /\ HasJob(t)
    BY <1>0 DEF HasJob
  <2>2. CASE m \in Waiting(h)
    BY <2>1, <2>2 DEF Order
  <2>3. CASE m = m1 /\ h = g
    <3>1. h >= worker[t].gen
      BY <1>2, <1>3, <2>1, <2>3 DEF Order, Generations
    <3> QED
      BY <1>2, <2>1, <2>3, <3>1
  <2> QED
    BY <1>0, <2>2, <2>3
<1>7. \A t, u \in Generations : t # u /\ worker'[t].msg # 0 /\ worker'[u].msg # 0 =>
       /\ worker'[t].msg # worker'[u].msg
       /\ worker'[t].gen = 1 => worker'[u].gen = 2 /\ worker'[t].msg < worker'[u].msg
  BY <1>0 DEF Order, HasJob
<1>8. game' = "on" => queue'[2] = <<>> /\ \A t \in Generations : worker'[t].msg # 0 => worker'[t].gen = 1
  BY <1>0, <1>3 DEF Order, HasJob, Generations
<1>9. \A t \in Generations : worker'[t].msg # 0 /\ worker'[t].gen = 2 => worker'[t].link = 0
  BY <1>0 DEF Order, HasJob
<1> QED
  BY <1>4, <1>5, <1>6, <1>7, <1>8, <1>9 DEF Order, HasJob

\* The queues and the jobs after a task has taken one.
LEMMA TakesEffect ==
  ASSUME Base, NEW t \in Generations, NEW g \in Generations, Takes(t, g)
  PROVE  /\ queue'[g] = Tail(queue[g]) /\ queue[g] # <<>> /\ \A h \in Generations : h # g => queue'[h] = queue[h]
         /\ \A h \in Generations : Waiting(h)' \subseteq Waiting(h)
         /\ worker'[t].msg = queue[g][1] /\ worker'[t].msg \in Waiting(g) /\ ~HasJob(t)
         /\ \A i \in 1 .. Len(queue'[g]) : queue'[g][i] = queue[g][i + 1] /\ i + 1 \in 1 .. Len(queue[g])
         /\ Len(queue'[g]) \in Nat /\ Len(queue'[g]) + 1 = Len(queue[g])
         /\ \A u \in Generations : PlaceRests(worker[u], worker'[u])
<1>1. queue[g] \in Seq(1 .. Messages) /\ queue[g] # <<>> /\ queue \in [Generations -> Seq(1 .. Messages)]
  BY DEF Takes, Base, Typed, QueuesTyped
<1>2. queue'[g] = Tail(queue[g]) /\ \A h \in Generations : h # g => queue'[h] = queue[h]
  BY <1>1 DEF Takes
<1>3. /\ Tail(queue[g]) \in Seq(1 .. Messages) /\ Len(Tail(queue[g])) = Len(queue[g]) - 1
      /\ Len(queue[g]) \in Nat /\ Len(queue[g]) > 0
      /\ Head(queue[g]) = queue[g][1]
      /\ \A i \in 1 .. Len(queue[g]) - 1 : Tail(queue[g])[i] = queue[g][i + 1]
  BY <1>1, Tails
<1>4. \A i \in 1 .. Len(queue'[g]) : queue'[g][i] = queue[g][i + 1] /\ i + 1 \in 1 .. Len(queue[g])
  BY <1>2, <1>3
<1>5. \A h \in Generations : Waiting(h)' \subseteq Waiting(h)
  <2>1. Waiting(g)' \subseteq Waiting(g)
    BY <1>4 DEF Waiting
  <2>2. ASSUME NEW h \in Generations, h # g PROVE Waiting(h)' = Waiting(h)
    BY <1>2, <2>2 DEF Waiting
  <2> QED
    BY <2>1, <2>2
<1>6. worker'[t].msg = queue[g][1] /\ worker'[t].msg \in Waiting(g) /\ ~HasJob(t)
  BY <1>3 DEF Takes, Waiting, HasJob
<1>7. worker[t].at \notin OnLink
  BY TaskFacts DEF Takes, Sensible, NoJob, OnLink, WithId
<1>8. \A u \in Generations : PlaceRests(worker[u], worker'[u])
  BY <1>7 DEF Takes, PlaceRests, OnLink, WithId
<1> QED
  BY <1>1, <1>2, <1>3, <1>4, <1>5, <1>6, <1>8

\* The message taken is the first of those that wait, and after those taken before.
LEMMA TakesOrder ==
  ASSUME Base, Base', Order, NEW t \in Generations, NEW g \in Generations, Takes(t, g)
  PROVE  Order'
<1> DEFINE m0 == queue[g][1]
<1>0. /\ queue'[g] = Tail(queue[g]) /\ queue[g] # <<>> /\ \A h \in Generations : h # g => queue'[h] = queue[h]
      /\ \A h \in Generations : Waiting(h)' \subseteq Waiting(h)
      /\ worker'[t].msg = m0 /\ m0 \in Waiting(g) /\ ~HasJob(t)
      /\ \A i \in 1 .. Len(queue'[g]) : queue'[g][i] = queue[g][i + 1] /\ i + 1 \in 1 .. Len(queue[g])
      /\ Len(queue'[g]) \in Nat /\ Len(queue'[g]) + 1 = Len(queue[g])
  BY TakesEffect
<1>1. /\ worker'[t].gen = g /\ game' = game /\ (worker'[t].link = 0 \/ game = "on")
      /\ \A u \in Generations : u # t => worker'[u] = worker[u]
      /\ g = 1 => \A u \in Generations : u # t => worker[u].msg = 0 \/ worker[u].gen = 2
  BY DEF Takes
<1>2. \A u \in Generations : HasJob(u) => worker[u].gen \in Generations /\ worker[u].msg \in Nat
  BY TaskFacts, Constants DEF HasJob, Sensible, Task
<1>3. \A h \in Generations : \A m \in Waiting(h) : m \in Nat
  BY QueueFacts
<1>4. \A h \in Generations : \A i, j \in 1 .. Len(queue'[h]) : i < j => queue'[h][i] < queue'[h][j]
  <2> SUFFICES ASSUME NEW h \in Generations, NEW i \in 1 .. Len(queue'[h]), NEW j \in 1 .. Len(queue'[h]), i < j
               PROVE  queue'[h][i] < queue'[h][j]
    OBVIOUS
  <2>1. CASE h # g
    BY <1>0, <2>1 DEF Order
  <2>2. CASE h = g
    <3>1. i \in 1 .. Len(queue'[g]) /\ j \in 1 .. Len(queue'[g])
      BY <2>2
    <3>3. i + 1 \in 1 .. Len(queue[g]) /\ j + 1 \in 1 .. Len(queue[g]) /\ i + 1 < j + 1
      BY ONLY <1>0, <3>1, i < j
    <3>2. queue[g][i + 1] < queue[g][j + 1]
      BY <3>3 DEF Order
    <3> QED
      BY <1>0, <2>2, <3>1, <3>2
  <2> QED
    BY <2>1, <2>2
<1>5. \A m \in Waiting(1)', k \in Waiting(2)' : m < k
  BY <1>0 DEF Order, Generations
<1>6. \A m \in Waiting(g)' : m0 < m
  <2> SUFFICES ASSUME NEW i \in 1 .. Len(queue'[g]) PROVE m0 < queue'[g][i]
    BY DEF Waiting
  <2>1. i + 1 \in 1 .. Len(queue[g]) /\ 1 \in 1 .. Len(queue[g]) /\ 1 < i + 1
    BY <1>0
  <2>2. queue[g][1] < queue[g][i + 1]
    BY <2>1 DEF Order
  <2> QED
    BY <1>0, <2>2
<1>7. \A h \in Generations : \A m \in Waiting(h)' : IF h >= g THEN m0 < m ELSE m < m0
  <2> SUFFICES ASSUME NEW h \in Generations, NEW m \in Waiting(h)'
               PROVE  IF h >= g THEN m0 < m ELSE m < m0
    OBVIOUS
  <2>1. m \in Waiting(h)
    BY <1>0
  <2>2. CASE h = g
    BY <1>6, <2>2 DEF Generations
  <2>3. CASE h = 1 /\ g = 2
    BY <1>0, <2>1, <2>3 DEF Order
  <2>4. CASE h = 2 /\ g = 1
    BY <1>0, <2>1, <2>4 DEF Order
  <2> QED
    BY <2>2, <2>3, <2>4 DEF Generations
<1>8. \A u \in Generations, h \in Generations : worker'[u].msg # 0 =>
        \A m \in Waiting(h)' : IF h >= worker'[u].gen THEN worker'[u].msg < m ELSE m < worker'[u].msg
  <2> SUFFICES ASSUME NEW u \in Generations, NEW h \in Generations, worker'[u].msg # 0, NEW m \in Waiting(h)'
               PROVE  IF h >= worker'[u].gen THEN worker'[u].msg < m ELSE m < worker'[u].msg
    OBVIOUS
  <2>1. CASE u = t
    BY <1>0, <1>1, <1>7, <2>1
  <2>2. CASE u # t
    <3>1. HasJob(u) /\ m \in Waiting(h)
      BY <1>0, <1>1, <2>2 DEF HasJob
    <3> QED
      BY <1>1, <2>2, <3>1 DEF Order
  <2> QED
    BY <2>1, <2>2
\* The task against another that has a job.
<1>9. ASSUME NEW u \in Generations, u # t, worker[u].msg # 0
      PROVE  /\ m0 # worker[u].msg
             /\ g = 1 => worker[u].gen = 2 /\ m0 < worker[u].msg
             /\ worker[u].gen = 1 => g = 2 /\ worker[u].msg < m0
  <2>1. IF g >= worker[u].gen THEN worker[u].msg < m0 ELSE m0 < worker[u].msg
    BY <1>0, <1>9 DEF Order, HasJob
  <2> QED
    BY <1>0, <1>1, <1>2, <1>3, <1>9, <2>1 DEF HasJob, Generations
<1>10. \A v, u \in Generations : v # u /\ worker'[v].msg # 0 /\ worker'[u].msg # 0 =>
       /\ worker'[v].msg # worker'[u].msg
       /\ worker'[v].gen = 1 => worker'[u].gen = 2 /\ worker'[v].msg < worker'[u].msg
  <2> SUFFICES ASSUME NEW v \in Generations, NEW u \in Generations, v # u, worker'[v].msg # 0, worker'[u].msg # 0
               PROVE  /\ worker'[v].msg # worker'[u].msg
                      /\ worker'[v].gen = 1 => worker'[u].gen = 2 /\ worker'[v].msg < worker'[u].msg
    OBVIOUS
  <2>1. CASE v = t
    BY <1>0, <1>1, <1>9, <2>1
  <2>2. CASE u = t
    BY <1>0, <1>1, <1>9, <2>2
  <2>3. CASE v # t /\ u # t
    BY <1>1, <2>3 DEF Order, HasJob
  <2> QED
    BY <2>1, <2>2, <2>3
<1>11. game = "on" => g = 1
  BY <1>0 DEF Order, Generations
<1>12. game' = "on" => queue'[2] = <<>> /\ \A u \in Generations : worker'[u].msg # 0 => worker'[u].gen = 1
  BY <1>0, <1>1, <1>11 DEF Order, HasJob, Generations
<1>13. \A u \in Generations : worker'[u].msg # 0 /\ worker'[u].gen = 2 => worker'[u].link = 0
  BY <1>1, <1>11 DEF Order, HasJob
<1> QED
  BY <1>4, <1>5, <1>8, <1>10, <1>12, <1>13 DEF Order, HasJob

\* Order is kept.
LEMMA OrderStep ==
  ASSUME Base, Base', Order, Unreturned, Kinds
  PROVE  Order'
BY KindsSettle, SettledOrder, CallsOrder, TakesOrder DEF Kinds
-----------------------------------------------------------------------------
(* The outcomes *)

\* What outcomes change to, and of which messages.
Answers ==
  /\ \A k \in 1 .. Messages : \/ outcome'[k] = outcome[k]
                              \/ outcome'[k] \in {"ok", "failed"} /\ GivenUp(k)

\* A message that is given up was waiting or being sent.
LEMMA GivenUpWas ==
  ASSUME Base, Unreturned, NEW k, k \in 1 .. Messages, GivenUp(k)
  PROVE  /\ outcome[k] = "none" /\ k <= calls
         /\ (\E t \in Generations : worker[t].msg = k /\ worker'[t].msg = 0)
            \/ \E g \in Generations : queue'[g] = <<>> /\ k \in Waiting(g)
<1>1. CASE \E t \in Generations : worker[t].msg = k /\ worker'[t].msg = 0
  BY <1>1 DEF Unreturned, HasJob
<1>2. CASE \E g \in Generations : queue'[g] = <<>> /\ \E i \in 1 .. Len(queue[g]) : queue[g][i] = k
  BY <1>2 DEF Unreturned, Waiting
<1> QED
  BY <1>1, <1>2 DEF GivenUp

\* All steps but a call and the taking of a message answer only who is given up or
\* sent whole.
LEMMA KindsAnswer ==
  ASSUME Base, \/ Rests \/ Dawdle
               \/ \E t \in Generations : TakesId(t) \/ Sends(t)
               \/ \E n \in LinkIds : Deliver(n)
  PROVE  Answers
<1>1. CASE Rests
  BY <1>1, Constants DEF Rests, Others, Answers
<1>2. CASE Dawdle \/ \E n \in LinkIds : Deliver(n)
  BY Zenon, <1>2 DEF Dawdle, Deliver, Unsent, Answers
<1>3. ASSUME NEW t \in Generations, TakesId(t) PROVE Answers
  BY <1>3 DEF TakesId, Answers
<1>4. ASSUME NEW t \in Generations, Sends(t) PROVE Answers
  <2> DEFINE m == worker[t].msg
  <2>1. outcome'[m] = outcome[m] \/ (outcome'[m] = "ok" /\ worker'[t].msg = 0)
    BY <1>4 DEF Sends
  <2>2. outcome'[m] = outcome[m] \/ (outcome'[m] = "ok" /\ GivenUp(m))
    BY <2>1 DEF GivenUp
  <2>3. Others(m)
    BY <1>4 DEF Sends
  <2> QED
    BY <2>2, <2>3 DEF Others, Answers
<1> QED
  BY <1>1, <1>2, <1>3, <1>4

\* What is left of queues and jobs is still unanswered.
LEMMA SettledUnreturned ==
  ASSUME Base, Base', Order, Unreturned, Settled, Answers
  PROVE  Unreturned'
<1>0. calls' = calls /\ calls \in Nat
  BY Constants DEF Settled, Base, Typed, QueuesTyped
<1>1. ASSUME NEW m \in 1 .. Messages, m > calls PROVE outcome'[m] = "none"
  BY <1>0, <1>1, GivenUpWas DEF Answers, Unreturned
<1>2. ASSUME NEW g \in Generations, NEW m \in Waiting(g)'
      PROVE  m <= calls /\ outcome'[m] = "none"
  <2>1. queue'[g] = queue[g] /\ m \in Waiting(g) /\ queue'[g] # <<>>
    <3>1. queue'[g] # <<>>
      BY QueueFacts, <1>2 DEF Waiting
    <3>2. queue'[g] = queue[g]
      BY <3>1 DEF Settled, QueuesRest
    <3> QED
      BY <1>2, <3>1, <3>2 DEF Waiting
  <2>2. m \in 1 .. Messages /\ m \in Nat /\ m <= calls /\ outcome[m] = "none"
    BY <2>1, QueueFacts DEF Unreturned
  <2>3. ~GivenUp(m)
    <3> SUFFICES ASSUME GivenUp(m) PROVE FALSE
      OBVIOUS
    <3>1. CASE \E t \in Generations : worker[t].msg = m /\ worker'[t].msg = 0
      <4> PICK t \in Generations : worker[t].msg = m
        BY <3>1
      <4>1. HasJob(t)
        BY <2>2 DEF HasJob
      <4>2. IF g >= worker[t].gen THEN m < m ELSE m < m
        BY <2>1, <4>1 DEF Order
      <4> QED
        BY <2>2, <4>2
    <3>2. CASE \E h \in Generations : queue'[h] = <<>> /\ m \in Waiting(h)
      <4> PICK h \in Generations : h # g /\ m \in Waiting(h)
        BY <2>1, <3>2
      <4>1. m < m
        BY <2>1 DEF Order, Generations
      <4> QED
        BY <2>2, <4>1
    <3> QED
      BY <2>2, <3>1, <3>2, GivenUpWas
  <2> QED
    BY <2>2, <2>3 DEF Answers
<1>3. ASSUME NEW t \in Generations, worker'[t].msg # 0
      PROVE  worker'[t].msg <= calls /\ outcome'[worker'[t].msg] = "none"
  <2> DEFINE m == worker[t].msg
  <2>1. worker'[t].msg = m /\ HasJob(t)
    BY <1>3 DEF Settled, JobRests, HasJob
  <2>2. m \in 1 .. Messages /\ m \in Nat /\ m <= calls /\ outcome[m] = "none"
    BY <2>1, TaskFacts, Constants DEF Unreturned, HasJob, Task
  <2>3. ~GivenUp(m)
    <3> SUFFICES ASSUME GivenUp(m) PROVE FALSE
      OBVIOUS
    <3>1. CASE \E u \in Generations : worker[u].msg = m /\ worker'[u].msg = 0
      <4> PICK u \in Generations : worker[u].msg = m /\ u # t
        BY <1>3, <3>1
      <4> QED
        BY <2>1 DEF Order, HasJob
    <3>2. CASE \E h \in Generations : queue'[h] = <<>> /\ m \in Waiting(h)
      <4> PICK h \in Generations : m \in Waiting(h)
        BY <3>2
      <4>1. IF h >= worker[t].gen THEN m < m ELSE m < m
        BY <2>1 DEF Order
      <4> QED
        BY <2>2, <4>1
    <3> QED
      BY <2>2, <3>1, <3>2, GivenUpWas
  <2> QED
    BY <2>1, <2>2, <2>3 DEF Answers
<1> QED
  BY <1>0, <1>1, <1>2, <1>3 DEF Unreturned, HasJob

\* Each kind of step keeps Unreturned.
LEMMA UnreturnedStep ==
  ASSUME Base, Base', Order, Unreturned, Kinds
  PROVE  Unreturned'
<1>1. ASSUME NEW g \in Generations, Calls(g) PROVE Unreturned'
  <2>1. /\ calls' = calls + 1 /\ calls + 1 \in 1 .. Messages /\ calls \in Nat /\ outcome' = outcome
        /\ Waiting(g)' = Waiting(g) \cup {calls + 1}
        /\ \A h \in Generations : h # g => Waiting(h)' = Waiting(h)
        /\ \A t \in Generations : worker'[t].msg = 0 \/ worker'[t] = worker[t]
    BY <1>1, CallsEffect DEF Calls
  <2>2. \A h \in Generations : \A m \in Waiting(h)' : m \in Waiting(h) \/ m = calls + 1
    BY <2>1
  <2>3. outcome[calls + 1] = "none"
    BY <2>1 DEF Unreturned
  <2>4. \A h \in Generations : \A m \in Waiting(h)' : m <= calls + 1 /\ outcome[m] = "none"
    BY <2>1, <2>2, <2>3, QueueFacts DEF Unreturned
  <2>5. \A t \in Generations : worker'[t].msg # 0 => worker'[t].msg <= calls + 1 /\ outcome[worker'[t].msg] = "none"
    BY <2>1, TaskFacts, Constants DEF Unreturned, HasJob, Task
  <2>6. \A m \in 1 .. Messages : m > calls + 1 => outcome[m] = "none"
    BY <2>1, Constants DEF Unreturned
  <2> QED
    BY <2>1, <2>4, <2>5, <2>6 DEF Unreturned, HasJob
<1>2. ASSUME NEW t \in Generations, NEW g \in Generations, Takes(t, g) PROVE Unreturned'
  <2>1. /\ \A h \in Generations : Waiting(h)' \subseteq Waiting(h)
        /\ worker'[t].msg \in Waiting(g)
    BY <1>2, TakesEffect
  <2>2. calls' = calls /\ outcome' = outcome /\ \A u \in Generations : u # t => worker'[u] = worker[u]
    BY <1>2 DEF Takes
  <2>3. \A u \in Generations : worker'[u].msg # 0 => worker'[u].msg <= calls /\ outcome[worker'[u].msg] = "none"
    BY <2>1, <2>2 DEF Unreturned, HasJob
  <2> QED
    BY <2>1, <2>2, <2>3 DEF Unreturned, HasJob
<1> QED
  BY <1>1, <1>2, KindsSettle, KindsAnswer, SettledUnreturned DEF Kinds

-----------------------------------------------------------------------------
(* What the kinds of step do to the frames on the links *)

\* The frames of link n are the last of those there were, all but one at most, or none.
Shrinks(n) ==
  \E off \in {0, 1} :
    /\ Len(chan'[n].wire) = 0 \/ Len(chan'[n].wire) + off = Len(chan[n].wire)
    /\ \A k \in 1 .. Len(chan'[n].wire) :
         k + off \in 1 .. Len(chan[n].wire) /\ chan'[n].wire[k] = chan[n].wire[k + off]

\* A link that is left or emptied shrinks.
LEMMA SameShrinks ==
  ASSUME Base, NEW n \in LinkIds, chan'[n].wire = chan[n].wire \/ chan'[n].wire = <<>>
  PROVE  Shrinks(n)
<1>1. Len(chan[n].wire) \in Nat
  BY WireFacts
<1>2. CASE chan'[n].wire = chan[n].wire
  <2> DEFINE off == 0
  <2>1. /\ Len(chan'[n].wire) + off = Len(chan[n].wire)
        /\ \A k \in 1 .. Len(chan'[n].wire) :
             k + off \in 1 .. Len(chan[n].wire) /\ chan'[n].wire[k] = chan[n].wire[k + off]
    BY <1>1, <1>2
  <2>2. off \in {0, 1}
    OBVIOUS
  <2> HIDE DEF off
  <2> QED
    BY <2>1, <2>2 DEF Shrinks
<1>3. CASE chan'[n].wire = <<>>
  <2>1. Len(chan'[n].wire) = 0
    BY <1>3
  <2>2. \A k \in 1 .. Len(chan'[n].wire) : FALSE
    BY <2>1
  <2> QED
    BY <2>1, <2>2 DEF Shrinks
<1> QED
  BY <1>2, <1>3

\* The frame that arrives was the first; those left were behind it.
LEMMA DeliverWire ==
  ASSUME Base, NEW n \in LinkIds, Deliver(n)
  PROVE  /\ chan[n].wire \in Seq(Packet) /\ Len(chan[n].wire) \in Nat /\ Len(chan[n].wire) > 0
         /\ Head(chan[n].wire) = chan[n].wire[1] /\ chan[n].wire[1] \in OnWire(n)
         /\ chan[n].wire[1] \in Packet
         /\ Len(chan'[n].wire) \in Nat /\ Len(chan'[n].wire) + 1 = Len(chan[n].wire)
         /\ \A k \in 1 .. Len(chan'[n].wire) :
              k + 1 \in 1 .. Len(chan[n].wire) /\ chan'[n].wire[k] = chan[n].wire[k + 1]
<1> DEFINE s == chan[n].wire
<1>1. s \in Seq(Packet) /\ s # <<>> /\ chan'[n].wire = Tail(s)
  BY DeliverLink
<1>2. /\ Len(Tail(s)) = Len(s) - 1 /\ Len(s) \in Nat /\ Len(s) > 0
      /\ Head(s) = s[1] /\ Head(s) \in Packet
      /\ \A i \in 1 .. Len(s) - 1 : Tail(s)[i] = s[i + 1]
  BY <1>1, Tails
<1>3. 1 \in 1 .. Len(s)
  BY <1>2
<1>4. s[1] \in OnWire(n)
  BY <1>3 DEF OnWire
<1> HIDE DEF s
<1>5. Len(chan'[n].wire) = Len(s) - 1 /\ \A k \in 1 .. Len(s) - 1 : chan'[n].wire[k] = s[k + 1]
  BY <1>1, <1>2
<1>6. \A k \in 1 .. Len(s) - 1 : k + 1 \in 1 .. Len(s)
  BY <1>2
<1>7. Len(s) - 1 \in Nat /\ (Len(s) - 1) + 1 = Len(s)
  BY <1>2
<1> QED
  BY <1>1, <1>2, <1>4, <1>5, <1>6, <1>7 DEF s

\* A step that sends no frame and takes no id.
Neutral ==
  \/ Rests \/ Dawdle
  \/ \E g \in Generations : Calls(g)
  \/ \E t \in Generations, g \in Generations : Takes(t, g)
  \/ \E n \in LinkIds : Deliver(n)

\* The links shrink where no frame is sent.
LEMMA NeutralWire ==
  ASSUME Base, Neutral \/ \E t \in Generations : TakesId(t), NEW n \in LinkIds
  PROVE  Shrinks(n)
<1>1. CASE Rests
  BY <1>1, SameShrinks DEF Rests, LinkRests
<1>2. CASE Dawdle \/ (\E g \in Generations : Calls(g)) \/ \E t \in Generations, g \in Generations : Takes(t, g)
  BY <1>2, SameShrinks DEF Dawdle, Calls, Takes
<1>3. ASSUME NEW m \in LinkIds, Deliver(m) PROVE Shrinks(n)
  <2>1. CASE n = m
    BY <1>3, <2>1, DeliverWire DEF Shrinks
  <2>2. CASE n # m
    BY <1>3, <2>2, DeliverLink, SameShrinks
  <2> QED
    BY <2>1, <2>2
<1>4. ASSUME NEW t \in Generations, TakesId(t) PROVE Shrinks(n)
  <2>1. chan'[n].wire = chan[n].wire
    <3> DEFINE k == worker[t].link
               next == (chan[k].nextId + 1) % IdSpace
    <3>1. chan' = [chan EXCEPT ![k].nextId = next] /\ chan \in [LinkIds -> LinkState]
      BY <1>4 DEF TakesId, TakeMsgId, Base, Typed, LinksTyped
    <3> HIDE DEF next
    <3>2. chan[n] \in LinkState
      BY <3>1
    <3> QED
      BY <3>1, <3>2 DEF LinkState
  <2> QED
    BY <2>1, SameShrinks
<1> QED
  BY <1>1, <1>2, <1>3, <1>4 DEF Neutral

\* The frames of a link that shrinks were there.
LEMMA ShrinkingWire ==
  ASSUME Base, Base', NEW n \in LinkIds, Shrinks(n)
  PROVE  OnWire(n)' \subseteq OnWire(n) /\ Len(chan'[n].wire) <= Len(chan[n].wire)
         /\ Len(chan'[n].wire) \in Nat /\ Len(chan[n].wire) \in Nat
<1>1. Len(chan'[n].wire) \in Nat /\ Len(chan[n].wire) \in Nat
  <2>1. chan' \in [LinkIds -> LinkState]
    BY DEF Base, Typed, LinksTyped
  <2>2. chan'[n].wire \in Seq(Packet)
    BY <2>1 DEF LinkState
  <2> QED
    BY <2>2, WireFacts
<1> PICK off \in {0, 1} :
    /\ Len(chan'[n].wire) = 0 \/ Len(chan'[n].wire) + off = Len(chan[n].wire)
    /\ \A k \in 1 .. Len(chan'[n].wire) :
         k + off \in 1 .. Len(chan[n].wire) /\ chan'[n].wire[k] = chan[n].wire[k + off]
  BY DEF Shrinks
<1>2. OnWire(n)' \subseteq OnWire(n)
  BY DEF OnWire
<1>3. Len(chan'[n].wire) <= Len(chan[n].wire)
  BY <1>1
<1> QED
  BY <1>1, <1>2, <1>3

\* The next id of a link, and that it is not taken by others.
LEMMA TakesIdLinks ==
  ASSUME Base, NEW t \in Generations, TakesId(t)
  PROVE  LET n == worker[t].link
         IN /\ n \in LinkIds /\ worker[t].at \in OnLink /\ worker'[t].link = n
            /\ chan[n].nextId \in 0 .. IdSpace - 1 /\ worker'[t].id = chan[n].nextId
            /\ chan'[n].nextId = NextId1(chan[n].nextId)
            /\ \A k \in LinkIds : /\ chan'[k].wire = chan[k].wire /\ chan'[k].state = chan[k].state
                                  /\ chan'[k].closed = chan[k].closed /\ chan'[k].done = chan[k].done
                                  /\ k # n => chan'[k].nextId = chan[k].nextId
            /\ \A u \in Generations : u # t => worker[u].link = 0 /\ worker'[u].link = 0 /\ ~HasId(u) /\ worker'[u] = worker[u]
<1> DEFINE n == worker[t].link
           i == chan[n].nextId
           next == (i + 1) % IdSpace
<1>1. n \in LinkIds /\ worker[t].at \in OnLink /\ worker[t].at \in {"id", "opened"}
  BY TaskFacts DEF TakesId, Sensible, OfLink, OnLink
<1>2. i \in 0 .. IdSpace - 1
  BY <1>1, WireFacts
<1>3. next = NextId1(i)
  <2> HIDE DEF i
  <2>1. CASE i + 1 = IdSpace
    BY <1>2, <2>1, Constants DEF NextId1
  <2>2. CASE i + 1 # IdSpace
    BY <1>2, <2>2, Constants DEF NextId1
  <2> QED
    BY <2>1, <2>2
<1>4. chan' = [chan EXCEPT ![n].nextId = next] /\ chan \in [LinkIds -> LinkState]
  BY DEF TakesId, TakeMsgId, Base, Typed, LinksTyped
<1> HIDE DEF next
<1>5. chan'[n].nextId = next
  BY <1>1, <1>4 DEF LinkState
<1>6. \A k \in LinkIds : /\ chan'[k].wire = chan[k].wire /\ chan'[k].state = chan[k].state
                         /\ chan'[k].closed = chan[k].closed /\ chan'[k].done = chan[k].done
                         /\ k # n => chan'[k].nextId = chan[k].nextId
  <2> SUFFICES ASSUME NEW k \in LinkIds
               PROVE  /\ chan'[k].wire = chan[k].wire /\ chan'[k].state = chan[k].state
                      /\ chan'[k].closed = chan[k].closed /\ chan'[k].done = chan[k].done
                      /\ k # n => chan'[k].nextId = chan[k].nextId
    OBVIOUS
  <2>1. chan[k] \in LinkState
    BY <1>4
  <2>2. CASE k # n
    BY <1>4, <2>2
  <2>3. CASE k = n
    BY <1>1, <1>4, <2>1, <2>3 DEF LinkState
  <2> QED
    BY <2>2, <2>3
<1>7. \A u \in Generations : u # t => worker[u].link = 0 /\ worker'[u] = worker[u]
  BY <1>1, Constants DEF Base, OneSender, LinkIds, TakesId
<1>8. \A u \in Generations : worker[u].link = 0 => ~HasId(u)
  BY TaskFacts DEF HasId, Sensible, OfLink, OnLink
<1>9. worker'[t].link = n /\ worker'[t].id = i
  BY DEF TakesId
<1> QED
  BY <1>1, <1>2, <1>3, <1>5, <1>6, <1>7, <1>8, <1>9

\* The frame that is sent is the last; its task alone has a link.
LEMMA SendsLinks ==
  ASSUME Base, NEW t \in Generations, Sends(t), NEW n, n = worker[t].link
  PROVE  LET v == worker[t]
             f == MakeFrame(v.id, v.seq, v.msg)
             len == Len(chan[n].wire)
         IN /\ n \in LinkIds /\ v.msg \in 1 .. Messages /\ v.seq \in Nat /\ v.id \in 0 .. IdSpace - 1
            /\ HasJob(t) /\ HasId(t) /\ v.at \in {"send", "burst"}
            /\ f \in Packet /\ f.id = v.id /\ f.seq = v.seq /\ f.msg = v.msg /\ f.total = Chunks[v.msg]
            /\ len \in Nat /\ Len(chan'[n].wire) = len + 1 /\ chan'[n].wire[len + 1] = f
            /\ \A k \in 1 .. len : chan'[n].wire[k] = chan[n].wire[k]
            /\ OnWire(n)' = OnWire(n) \cup {f}
            /\ \A k \in LinkIds : k # n => chan'[k] = chan[k] /\ OnWire(k)' = OnWire(k)
            /\ \A k \in LinkIds : chan'[k].nextId = chan[k].nextId /\ chan'[k].state = chan[k].state
                                  /\ chan'[k].closed = chan[k].closed
            /\ \A u \in Generations : u # t => worker[u].link = 0 /\ worker'[u] = worker[u] /\ ~HasId(u)
<1> DEFINE v == worker[t]
           f == MakeFrame(v.id, v.seq, v.msg)
           s == chan[n].wire
<1>1. v.at \in {"send", "burst"} /\ chan' = Sent(v) /\ HasJob(t) /\ HasId(t)
  BY TaskFacts DEF Sends, Sensible, HasJob, HasId, NoJob, WithId
<1>2. /\ n \in LinkIds /\ f \in Packet
      /\ f.id = v.id /\ f.seq = v.seq /\ f.msg = v.msg /\ f.total = Chunks[v.msg]
      /\ chan'[n].wire = Append(s, f)
      /\ chan'[n].state = chan[n].state /\ chan'[n].closed = chan[n].closed
      /\ chan'[n].nextId = chan[n].nextId
      /\ \A k \in LinkIds : k # n => chan'[k] = chan[k]
  BY <1>1, SentLink
<1>3. v.msg \in 1 .. Messages /\ v.seq \in Nat /\ v.id \in 0 .. IdSpace - 1
  BY <1>1, TaskFacts, Constants DEF HasJob
<1>4. s \in Seq(Packet)
  BY <1>2, WireFacts
<1> HIDE DEF s, f
<1>5. /\ Len(s) \in Nat /\ Len(chan'[n].wire) = Len(s) + 1 /\ chan'[n].wire[Len(s) + 1] = f
      /\ \A k \in 1 .. Len(s) : chan'[n].wire[k] = s[k]
  BY <1>2, <1>4, Appends
<1>6. OnWire(n)' = OnWire(n) \cup {f}
  <2> DEFINE z == chan'[n].wire
  <2>1. \A k : k \in 1 .. Len(z) <=> k \in 1 .. Len(s) \/ k = Len(s) + 1
    BY <1>5
  <2>2. z[Len(s) + 1] = f /\ \A k \in 1 .. Len(s) : z[k] = s[k]
    BY <1>5
  <2> HIDE DEF z
  <2>3. {z[k] : k \in 1 .. Len(z)} = {s[k] : k \in 1 .. Len(s)} \cup {f}
    BY <2>1, <2>2
  <2> QED
    BY <2>3 DEF z, s, OnWire
<1>7. \A k \in LinkIds : k # n => OnWire(k)' = OnWire(k)
  BY <1>2 DEF OnWire
<1>8. \A u \in Generations : u # t => worker[u].link = 0 /\ worker'[u] = worker[u]
  BY <1>2, Constants DEF Base, OneSender, LinkIds, Sends
<1>9. \A u \in Generations : worker[u].link = 0 => ~HasId(u)
  BY TaskFacts DEF HasId, Sensible, OfLink, OnLink
<1>10. \A k \in LinkIds : chan'[k].nextId = chan[k].nextId /\ chan'[k].state = chan[k].state
                          /\ chan'[k].closed = chan[k].closed
  BY <1>2
<1> QED
  BY Zenon, <1>1, <1>2, <1>3, <1>5, <1>6, <1>7, <1>8, <1>9, <1>10 DEF s, f

-----------------------------------------------------------------------------
(* What a frame that arrives amounts to *)

\* The entry a frame goes to has chunks of its message, none later than it.
LEMMA ArrivalEntry ==
  ASSUME Base, Frames, Reassembly, NEW n \in LinkIds, Deliver(n), rx.link = n,
         NEW f, f = chan[n].wire[1], NEW e, e = Entry(Prune(rx.inflight), f)
  PROVE  /\ IsEntry(e) /\ e.total = f.total /\ ~e.old
         /\ \A s \in DOMAIN e.chunks : e.chunks[s] = f.msg /\ s <= f.seq
         /\ Complete(e) => Final(f) /\ Assembled(e) = f.msg
<1>1. f \in Packet /\ f \in OnWire(n) /\ f.seq \in Nat /\ f.total \in Nat
  BY DeliverWire, WireFacts
<1>2. \A i \in DOMAIN rx.inflight : IsEntry(rx.inflight[i])
  BY DEF Base, Typed, RxTyped
<1>3. f.seq < f.total
  BY <1>1 DEF Frames
<1>4. Joins(rx.inflight, f) =>
        \A s \in DOMAIN rx.inflight[f.id].chunks : rx.inflight[f.id].chunks[s] = f.msg /\ s < f.seq
  BY <1>1 DEF Reassembly, EntryFits, Joins
<1>5. /\ IsEntry(e) /\ e.total = f.total /\ ~e.old
      /\ f.seq \in DOMAIN e.chunks
      /\ Joins(rx.inflight, f) =>
           /\ DOMAIN e.chunks = DOMAIN rx.inflight[f.id].chunks \cup {f.seq}
           /\ \A s \in DOMAIN rx.inflight[f.id].chunks : e.chunks[s] = rx.inflight[f.id].chunks[s]
           /\ f.seq \notin DOMAIN rx.inflight[f.id].chunks => e.chunks[f.seq] = f.msg
      /\ ~Joins(rx.inflight, f) => DOMAIN e.chunks = {f.seq} /\ e.chunks[f.seq] = f.msg
  BY <1>1, <1>2, EntryEffect, SMTT(30)
<1>6. \A s \in DOMAIN e.chunks : e.chunks[s] = f.msg /\ s <= f.seq
  <2> SUFFICES ASSUME NEW s \in DOMAIN e.chunks PROVE e.chunks[s] = f.msg /\ s <= f.seq
    OBVIOUS
  <2>1. CASE Joins(rx.inflight, f)
    <3> PICK c : c = rx.inflight[f.id].chunks
      OBVIOUS
    <3>1. \A k \in DOMAIN c : c[k] = f.msg /\ k < f.seq
      BY <1>4, <2>1
    <3>2. DOMAIN c \subseteq Nat
      BY Zenon, <1>2, <2>1 DEF Joins, IsEntry
    <3>3. f.seq \notin DOMAIN c
      BY ONLY <1>1, <3>1
    <3>4. /\ DOMAIN e.chunks = DOMAIN c \cup {f.seq} /\ e.chunks[f.seq] = f.msg
          /\ \A k \in DOMAIN c : e.chunks[k] = c[k]
      BY Zenon, <1>5, <2>1, <3>3
    <3>5. s = f.seq \/ s \in DOMAIN c
      BY Zenon, <3>4
    <3> QED
      BY ONLY <1>1, <3>1, <3>2, <3>4, <3>5
  <2>2. CASE ~Joins(rx.inflight, f)
    <3>1. DOMAIN e.chunks = {f.seq} /\ e.chunks[f.seq] = f.msg
      BY Zenon, <1>5, <2>2
    <3>2. s = f.seq
      BY <3>1
    <3> QED
      BY ONLY <1>1, <3>1, <3>2
  <2> QED
    BY <2>1, <2>2
<1>7. ASSUME Complete(e) PROVE Final(f) /\ Assembled(e) = f.msg
  <2>1. DOMAIN e.chunks = 0 .. f.total - 1
    BY Zenon, <1>5, <1>7 DEF Complete
  <2>2. f.total - 1 \in DOMAIN e.chunks /\ 0 \in DOMAIN e.chunks
    BY <1>1, <1>3, <2>1
  <2>3. f.total - 1 <= f.seq
    BY <1>6, <2>2
  <2>4. Final(f)
    BY <1>1, <1>3, <2>3 DEF Final
  <2>5. e.chunks[0] = f.msg /\ \A s \in DOMAIN e.chunks : e.chunks[s] = e.chunks[0]
    BY <1>6, <2>2
  <2> QED
    BY <2>4, <2>5 DEF Assembled
<1> QED
  BY Zenon, <1>5, <1>6, <1>7

\* What is received: nothing, or the message whose last frame arrives.
LEMMA Arrival ==
  ASSUME Base, Frames, Reassembly, Ordered, NEW n \in LinkIds, Deliver(n), NEW f, f = chan[n].wire[1]
  PROVE  /\ rx'.link = rx.link /\ f \in Packet /\ f \in OnWire(n)
         /\ \/ received' = received
            \/ received' = received \o <<f.msg>> /\ Final(f) /\ rx.link = n
         /\ \/ rx' = rx /\ received' = received
            \/ /\ rx.link = n
               /\ \A i \in DOMAIN rx'.inflight :
                    \/ i # f.id /\ i \in DOMAIN rx.inflight /\ rx'.inflight[i] = rx.inflight[i]
                    \/ i = f.id /\ \A s \in DOMAIN rx'.inflight[i].chunks :
                                     rx'.inflight[i].chunks[s] = f.msg /\ s <= f.seq
<1>1. f = Head(chan[n].wire) /\ f \in Packet /\ f \in OnWire(n)
  BY DeliverWire
<1>2. /\ rx'.link = rx.link
      /\ \/ UNCHANGED <<rx, received>>
         \/ /\ rx.link = n
            /\ rx'.inflight = Push(rx.inflight, f).inflight
            /\ received' = received \o Push(rx.inflight, f).out
  BY <1>1, DeliverRx
<1>3. CASE UNCHANGED <<rx, received>>
  BY <1>1, <1>2, <1>3
<1>4. CASE /\ rx.link = n
           /\ rx'.inflight = Push(rx.inflight, f).inflight
           /\ received' = received \o Push(rx.inflight, f).out
  <2> PICK e : e = Entry(Prune(rx.inflight), f)
    OBVIOUS
  <2> PICK p : p = Push(rx.inflight, f)
    OBVIOUS
  <2>1. \A i \in DOMAIN rx.inflight : IsEntry(rx.inflight[i])
    BY DEF Base, Typed, RxTyped
  <2>2. /\ \A i \in DOMAIN p.inflight : \/ i # f.id /\ i \in DOMAIN rx.inflight /\ p.inflight[i] = rx.inflight[i]
                                        \/ i = f.id /\ p.inflight[i] = e
        /\ \/ Complete(e) /\ p.out = <<Assembled(e)>>
           \/ ~Complete(e) /\ p.out = <<>>
    BY <1>1, <2>1, PushEffect
  <2>3. /\ \A s \in DOMAIN e.chunks : e.chunks[s] = f.msg /\ s <= f.seq
        /\ Complete(e) => Final(f) /\ Assembled(e) = f.msg
    BY <1>4, ArrivalEntry, SMTT(30)
  <2>4. rx'.inflight = p.inflight /\ received' = received \o p.out /\ rx.link = n
    BY <1>4
  <2>5. \A i \in DOMAIN rx'.inflight :
          \/ i # f.id /\ i \in DOMAIN rx.inflight /\ rx'.inflight[i] = rx.inflight[i]
          \/ i = f.id /\ \A s \in DOMAIN rx'.inflight[i].chunks :
                           rx'.inflight[i].chunks[s] = f.msg /\ s <= f.seq
    <3> PICK J : J = rx'.inflight
      OBVIOUS
    <3>1. J = p.inflight
      BY <2>4
    <3>2. \A i \in DOMAIN J :
            \/ i # f.id /\ i \in DOMAIN rx.inflight /\ J[i] = rx.inflight[i]
            \/ i = f.id /\ J[i] = e
      BY <2>2, <3>1
    <3>3. \A i \in DOMAIN J :
            \/ i # f.id /\ i \in DOMAIN rx.inflight /\ J[i] = rx.inflight[i]
            \/ i = f.id /\ \A s \in DOMAIN J[i].chunks : J[i].chunks[s] = f.msg /\ s <= f.seq
      BY ONLY <2>3, <3>2
    <3> QED
      BY <3>3
  <2>6. \/ received' = received
        \/ received' = received \o <<f.msg>> /\ Final(f)
    <3>1. received \o <<>> = received
      BY DEF Ordered
    <3> QED
      BY Zenon, <2>2, <2>3, <2>4, <3>1
  <2> QED
    BY Zenon, <1>1, <1>2, <2>4, <2>5, <2>6
<1> QED
  BY Zenon, <1>2, <1>3, <1>4

\* The last of the messages received.
LEMMA LastIs ==
  ASSUME received \in Seq(1 .. Messages), NEW m \in 1 .. Messages, received' = received \o <<m>>
  PROVE  /\ received' \in Seq(1 .. Messages) /\ Len(received') = Len(received) + 1 /\ Len(received) \in Nat
         /\ received'[Len(received) + 1] = m /\ \A i \in 1 .. Len(received) : received'[i] = received[i]
         /\ received' # <<>> /\ LastReceived' = m
<1>1. /\ received' \in Seq(1 .. Messages) /\ Len(received') = Len(received) + 1 /\ Len(received) \in Nat
      /\ received'[Len(received) + 1] = m /\ \A i \in 1 .. Len(received) : received'[i] = received[i]
  OBVIOUS
<1>2. received' # <<>>
  BY <1>1
<1> QED
  BY <1>1, <1>2 DEF LastReceived

\* The last message received is a message, if there is one.
LEMMA LastNat ==
  ASSUME received \in Seq(1 .. Messages), Messages \in Nat
  PROVE  LastReceived \in 0 .. Messages /\ \A i \in 1 .. Len(received) : received[i] \in 1 .. Messages
BY DEF LastReceived

-----------------------------------------------------------------------------
(* Nothing overtakes *)

\* A task that has an id keeps what it has, or is rid of its message.
LEMMA NeutralPlaces ==
  ASSUME Base, Neutral, NEW t \in Generations
  PROVE  /\ PlaceRests(worker[t], worker'[t])
         /\ worker'[t].at \in WithId =>
              /\ HasId(t) /\ worker'[t].msg = worker[t].msg /\ worker'[t].link = worker[t].link
              /\ worker'[t].id = worker[t].id /\ worker'[t].seq = worker[t].seq
<1>1. PlaceRests(worker[t], worker'[t])
  <2>1. CASE Rests
    BY <2>1 DEF Rests, TaskRests
  <2>2. CASE Dawdle \/ \E n \in LinkIds : Deliver(n)
    <3>1. worker'[t] = worker[t]
      BY <2>2 DEF Dawdle, Deliver, Unsent
    <3> QED
      BY <3>1, RestsAlone DEF TaskRests
  <2>3. CASE \E g \in Generations : Calls(g)
    BY <2>3, CallsEffect
  <2>4. CASE \E u \in Generations, g \in Generations : Takes(u, g)
    BY <2>4, TakesEffect
  <2> QED
    BY <2>1, <2>2, <2>3, <2>4 DEF Neutral
<1>2. worker'[t].at \in WithId =>
        /\ HasId(t) /\ worker'[t].msg = worker[t].msg /\ worker'[t].link = worker[t].link
        /\ worker'[t].id = worker[t].id /\ worker'[t].seq = worker[t].seq
  BY <1>1 DEF PlaceRests, HasId
<1> QED
  BY <1>1, <1>2

\* A task that has sent chunks of its message goes on with it.
GoesOn ==
  \A t \in Generations : HasId(t) /\ worker'[t].msg # 0 =>
    /\ worker'[t].at \in WithId /\ worker'[t].msg = worker[t].msg
    /\ worker'[t].link = worker[t].link /\ worker[t].seq <= worker'[t].seq

\* Each kind of step lets a task that has an id go on with its message or drop it.
LEMMA KindsGoOn ==
  ASSUME Base, Base', Kinds
  PROVE  GoesOn
<1> SUFFICES ASSUME NEW t \in Generations, HasId(t), worker'[t].msg # 0
             PROVE  /\ worker'[t].at \in WithId /\ worker'[t].msg = worker[t].msg
                    /\ worker'[t].link = worker[t].link /\ worker[t].seq <= worker'[t].seq
  BY DEF GoesOn
<1>0. worker[t].seq \in Nat
  BY TaskFacts
<1>1. CASE Neutral
  <2>1. PlaceRests(worker[t], worker'[t])
    BY <1>1, NeutralPlaces
  <2>2. worker'[t].at \in WithId
    BY <2>1 DEF PlaceRests, HasId
  <2> QED
    BY <1>0, <1>1, <2>2, NeutralPlaces
<1>2. ASSUME NEW u \in Generations, TakesId(u)
      PROVE  /\ worker'[t].at \in WithId /\ worker'[t].msg = worker[t].msg
             /\ worker'[t].link = worker[t].link /\ worker[t].seq <= worker'[t].seq
  <2>1. t # u
    BY <1>2 DEF TakesId, HasId, WithId
  <2>2. worker'[t] = worker[t]
    BY <1>2, <2>1 DEF TakesId
  <2> QED
    BY <1>0, <2>2 DEF HasId
<1>3. ASSUME NEW u \in Generations, Sends(u)
      PROVE  /\ worker'[t].at \in WithId /\ worker'[t].msg = worker[t].msg
             /\ worker'[t].link = worker[t].link /\ worker[t].seq <= worker'[t].seq
  <2>1. CASE t # u
    BY <1>0, <1>3, <2>1 DEF Sends, HasId
  <2>2. CASE t = u
    BY <1>0, <1>3, <2>2 DEF Sends, WithId
  <2> QED
    BY <2>1, <2>2
<1> QED
  BY <1>1, <1>2, <1>3 DEF Kinds, Neutral

\* Frame f is the next chunk of what task t sends on link n.
SentBy(f, n, t) == Sends(t) /\ n = worker[t].link /\ f = MakeFrame(worker[t].id, worker[t].seq, worker[t].msg)

\* A frame on a link was there or has just been sent.
LEMMA KindsFrames ==
  ASSUME Base, Base', Kinds, NEW n \in LinkIds, NEW f \in OnWire(n)'
  PROVE  f \in OnWire(n) \/ \E t \in Generations : SentBy(f, n, t)
<1>1. CASE Neutral \/ \E t \in Generations : TakesId(t)
  BY <1>1, NeutralWire, ShrinkingWire
<1>2. ASSUME NEW t \in Generations, Sends(t)
      PROVE  f \in OnWire(n) \/ SentBy(f, n, t)
  <2> PICK l : l = worker[t].link
    OBVIOUS
  <2>1. CASE n = l
    <3>1. OnWire(n)' = OnWire(n) \cup {MakeFrame(worker[t].id, worker[t].seq, worker[t].msg)}
      BY <1>2, <2>1, SendsLinks
    <3> QED
      BY <1>2, <2>1, <3>1 DEF SentBy
  <2>2. CASE n # l
    BY <1>2, <2>2, SendsLinks
  <2> QED
    BY <2>1, <2>2
<1> QED
  BY <1>1, <1>2 DEF Kinds, Neutral

\* What was received last changes only to the message of a last frame on a link.
LastMoves ==
  \/ LastReceived' = LastReceived
  \/ \E n \in LinkIds : \E f \in OnWire(n) : Final(f) /\ f \in Packet /\ LastReceived' = f.msg

\* Each kind of step moves LastReceived so.
LEMMA KindsLast ==
  ASSUME Base, Base', Frames, Reassembly, Ordered, Kinds
  PROVE  LastMoves
<1>1. CASE \E n \in LinkIds : Deliver(n)
  <2> PICK n \in LinkIds : Deliver(n)
    BY <1>1
  <2> PICK f : f = chan[n].wire[1]
    OBVIOUS
  <2>1. f \in Packet /\ f \in OnWire(n)
        /\ (received' = received \/ (received' = received \o <<f.msg>> /\ Final(f)))
    BY Arrival
  <2>2. f.msg \in 1 .. Messages
    BY <2>1, WireFacts
  <2>3. CASE received' = received
    BY <2>3 DEF LastMoves, LastReceived
  <2>4. CASE received' = received \o <<f.msg>> /\ Final(f)
    <3>1. LastReceived' = f.msg
      BY <2>2, <2>4, LastIs DEF Ordered
    <3> QED
      BY <2>1, <2>4, <3>1 DEF LastMoves
  <2> QED
    BY <2>1, <2>3, <2>4
<1>2. CASE ~\E n \in LinkIds : Deliver(n)
  <2>1. received' = received
    BY <1>2 DEF Kinds, Rests, Dawdle, Calls, Takes, TakesId, Sends
  <2> QED
    BY <2>1 DEF LastMoves, LastReceived
<1> QED
  BY <1>1, <1>2

\* The sender of a frame, against the queues and the other task.
LEMMA SenderFirst ==
  ASSUME Base, Order, Unreturned, NEW t \in Generations, NEW n \in LinkIds, NEW f, SentBy(f, n, t)
  PROVE  /\ f.msg = worker[t].msg /\ f.seq = worker[t].seq /\ n = worker[t].link /\ HasId(t) /\ HasJob(t)
         /\ f.msg \in Nat /\ f.seq \in Nat /\ f.msg <= calls
         /\ \A g \in Generations : \A m \in Waiting(g) : f.msg < m
         /\ \A u \in Generations : u # t /\ HasJob(u) => f.msg < worker[u].msg
<1>1. /\ f.msg = worker[t].msg /\ f.seq = worker[t].seq /\ n = worker[t].link /\ HasId(t) /\ HasJob(t)
      /\ f.msg \in Nat /\ f.seq \in Nat
  BY SendsLinks, Constants DEF SentBy
<1>2. worker[t].gen = 1
  <2>1. worker[t].gen \in Generations /\ worker[t].link # 0
    BY <1>1, TaskFacts DEF HasJob, HasId, Sensible, OfLink, OnLink
  <2> QED
    BY <1>1, <2>1 DEF Order, Generations
<1>3. \A g \in Generations : \A m \in Waiting(g) : f.msg < m
  BY <1>1, <1>2 DEF Order, Generations
<1>4. \A u \in Generations : u # t /\ HasJob(u) => f.msg < worker[u].msg
  BY <1>1, <1>2 DEF Order
<1> QED
  BY <1>1, <1>3, <1>4 DEF Unreturned

\* What is left of queues and jobs is still ahead of what is sent and received.
LEMMA SettledAhead ==
  ASSUME Base, Base', Order, Unreturned, Ahead, Frames, Settled, Kinds, GoesOn, LastMoves
  PROVE  Ahead'
<1>0. /\ \A g \in Generations : Waiting(g)' \subseteq Waiting(g)
      /\ \A t \in Generations : worker'[t].msg # 0 => HasJob(t) /\ worker'[t].msg = worker[t].msg
      /\ calls' = calls
  <2>1. ASSUME NEW g \in Generations PROVE Waiting(g)' \subseteq Waiting(g)
    <3>1. CASE queue'[g] = queue[g]
      BY <3>1 DEF Waiting
    <3>2. CASE queue'[g] = <<>>
      BY <3>2 DEF Waiting
    <3> QED
      BY <3>1, <3>2 DEF Settled, QueuesRest
  <2>2. \A t \in Generations : worker'[t].msg # 0 => HasJob(t) /\ worker'[t].msg = worker[t].msg
    BY DEF Settled, JobRests, HasJob
  <2> QED
    BY <2>1, <2>2 DEF Settled
<1>1. ASSUME NEW g \in Generations, NEW m \in Waiting(g)'
      PROVE  LastReceived' < m /\ \A n \in LinkIds : \A f \in OnWire(n)' : f.msg < m
  <2>1. m \in Waiting(g)
    BY <1>0, <1>1
  <2>2. LastReceived < m /\ \A n \in LinkIds : \A f \in OnWire(n) : f.msg < m
    BY <2>1 DEF Ahead
  <2>3. LastReceived' < m
    BY <2>2 DEF LastMoves
  <2>4. \A n \in LinkIds : \A f \in OnWire(n)' : f.msg < m
    BY <2>1, <2>2, KindsFrames, SenderFirst
  <2> QED
    BY <2>3, <2>4
<1>2. LastReceived' <= calls
  BY DEF LastMoves, Ahead
<1>3. \A n \in LinkIds : \A f \in OnWire(n)' : f.msg <= calls
  BY KindsFrames, SenderFirst DEF Ahead
<1>4. ASSUME NEW t \in Generations, worker'[t].msg # 0
      PROVE  LastReceived' < worker'[t].msg
  <2>1. HasJob(t) /\ worker'[t].msg = worker[t].msg
    BY <1>0, <1>4
  <2>2. LastReceived < worker[t].msg
    BY <2>1 DEF Ahead
  <2>3. ASSUME NEW n \in LinkIds, NEW f \in OnWire(n), Final(f), LastReceived' = f.msg
        PROVE  f.msg < worker[t].msg
    <3>1. Behind(f, n, t) /\ outcome[worker[t].msg] = "none"
      BY <2>1 DEF Ahead, Unreturned
    <3>2. outcome[f.msg] = "ok"
      BY <2>3 DEF Frames, Final
    <3> QED
      BY <3>1, <3>2 DEF Behind
  <2> QED
    BY <2>1, <2>2, <2>3 DEF LastMoves
<1>5. ASSUME NEW t \in Generations, worker'[t].msg # 0, NEW n \in LinkIds, NEW f \in OnWire(n)'
      PROVE  Behind(f, n, t)'
  <2>1. HasJob(t) /\ worker'[t].msg = worker[t].msg
    BY <1>0, <1>5
  <2>2. CASE f \in OnWire(n)
    <3>1. Behind(f, n, t) /\ f.seq \in Nat /\ worker[t].seq \in Nat
      BY <2>1, <2>2, WireFacts, TaskFacts DEF Ahead
    <3>2. CASE f.msg < worker[t].msg
      BY <2>1, <3>2 DEF Behind
    <3>3. CASE HasId(t) /\ n = worker[t].link /\ f.msg = worker[t].msg /\ f.seq < worker[t].seq
      <4>1. /\ worker'[t].at \in WithId /\ worker'[t].link = worker[t].link /\ worker[t].seq <= worker'[t].seq
        BY <1>5, <3>3 DEF GoesOn
      <4>2. worker'[t].seq \in Nat
        BY DEF Base, Typed, TasksTyped, Task
      <4>3. f.seq < worker'[t].seq
        BY <3>1, <3>3, <4>1, <4>2
      <4> QED
        BY <2>1, <3>3, <4>1, <4>3 DEF Behind, HasId
    <3> QED
      BY <3>1, <3>2, <3>3 DEF Behind
  <2>3. ASSUME NEW u \in Generations, SentBy(f, n, u) PROVE Behind(f, n, t)'
    <3>1. f.msg = worker[u].msg /\ f.seq = worker[u].seq /\ n = worker[u].link /\ f.seq \in Nat
          /\ (u # t => f.msg < worker[t].msg)
      BY <2>1, <2>3, SenderFirst
    <3>2. CASE u # t
      BY <2>1, <3>1, <3>2 DEF Behind
    <3>3. CASE u = t
      <4>1. worker'[t].at \in WithId /\ worker'[t].link = n /\ worker'[t].seq = f.seq + 1
        BY <1>5, <2>3, <3>1, <3>3 DEF SentBy, Sends, WithId
      <4>2. f.seq < worker'[t].seq
        BY <3>1, <4>1
      <4> QED
        BY <2>1, <3>1, <3>3, <4>1, <4>2 DEF Behind, HasId
    <3> QED
      BY <3>2, <3>3
  <2> QED
    BY <1>5, <2>2, <2>3, KindsFrames
<1> QED
  BY <1>0, <1>1, <1>2, <1>3, <1>4, <1>5 DEF Ahead, HasJob

\* Each kind of step keeps Ahead.
LEMMA AheadStep ==
  ASSUME Base, Base', Order, Unreturned, Ahead, Frames, Reassembly, Ordered, Kinds
  PROVE  Ahead'
<1>1. GoesOn /\ LastMoves
  BY KindsGoOn, KindsLast
<1>2. ASSUME NEW g \in Generations, Calls(g) PROVE Ahead'
  <2>1. /\ calls' = calls + 1 /\ calls \in Nat
        /\ Waiting(g)' = Waiting(g) \cup {calls + 1}
        /\ \A h \in Generations : h # g => Waiting(h)' = Waiting(h)
        /\ \A t \in Generations : worker'[t].msg = 0 \/ worker'[t] = worker[t]
    BY <1>2, CallsEffect
  <2>2. LastReceived' = LastReceived /\ LastReceived \in Nat /\ chan' = chan
    BY <1>2, LastNat, Constants DEF Calls, Ordered, LastReceived
  <2>3. \A n \in LinkIds : OnWire(n)' = OnWire(n) /\ \A f \in OnWire(n) : f.msg \in Nat
    BY <2>2, WireFacts, Constants DEF OnWire
  <2>4. \A h \in Generations : \A m \in Waiting(h)' : m \in Waiting(h) \/ m = calls + 1
    BY <2>1
  <2>5. \A h \in Generations : \A m \in Waiting(h)' :
          LastReceived < m /\ \A n \in LinkIds : \A f \in OnWire(n) : f.msg < m
    BY <2>1, <2>2, <2>3, <2>4 DEF Ahead
  <2>6. LastReceived <= calls + 1 /\ \A n \in LinkIds : \A f \in OnWire(n) : f.msg <= calls + 1
    BY <2>1, <2>2, <2>3 DEF Ahead
  <2>7. ASSUME NEW t \in Generations, worker'[t].msg # 0
        PROVE  LastReceived < worker'[t].msg /\ \A n \in LinkIds : \A f \in OnWire(n) : Behind(f, n, t)'
    <3>1. worker'[t] = worker[t] /\ HasJob(t)
      BY <2>1, <2>7 DEF HasJob
    <3> QED
      BY <3>1 DEF Ahead, Behind, HasId
  <2> QED
    BY <2>1, <2>2, <2>3, <2>5, <2>6, <2>7 DEF Ahead, HasJob
<1>3. ASSUME NEW t \in Generations, NEW g \in Generations, Takes(t, g) PROVE Ahead'
  <2>1. /\ \A h \in Generations : Waiting(h)' \subseteq Waiting(h)
        /\ worker'[t].msg \in Waiting(g)
    BY <1>3, TakesEffect
  <2>2. LastReceived' = LastReceived /\ calls' = calls /\ \A u \in Generations : u # t => worker'[u] = worker[u]
    BY <1>3 DEF Takes, LastReceived
  <2>3. \A n \in LinkIds : OnWire(n)' = OnWire(n)
    BY <1>3 DEF Takes, OnWire
  <2>4. ASSUME NEW u \in Generations, worker'[u].msg # 0
        PROVE  LastReceived < worker'[u].msg /\ \A n \in LinkIds : \A f \in OnWire(n) : Behind(f, n, u)'
    <3>1. CASE u = t
      BY <2>1, <3>1 DEF Ahead, Behind
    <3>2. CASE u # t
      <4>1. worker'[u] = worker[u] /\ HasJob(u)
        BY <2>2, <2>4, <3>2 DEF HasJob
      <4> QED
        BY <4>1 DEF Ahead, Behind, HasId
    <3> QED
      BY <3>1, <3>2
  <2> QED
    BY <2>1, <2>2, <2>3, <2>4 DEF Ahead, HasJob
<1>4. CASE \/ Rests \/ Dawdle
           \/ \E t \in Generations : TakesId(t) \/ Sends(t)
           \/ \E n \in LinkIds : Deliver(n)
  BY <1>1, <1>4, KindsSettle, SettledAhead
<1> QED
  BY <1>2, <1>3, <1>4 DEF Kinds

-----------------------------------------------------------------------------
(* Frames stay in order, ids stay apart *)

\* An answer is final.
LEMMA AnswersStay ==
  ASSUME Base, Unreturned, Kinds, NEW k \in 1 .. Messages, outcome[k] # "none"
  PROVE  outcome'[k] = outcome[k]
<1>1. CASE \/ Rests \/ Dawdle
           \/ \E t \in Generations : TakesId(t) \/ Sends(t)
           \/ \E n \in LinkIds : Deliver(n)
  BY <1>1, KindsAnswer, GivenUpWas DEF Answers
<1>2. CASE \/ \E g \in Generations : Calls(g)
           \/ \E t \in Generations, g \in Generations : Takes(t, g)
  BY <1>2 DEF Calls, Takes
<1> QED
  BY <1>1, <1>2 DEF Kinds

\* Each kind of step keeps Frames.
LEMMA FramesStep ==
  ASSUME Base, Base', Order, Unreturned, Ahead, Frames, IdsApart, Kinds
  PROVE  Frames'
<1>1. ASSUME NEW n \in LinkIds, NEW f \in OnWire(n)'
      PROVE  f.total = Chunks[f.msg] /\ f.seq < f.total /\ (f.seq + 1 = f.total => outcome'[f.msg] = "ok")
  <2>1. CASE f \in OnWire(n)
    <3>1. f.total = Chunks[f.msg] /\ f.seq < f.total /\ (f.seq + 1 = f.total => outcome[f.msg] = "ok")
      BY <2>1 DEF Frames
    <3>2. f.msg \in 1 .. Messages
      BY <2>1, WireFacts
    <3> QED
      BY <3>1, <3>2, AnswersStay
  <2>2. ASSUME NEW t \in Generations, SentBy(f, n, t)
        PROVE  f.total = Chunks[f.msg] /\ f.seq < f.total /\ (f.seq + 1 = f.total => outcome'[f.msg] = "ok")
    <3>1. /\ f.seq = worker[t].seq /\ f.msg = worker[t].msg /\ f.total = Chunks[worker[t].msg] /\ HasId(t)
      BY <2>2, SendsLinks DEF SentBy
    <3>2. f.seq < f.total
      BY <3>1 DEF IdsApart
    <3>3. f.seq + 1 = f.total => outcome'[f.msg] = "ok"
      BY <2>2, <3>1 DEF SentBy, Sends, LastChunk, ChunkCount
    <3> QED
      BY <3>1, <3>2, <3>3
  <2> QED
    BY <2>1, <2>2, <1>1, KindsFrames
<1>2. ASSUME NEW n \in LinkIds, NEW k \in 1 .. Len(chan'[n].wire), NEW l \in 1 .. Len(chan'[n].wire), k < l
      PROVE  Precedes(chan'[n].wire[k], chan'[n].wire[l])
  <2>1. CASE Shrinks(n)
    <3> PICK off \in {0, 1} :
        \A i \in 1 .. Len(chan'[n].wire) :
             i + off \in 1 .. Len(chan[n].wire) /\ chan'[n].wire[i] = chan[n].wire[i + off]
      BY <2>1 DEF Shrinks
    <3>1. k + off \in 1 .. Len(chan[n].wire) /\ l + off \in 1 .. Len(chan[n].wire) /\ k + off < l + off
      BY <1>2, ShrinkingWire, <2>1
    <3>2. Precedes(chan[n].wire[k + off], chan[n].wire[l + off])
      BY <3>1 DEF Frames
    <3> QED
      BY <3>2
  <2>2. ASSUME NEW t \in Generations, Sends(t) PROVE Precedes(chan'[n].wire[k], chan'[n].wire[l])
    <3> PICK len : len = Len(chan[n].wire)
      OBVIOUS
    <3>1. CASE n # worker[t].link
      <4>1. chan'[n] = chan[n]
        BY <2>2, <3>1, SendsLinks
      <4> QED
        BY <1>2, <4>1 DEF Frames
    <3>2. CASE n = worker[t].link
      <4> PICK f : f = MakeFrame(worker[t].id, worker[t].seq, worker[t].msg)
        OBVIOUS
      <4>1. /\ f.seq = worker[t].seq /\ f.msg = worker[t].msg /\ HasJob(t)
            /\ len \in Nat /\ Len(chan'[n].wire) = len + 1 /\ chan'[n].wire[len + 1] = f
            /\ \A i \in 1 .. len : chan'[n].wire[i] = chan[n].wire[i]
        <5> PICK v : v = worker[t]
          OBVIOUS
        <5> PICK w : w = chan'[n].wire
          OBVIOUS
        <5>1. f.seq = v.seq /\ f.msg = v.msg /\ HasJob(t) /\ len \in Nat
          BY <2>2, <3>2, SendsLinks
        <5>2. Len(w) = len + 1 /\ w[len + 1] = f
          BY <2>2, <3>2, SendsLinks
        <5>3. \A i \in 1 .. len : w[i] = chan[n].wire[i]
          BY <2>2, <3>2, SendsLinks
        <5> QED
          BY <5>1, <5>2, <5>3
      <4>2. k \in 1 .. len /\ (l \in 1 .. len \/ l = len + 1)
        BY <1>2, <4>1
      <4>3. CASE l \in 1 .. len
        BY <1>2, <4>1, <4>2, <4>3 DEF Frames
      <4>4. CASE l = len + 1
        <5>1. chan[n].wire[k] \in OnWire(n)
          BY <4>2 DEF OnWire
        <5>2. Behind(chan[n].wire[k], n, t)
          BY <4>1, <5>1 DEF Ahead
        <5>3. Precedes(chan[n].wire[k], f)
          BY <4>1, <5>2 DEF Behind, Precedes
        <5> QED
          BY <4>1, <4>2, <4>4, <5>3
      <4> QED
        BY <4>2, <4>3, <4>4
    <3> QED
      BY <3>1, <3>2
  <2> QED
    BY <2>1, <2>2, NeutralWire DEF Kinds, Neutral
<1> QED
  BY <1>1, <1>2 DEF Frames

\* Each kind of step keeps Ordered.
LEMMA OrderedStep ==
  ASSUME Base, Base', Frames, Reassembly, Ordered, Kinds
  PROVE  Ordered'
<1>1. CASE received' = received
  BY <1>1 DEF Ordered
<1>2. ASSUME NEW n \in LinkIds, Deliver(n) PROVE Ordered'
  <2> PICK f : f = chan[n].wire[1]
    OBVIOUS
  <2>1. f \in Packet /\ f \in OnWire(n)
        /\ (received' = received \/ (received' = received \o <<f.msg>> /\ rx.link = n))
    BY <1>2, Arrival
  <2>2. CASE received' = received \o <<f.msg>> /\ rx.link = n
    <3> PICK m \in 1 .. Messages : m = f.msg
      BY <2>1, WireFacts
    <3> PICK len : len = Len(received)
      OBVIOUS
    <3>1. /\ received' \in Seq(1 .. Messages) /\ Len(received') = len + 1 /\ len \in Nat
          /\ received'[len + 1] = m /\ \A i \in 1 .. len : received'[i] = received[i]
      BY <2>2, LastIs DEF Ordered
    <3>2. LastReceived < m
      BY <2>1, <2>2 DEF Reassembly
    <3>3. \A i \in 1 .. len : received[i] < m
      <4> SUFFICES ASSUME NEW i \in 1 .. len PROVE received[i] < m
        OBVIOUS
      <4>1. len # 0 /\ received # <<>> /\ len \in 1 .. len
        BY <3>1
      <4>2. received[len] < m
        BY <3>2, <4>1 DEF LastReceived
      <4>3. i = len \/ received[i] < received[len]
        BY <3>1, <4>1 DEF Ordered
      <4>4. received[i] \in 1 .. Messages /\ received[len] \in 1 .. Messages
        BY <4>1, LastNat, Constants DEF Ordered
      <4> QED
        BY <4>2, <4>3, <4>4, Constants
    <3>4. \A i, j \in 1 .. Len(received') : i < j => received'[i] < received'[j]
      <4> SUFFICES ASSUME NEW i \in 1 .. len + 1, NEW j \in 1 .. len + 1, i < j PROVE received'[i] < received'[j]
        BY <3>1
      <4>1. i \in 1 .. len /\ (j \in 1 .. len \/ j = len + 1)
        BY <3>1
      <4>2. CASE j = len + 1
        BY <3>1, <3>3, <4>1, <4>2
      <4>3. CASE j \in 1 .. len
        BY <3>1, <4>1, <4>3 DEF Ordered
      <4> QED
        BY <4>1, <4>2, <4>3
    <3> QED
      BY <3>1, <3>4 DEF Ordered
  <2> QED
    BY <1>1, <2>1, <2>2
<1>3. CASE ~\E n \in LinkIds : Deliver(n)
  <2>1. received' = received
    BY <1>3 DEF Kinds, Rests, Dawdle, Calls, Takes, TakesId, Sends
  <2> QED
    BY <1>1, <2>1
<1> QED
  BY <1>2, <1>3

-----------------------------------------------------------------------------
(* Ids stay apart *)

\* The distance of ids, and how it grows when one is taken.
LEMMA Distances ==
  ASSUME NEW i \in 0 .. IdSpace - 1, NEW next \in 0 .. IdSpace - 1
  PROVE  /\ Dist(i, next) \in 1 .. IdSpace
         /\ Dist(next, next) = IdSpace
         /\ NextId1(next) \in 0 .. IdSpace - 1
         /\ Dist(next, NextId1(next)) = 1
         /\ i # next => Dist(i, NextId1(next)) = Dist(i, next) + 1
<1>1. IdSpace \in Nat /\ IdSpace > 1
  BY Constants
<1>2. Dist(i, next) \in 1 .. IdSpace
  BY <1>1 DEF Dist
<1>3. Dist(next, next) = IdSpace
  BY <1>1 DEF Dist
<1>4. CASE next + 1 = IdSpace
  <2>1. NextId1(next) = 0
    BY <1>4 DEF NextId1
  <2> QED
    BY <1>1, <1>2, <1>3, <1>4, <2>1 DEF Dist
<1>5. CASE next + 1 # IdSpace
  <2>1. NextId1(next) = next + 1
    BY <1>5 DEF NextId1
  <2> QED
    BY <1>1, <1>2, <1>3, <1>5, <2>1 DEF Dist
<1> QED
  BY <1>4, <1>5

\* The ids on a link.
LEMMA WireIds ==
  ASSUME Base, NEW n \in LinkIds, NEW k \in 1 .. Len(chan[n].wire)
  PROVE  /\ chan[n].wire[k].id \in 0 .. IdSpace - 1 /\ chan[n].nextId \in 0 .. IdSpace - 1
         /\ k \in Nat /\ Len(chan[n].wire) \in Nat
<1>1. chan[n].wire[k] \in Packet
  BY WireFacts
<1> QED
  BY <1>1, WireFacts

\* A link in use was so before, or has nothing on it.
LEMMA NeutralLive ==
  ASSUME Base, Base', Neutral, NEW n \in LinkIds, Live(n)', chan'[n].wire # <<>>
  PROVE  /\ Live(n) /\ chan'[n].nextId = chan[n].nextId
         /\ Starting(n) => Starting(n)'
<1>1. /\ chan'[n].nextId = chan[n].nextId
      /\ Opened(chan'[n]) => Opened(chan[n])
  <2>1. CASE Rests
    <3>1. LinkRests(chan[n], chan'[n])
      BY <2>1 DEF Rests
    <3> QED
      BY <3>1 DEF LinkRests, Opened
  <2>2. CASE Dawdle \/ (\E g \in Generations : Calls(g)) \/ \E t \in Generations, g \in Generations : Takes(t, g)
    BY <2>2 DEF Dawdle, Calls, Takes, Opened
  <2>3. ASSUME NEW m \in LinkIds, Deliver(m)
        PROVE  chan'[n].nextId = chan[n].nextId /\ (Opened(chan'[n]) => Opened(chan[n]))
    <3>1. CASE n = m
      BY <2>3, <3>1, DeliverLink DEF Opened
    <3>2. CASE n # m
      BY <2>3, <3>2, DeliverLink DEF Opened
    <3> QED
      BY <3>1, <3>2
  <2> QED
    BY <2>1, <2>2, <2>3 DEF Neutral
<1>2. ASSUME NEW t \in Generations, worker'[t].at \in OnLink, worker'[t].link = n
      PROVE  (worker[t].at \in OnLink /\ worker[t].link = n) \/ Opened(chan'[n])
  <2>1. PlaceRests(worker[t], worker'[t])
    BY NeutralPlaces
  <2> QED
    BY <1>2, <2>1 DEF PlaceRests
<1>3. Live(n)
  BY <1>1, <1>2 DEF Live
<1>4. ASSUME NEW u \in Generations, HasId(u), worker[u].link = n, worker[u].seq = 0
      PROVE  Starting(n)'
  <2>1. PlaceRests(worker[u], worker'[u])
    BY NeutralPlaces
  <2>2. CASE worker'[u].at \in WithId
    BY <1>4, <2>2, NeutralPlaces DEF Starting, HasId
  <2>3. CASE worker'[u].at \notin WithId
    <3>1. worker'[u].at \notin OnLink /\ ~Opened(chan'[n])
      BY <1>4, <2>1, <2>3 DEF PlaceRests, HasId
    <3> PICK t \in Generations : worker'[t].at \in OnLink /\ worker'[t].link = n
      BY <3>1 DEF Live
    <3>2. worker[t].at \in OnLink /\ worker[t].link = n
      BY <1>2, <3>1
    <3>3. t # u
      BY <3>1
    <3>4. n # 0
      BY Constants DEF LinkIds
    <3> QED
      BY <1>4, <3>2, <3>3, <3>4 DEF Base, OneSender
  <2> QED
    BY <2>2, <2>3
<1>5. Starting(n) => Starting(n)'
  BY <1>4 DEF Starting
<1> QED
  BY <1>1, <1>3, <1>5

\* Ids stay apart where none is taken and no frame is sent.
LEMMA NeutralApart ==
  ASSUME Base, Base', IdsApart, Neutral
  PROVE  IdsApart'
<1>1. ASSUME NEW n \in LinkIds
      PROVE  /\ OnWire(n)' \subseteq OnWire(n) /\ Len(chan'[n].wire) <= Len(chan[n].wire) /\ Shrinks(n)
             /\ Len(chan'[n].wire) \in Nat /\ Len(chan[n].wire) \in Nat
  BY NeutralWire, ShrinkingWire
<1>2. ASSUME NEW n \in LinkIds, NEW f \in OnWire(n)', NEW h \in OnWire(n)', f.id = h.id PROVE f.msg = h.msg
  BY <1>1, <1>2 DEF IdsApart
<1>3. ASSUME NEW t \in Generations, worker'[t].at \in WithId
      PROVE  /\ chan'[worker'[t].link].nextId = NextId1(worker'[t].id)
             /\ worker'[t].seq < Chunks[worker'[t].msg]
             /\ \A f \in OnWire(worker[t].link)' : f.id = worker'[t].id => f.msg = worker'[t].msg
  <2> PICK n : n = worker[t].link
    OBVIOUS
  <2>1. /\ HasId(t) /\ worker'[t].msg = worker[t].msg /\ worker'[t].link = n
        /\ worker'[t].id = worker[t].id /\ worker'[t].seq = worker[t].seq
    BY <1>3, NeutralPlaces
  <2>2. n \in LinkIds
    BY <2>1, TaskFacts DEF HasId, Sensible, OfLink, OnLink
  <2>3. chan'[n].nextId = chan[n].nextId
    <3>1. CASE Rests
      BY <2>2, <3>1 DEF Rests, LinkRests
    <3>2. CASE Dawdle \/ (\E g \in Generations : Calls(g)) \/ \E u \in Generations, g \in Generations : Takes(u, g)
      BY <3>2 DEF Dawdle, Calls, Takes
    <3>3. ASSUME NEW m \in LinkIds, Deliver(m) PROVE chan'[n].nextId = chan[n].nextId
      <4>1. CASE n = m
        BY <3>3, <4>1, DeliverLink
      <4>2. CASE n # m
        BY <2>2, <3>3, <4>2, DeliverLink
      <4> QED
        BY <4>1, <4>2
    <3> QED
      BY <3>1, <3>2, <3>3 DEF Neutral
  <2>4. /\ chan[n].nextId = NextId1(worker[t].id)
        /\ worker[t].seq < Chunks[worker[t].msg]
        /\ \A f \in OnWire(n) : f.id = worker[t].id => f.msg = worker[t].msg
    BY <2>1 DEF IdsApart
  <2>5. OnWire(n)' \subseteq OnWire(n)
    BY <1>1, <2>2
  <2>6. OnWire(worker[t].link)' = OnWire(n)'
    BY <2>1 DEF OnWire
  <2> QED
    BY <2>1, <2>3, <2>4, <2>5, <2>6
<1>4. ASSUME NEW n \in LinkIds, Live(n)', NEW k \in 1 .. Len(chan'[n].wire) PROVE Recent(n, k)'
  <2>1. chan'[n].wire # <<>> /\ Len(chan'[n].wire) # 0
    BY <1>4
  <2>2. /\ Live(n) /\ chan'[n].nextId = chan[n].nextId /\ (Starting(n) => Starting(n)')
    BY <1>4, <2>1, NeutralLive
  <2> PICK off \in {0, 1} :
      /\ Len(chan'[n].wire) + off = Len(chan[n].wire)
      /\ \A i \in 1 .. Len(chan'[n].wire) :
           i + off \in 1 .. Len(chan[n].wire) /\ chan'[n].wire[i] = chan[n].wire[i + off]
    BY <1>1, <2>1 DEF Shrinks
  <2> PICK j : j = k + off
    OBVIOUS
  <2>3. j \in 1 .. Len(chan[n].wire) /\ chan'[n].wire[k] = chan[n].wire[j]
    BY <1>4
  <2>4. Recent(n, j)
    BY <2>2, <2>3 DEF IdsApart
  <2>5. k - Len(chan'[n].wire) = j - Len(chan[n].wire) /\ k \in Nat /\ j \in Nat
    <3> PICK a : a = Len(chan'[n].wire)
      OBVIOUS
    <3> PICK b : b = Len(chan[n].wire)
      OBVIOUS
    <3>1. a \in Nat /\ b \in Nat /\ a + off = b /\ k \in 1 .. a /\ j = k + off
      BY <1>1, <1>4
    <3>2. k - a = j - b /\ k \in Nat /\ j \in Nat
      BY ONLY <3>1, off \in {0, 1}
    <3> QED
      BY <3>2
  <2> PICK d : d = Dist(chan[n].wire[j].id, chan[n].nextId)
    OBVIOUS
  <2>6. d \in Nat
    <3> PICK i \in 0 .. IdSpace - 1 : i = chan[n].wire[j].id
      BY <2>3, WireIds
    <3> PICK next \in 0 .. IdSpace - 1 : next = chan[n].nextId
      BY <2>3, WireIds
    <3>1. Dist(i, next) \in 1 .. IdSpace
      BY Distances
    <3> QED
      BY <3>1, Constants
  <2>7. Dist(chan'[n].wire[k].id, chan'[n].nextId) = d
    BY <2>2, <2>3
  <2>8. d + k - Len(chan'[n].wire) = d + j - Len(chan[n].wire)
    BY <1>1, <2>5, <2>6
  <2>9. d + j - Len(chan[n].wire) <= 1 \/ (d + j - Len(chan[n].wire) = 2 /\ Starting(n))
    BY <2>4 DEF Recent
  <2> QED
    BY <2>2, <2>7, <2>8, <2>9 DEF Recent
<1>5. ASSUME NEW n \in LinkIds PROVE Len(chan'[n].wire) <= HighWater + 1
  BY <1>1, Constants DEF IdsApart
<1>6. ASSUME NEW t \in Generations, worker'[t].at = "send"
      PROVE  Len(chan'[worker'[t].link].wire) <= HighWater
  <2>1. /\ HasId(t) /\ worker'[t].link = worker[t].link /\ PlaceRests(worker[t], worker'[t])
    BY <1>6, NeutralPlaces DEF WithId
  <2>2. worker[t].link \in LinkIds
    BY <2>1, TaskFacts DEF HasId, Sensible, OfLink, OnLink
  <2>3. Len(chan[worker[t].link].wire) <= HighWater
    BY <1>6, <2>1 DEF IdsApart, PlaceRests
  <2> QED
    BY <1>1, <2>1, <2>2, <2>3, Constants
<1> QED
  BY <1>2, <1>3, <1>4, <1>5, <1>6 DEF IdsApart, HasId

\* No frame on the link has the id that is taken.
LEMMA NextIdFree ==
  ASSUME Base, IdsApart, NEW t \in Generations, TakesId(t), NEW n, n = worker[t].link
  PROVE  /\ n \in LinkIds /\ Live(n) /\ ~Starting(n)
         /\ \A k \in 1 .. Len(chan[n].wire) :
              /\ chan[n].wire[k].id # chan[n].nextId
              /\ Dist(chan[n].wire[k].id, chan[n].nextId) + k - Len(chan[n].wire) <= 1
<1>1. n \in LinkIds /\ worker[t].at \in OnLink /\ \A u \in Generations : u # t => worker[u].link = 0
  BY TakesIdLinks
<1>2. Live(n)
  BY <1>1 DEF Live
<1>3. ~Starting(n)
  <2>1. n # 0
    BY <1>1, Constants DEF LinkIds
  <2>2. ~HasId(t)
    BY DEF TakesId, HasId, WithId
  <2> QED
    BY <1>1, <2>1, <2>2 DEF Starting
<1>4. ASSUME NEW k \in 1 .. Len(chan[n].wire)
      PROVE  /\ chan[n].wire[k].id # chan[n].nextId
             /\ Dist(chan[n].wire[k].id, chan[n].nextId) + k - Len(chan[n].wire) <= 1
  <2> PICK i \in 0 .. IdSpace - 1 : i = chan[n].wire[k].id
    BY <1>1, <1>4, WireIds
  <2> PICK next \in 0 .. IdSpace - 1 : next = chan[n].nextId
    BY <1>1, <1>4, WireIds
  <2> PICK len : len = Len(chan[n].wire)
    OBVIOUS
  <2>1. Dist(i, next) + k - len <= 1
    BY <1>1, <1>2, <1>3, <1>4 DEF IdsApart, Recent
  <2>2. len <= HighWater + 1 /\ len \in Nat /\ k \in 1 .. len
    BY <1>1, <1>4, WireIds DEF IdsApart
  <2>3. Dist(next, next) = IdSpace
    BY Distances
  <2>4. i # next
    <3> SUFFICES ASSUME i = next PROVE FALSE
      OBVIOUS
    <3>1. IdSpace + k - len <= 1
      BY <2>1, <2>3
    <3> QED
      BY <2>2, <3>1, Constants
  <2> QED
    BY <2>1, <2>4
<1> QED
  BY <1>1, <1>2, <1>3, <1>4

\* Ids stay apart when one is taken: no frame on the link has it.
LEMMA TakesIdApart ==
  ASSUME Base, Base', IdsApart, NEW t \in Generations, TakesId(t)
  PROVE  IdsApart'
<1> PICK n : n = worker[t].link
  OBVIOUS
<1> PICK next : next = chan[n].nextId
  OBVIOUS
<1>1. /\ n \in LinkIds /\ worker'[t].link = n /\ worker'[t].id = next /\ next \in 0 .. IdSpace - 1
      /\ chan'[n].nextId = NextId1(next)
      /\ \A k \in LinkIds : /\ chan'[k].wire = chan[k].wire /\ chan'[k].state = chan[k].state
                            /\ chan'[k].closed = chan[k].closed
                            /\ k # n => chan'[k].nextId = chan[k].nextId
  BY TakesIdLinks
<1>2. \A u \in Generations : u # t => worker[u].link = 0 /\ worker'[u].link = 0 /\ ~HasId(u) /\ worker'[u] = worker[u]
  BY TakesIdLinks
<1>3. \A k \in LinkIds : OnWire(k)' = OnWire(k)
  BY <1>1 DEF OnWire
<1>4. /\ Live(n) /\ ~Starting(n)
      /\ \A k \in 1 .. Len(chan[n].wire) :
           /\ chan[n].wire[k].id # next
           /\ Dist(chan[n].wire[k].id, next) + k - Len(chan[n].wire) <= 1
  BY NextIdFree
<1>5. worker'[t].at \in WithId /\ worker'[t].at # "send" /\ worker'[t].seq = 0
      /\ worker'[t].msg = worker[t].msg /\ worker[t].msg \in 1 .. Messages
  <2>1. worker[t].msg # 0
    BY TaskFacts DEF TakesId, Sensible, NoJob
  <2> QED
    BY <2>1, TaskFacts, Constants DEF TakesId, WithId
<1>6. n # 0
  BY <1>1, Constants DEF LinkIds
<1>7. ASSUME NEW u \in Generations, worker'[u].at \in WithId
      PROVE  /\ u = t /\ chan'[worker'[u].link].nextId = NextId1(worker'[u].id)
             /\ worker'[u].seq < Chunks[worker'[u].msg]
             /\ \A f \in OnWire(worker[u].link)' : f.id = worker'[u].id => f.msg = worker'[u].msg
  <2>1. u = t
    BY <1>2, <1>7 DEF HasId
  <2>2. worker'[u].seq < Chunks[worker'[u].msg]
    BY <1>5, <2>1, Constants
  <2>3. \A f \in OnWire(n) : f.id # next
    BY <1>4 DEF OnWire
  <2>4. OnWire(worker[u].link)' = OnWire(n)
    BY <1>1, <2>1 DEF OnWire
  <2> QED
    BY <1>1, <2>1, <2>2, <2>3, <2>4
<1>8. ASSUME NEW m \in LinkIds, Live(m)', NEW k \in 1 .. Len(chan'[m].wire) PROVE Recent(m, k)'
  <2>1. CASE m # n
    <3>1. worker'[t].link # m
      BY <1>1, <2>1
    <3>2. Live(m)
      BY <1>1, <1>2, <1>8, <2>1, <3>1 DEF Live, Opened
    <3>3. Starting(m) => Starting(m)'
      <4>1. ~HasId(t)
        BY DEF TakesId, HasId, WithId
      <4> QED
        BY <1>2, <4>1 DEF Starting
    <3>4. Recent(m, k)
      BY <1>1, <1>8, <3>2 DEF IdsApart
    <3> QED
      BY <1>1, <2>1, <3>3, <3>4 DEF Recent
  <2>2. CASE m = n
    <3>1. k \in 1 .. Len(chan[n].wire) /\ chan'[n].wire = chan[n].wire
      BY <1>1, <1>8, <2>2
    <3> PICK i \in 0 .. IdSpace - 1 : i = chan[n].wire[k].id
      BY <1>1, <3>1, WireIds
    <3> PICK len : len = Len(chan[n].wire)
      OBVIOUS
    <3>2. len \in Nat /\ k \in Nat
      BY <1>1, <3>1, WireIds
    <3>3. Dist(i, next) + k - len <= 1 /\ i # next
      BY <1>4, <3>1
    <3> PICK d : d = Dist(i, next)
      OBVIOUS
    <3> PICK z : z = Dist(i, NextId1(next))
      OBVIOUS
    <3>4. z = d + 1 /\ d \in 1 .. IdSpace
      BY Zenon, <1>1, <3>3, Distances
    <3>5. d + k - len <= 1 /\ IdSpace \in Nat
      BY Zenon, <3>3, Constants
    <3>6. z + k - len <= 1 \/ z + k - len = 2
      BY ONLY <3>2, <3>4, <3>5
    <3>7. Starting(n)'
      BY <1>1, <1>5 DEF Starting, HasId
    <3> QED
      BY Zenon, <1>1, <2>2, <3>1, <3>6, <3>7 DEF Recent
  <2> QED
    BY <2>1, <2>2
<1>9. \A u \in Generations : worker'[u].at # "send"
  BY <1>5, <1>7 DEF WithId
<1>10. /\ \A m \in LinkIds : \A f, h \in OnWire(m) : f.id = h.id => f.msg = h.msg
       /\ \A m \in LinkIds : Len(chan'[m].wire) <= HighWater + 1
  BY <1>1 DEF IdsApart
<1> QED
  BY <1>3, <1>7, <1>8, <1>9, <1>10 DEF IdsApart, HasId

\* Ids stay apart when a frame is sent: it is the nearest to the next id.
LEMMA SendsApart ==
  ASSUME Base, Base', IdsApart, NEW t \in Generations, Sends(t)
  PROVE  IdsApart'
<1> PICK v : v = worker[t]
  OBVIOUS
<1> PICK n : n = worker[t].link
  OBVIOUS
<1> PICK f : f = MakeFrame(worker[t].id, worker[t].seq, worker[t].msg)
  OBVIOUS
<1> PICK len : len = Len(chan[n].wire)
  OBVIOUS
<1>1. /\ n \in LinkIds /\ v.msg \in 1 .. Messages /\ v.seq \in Nat /\ v.id \in 0 .. IdSpace - 1
      /\ HasId(t) /\ v.at \in {"send", "burst"}
      /\ f.id = v.id /\ f.seq = v.seq /\ f.msg = v.msg
  BY SendsLinks
<1>2. len \in Nat /\ Len(chan'[n].wire) = len + 1 /\ chan'[n].wire[len + 1] = f
  BY SendsLinks
<1>3. \A k \in 1 .. len : chan'[n].wire[k] = chan[n].wire[k]
  BY SendsLinks
<1>4. OnWire(n)' = OnWire(n) \cup {f}
  BY SendsLinks
<1>5. \A k \in LinkIds : k # n => chan'[k] = chan[k] /\ OnWire(k)' = OnWire(k)
  BY SendsLinks
<1>6. \A k \in LinkIds : chan'[k].nextId = chan[k].nextId /\ chan'[k].state = chan[k].state
                         /\ chan'[k].closed = chan[k].closed
  BY SendsLinks
<1>7. \A u \in Generations : u # t => worker[u].link = 0 /\ worker'[u] = worker[u] /\ ~HasId(u)
  BY SendsLinks
<1>8. \/ worker'[t].msg = 0 /\ worker'[t].at \in NoJob
      \/ /\ worker'[t].at \in {"chunk", "burst"} /\ worker'[t].msg = v.msg /\ worker'[t].link = n
         /\ worker'[t].id = v.id /\ worker'[t].seq = v.seq + 1 /\ v.seq + 1 # Chunks[v.msg]
  BY DEF Sends, LastChunk, ChunkCount
<1>9. /\ chan[n].nextId = NextId1(v.id) /\ v.seq < Chunks[v.msg]
      /\ \A h \in OnWire(n) : h.id = v.id => h.msg = v.msg
  BY <1>1 DEF IdsApart
<1>10. n # 0
  BY <1>1, Constants DEF LinkIds
<1>11. ASSUME NEW m \in LinkIds, NEW g \in OnWire(m)', NEW h \in OnWire(m)', g.id = h.id PROVE g.msg = h.msg
  <2>1. CASE m # n
    BY <1>5, <1>11, <2>1 DEF IdsApart
  <2>2. CASE m = n
    <3>1. (g \in OnWire(n) \/ g = f) /\ (h \in OnWire(n) \/ h = f)
      BY <1>4, <1>11, <2>2
    <3> QED
      BY <1>1, <1>9, <1>11, <3>1 DEF IdsApart
  <2> QED
    BY <2>1, <2>2
<1>12. ASSUME NEW u \in Generations, worker'[u].at \in WithId
       PROVE  /\ u = t /\ worker'[u].at # "send" /\ chan'[worker'[u].link].nextId = NextId1(worker'[u].id)
              /\ worker'[u].seq < Chunks[worker'[u].msg]
              /\ \A h \in OnWire(worker[u].link)' : h.id = worker'[u].id => h.msg = worker'[u].msg
  <2>1. u = t
    BY <1>7, <1>12 DEF HasId
  <2>2. /\ worker'[t].at \in {"chunk", "burst"} /\ worker'[t].msg = v.msg /\ worker'[t].link = n
        /\ worker'[t].id = v.id /\ worker'[t].seq = v.seq + 1 /\ v.seq + 1 # Chunks[v.msg]
    BY <1>8, <1>12, <2>1 DEF WithId, NoJob
  <2>3. v.seq + 1 < Chunks[v.msg]
    BY <1>1, <1>9, <2>2, Constants
  <2>4. OnWire(worker[u].link)' = OnWire(n)'
    BY <2>1, <2>2 DEF OnWire
  <2>5. \A h \in OnWire(n)' : h.id = v.id => h.msg = v.msg
    BY <1>1, <1>4, <1>9
  <2> QED
    BY <1>1, <1>6, <1>9, <2>1, <2>2, <2>3, <2>4, <2>5
<1>13. ASSUME NEW m \in LinkIds, Live(m)', NEW k \in 1 .. Len(chan'[m].wire) PROVE Recent(m, k)'
  <2>1. CASE m # n
    <3>1. worker'[t].at \in OnLink => worker'[t].link # m
      BY <1>8, <2>1 DEF NoJob, OnLink, WithId
    <3>2. Live(m)
      BY <1>5, <1>7, <1>13, <2>1, <3>1 DEF Live, Opened
    <3>3. Starting(m) => Starting(m)'
      BY <1>7, <2>1 DEF Starting, HasId
    <3>4. Recent(m, k)
      BY <1>5, <1>13, <2>1, <3>2 DEF IdsApart
    <3> QED
      BY <1>5, <2>1, <3>3, <3>4 DEF Recent
  <2>2. CASE m = n
    <3> PICK next \in 0 .. IdSpace - 1 : next = chan[n].nextId
      BY <1>1, WireFacts
    <3>1. chan'[n].nextId = next /\ Len(chan'[n].wire) = len + 1
      BY <1>1, <1>2, <1>6
    <3>2. CASE k = len + 1
      <4>1. chan'[n].wire[k].id = v.id /\ next = NextId1(v.id)
        BY <1>1, <1>2, <1>9, <3>2
      <4>2. Dist(v.id, next) = 1
        BY <1>1, <4>1, Distances
      <4>3. Dist(v.id, next) + k - (len + 1) <= 1
        BY <1>2, <3>2, <4>2
      <4> QED
        BY <2>2, <3>1, <4>1, <4>3 DEF Recent
    <3>3. CASE k \in 1 .. len
      <4> PICK i \in 0 .. IdSpace - 1 : i = chan[n].wire[k].id
        BY <1>1, <3>3, WireIds
      <4>1. chan'[n].wire[k].id = i
        BY <1>3, <3>3
      <4>2. Live(n)
        BY <1>1 DEF Live, HasId, OnLink
      <4> PICK d : d = Dist(i, next)
        OBVIOUS
      <4>3. Recent(n, k)
        BY <1>1, <3>3, <4>2 DEF IdsApart
      <4>4. d + k - len <= 1 \/ d + k - len = 2
        BY <4>3 DEF Recent
      <4>6. d \in 1 .. IdSpace /\ IdSpace \in Nat
        BY Distances, Constants
      <4>5. d + k - (len + 1) <= 1
        BY ONLY <1>2, <3>3, <4>4, <4>6
      <4>7. Dist(chan'[n].wire[k].id, chan'[n].nextId) + k - Len(chan'[n].wire) <= 1
        BY <3>1, <4>1, <4>5
      <4> QED
        BY <2>2, <4>7 DEF Recent
    <3>4. k \in 1 .. len + 1
      BY <1>2, <2>2
    <3>5. k = len + 1 \/ k \in 1 .. len
      BY ONLY <1>2, <3>4
    <3> QED
      BY <3>2, <3>3, <3>5
  <2> QED
    BY <2>1, <2>2
<1>14. ASSUME NEW m \in LinkIds PROVE Len(chan'[m].wire) <= HighWater + 1
  <2>1. CASE m # n
    BY <1>5, <1>14, <2>1 DEF IdsApart
  <2>2. CASE m = n
    <3>1. len <= HighWater
      BY <1>1 DEF IdsApart, Sends
    <3> QED
      BY <1>2, <2>2, <3>1, Constants
  <2> QED
    BY <2>1, <2>2
<1>15. \A u \in Generations : worker'[u].at # "send"
  BY <1>12 DEF WithId
<1> QED
  BY <1>11, <1>12, <1>13, <1>14, <1>15 DEF IdsApart, HasId

\* Each kind of step keeps IdsApart.
LEMMA ApartStep ==
  ASSUME Base, Base', IdsApart, Kinds
  PROVE  IdsApart'
BY NeutralApart, TakesIdApart, SendsApart DEF Kinds, Neutral

-----------------------------------------------------------------------------
(* The reassembler *)

\* Where the entry, the frames and the ids are as they were, it fits as it did.
LEMMA StillFits ==
  ASSUME Base, NEW n, NEW i, EntryFits(n, i), OnWire(n)' \subseteq OnWire(n),
         rx'.inflight[i].chunks = rx.inflight[i].chunks,
         \A t \in Generations : worker'[t].at \in WithId /\ worker'[t].link = n /\ worker'[t].id = i =>
           HasId(t) /\ worker'[t].msg = worker[t].msg /\ worker'[t].link = worker[t].link
           /\ worker'[t].id = worker[t].id /\ worker'[t].seq = worker[t].seq
  PROVE  EntryFits(n, i)'
BY DEF EntryFits, HasId

\* The entries fit where nothing is received, or the receiver is a new one.
LEMMA NeutralReassembly ==
  ASSUME Base, Base', Reassembly, Neutral, UNCHANGED received,
         rx' = rx \/ (Rests /\ rx'.link \in LinkIds /\ rx'.inflight = [i \in {} |-> 0] /\ chan[rx'.link].state = "connecting")
  PROVE  Reassembly'
<1>0. LastReceived' = LastReceived
  BY DEF LastReceived
<1>1. \A n \in LinkIds : OnWire(n)' \subseteq OnWire(n)
  BY NeutralWire, ShrinkingWire
<1>2. ASSUME rx' = rx, NEW n \in LinkIds, n = rx.link
      PROVE  /\ \A i \in DOMAIN rx.inflight : ~rx.inflight[i].old => EntryFits(n, i)'
             /\ \A f \in OnWire(n)' : LastReceived' < f.msg
  <2>1. ASSUME NEW i \in DOMAIN rx.inflight, ~rx.inflight[i].old PROVE EntryFits(n, i)'
    <3>1. EntryFits(n, i)
      BY <1>2, <2>1 DEF Reassembly
    <3> QED
      BY <1>1, <1>2, <3>1, NeutralPlaces, StillFits
  <2>2. \A f \in OnWire(n)' : LastReceived' < f.msg
    BY <1>0, <1>1, <1>2 DEF Reassembly
  <2> QED
    BY <2>1, <2>2
<1>3. CASE rx' = rx
  BY <1>2, <1>3 DEF Reassembly
<1>4. CASE rx'.link \in LinkIds /\ rx'.inflight = [i \in {} |-> 0] /\ chan[rx'.link].state = "connecting"
  <2> PICK n \in LinkIds : n = rx'.link
    BY <1>4
  <2>1. chan[n].wire = <<>>
    BY <1>4 DEF Base, LinksOpened
  <2>2. OnWire(n) = {}
    BY <2>1 DEF OnWire
  <2>3. DOMAIN rx'.inflight = {}
    BY <1>4
  <2>4. \A f \in OnWire(n)' : LastReceived' < f.msg
    BY <1>1, <2>2
  <2>5. \A i \in DOMAIN rx'.inflight : FALSE
    BY <2>3
  <2> QED
    BY <2>4, <2>5 DEF Reassembly
<1> QED
  BY <1>3, <1>4

\* Entries that are all old fit.
LEMMA DawdleReassembly ==
  ASSUME Base, Base', Reassembly, Dawdle
  PROVE  Reassembly'
<1>1. rx' = Aged(rx, DOMAIN rx.inflight) /\ chan' = chan /\ received' = received
  BY DEF Dawdle
<1>2. RxTyped
  BY DEF Base, Typed
<1>3. rx'.link = rx.link /\ DOMAIN rx'.inflight = DOMAIN rx.inflight
      /\ \A i \in DOMAIN rx.inflight : rx'.inflight[i].old
  <2> PICK r : r = rx'
    OBVIOUS
  <2> PICK ids : ids = DOMAIN rx.inflight
    OBVIOUS
  <2>1. r = Aged(rx, ids)
    BY <1>1
  <2> QED
    BY <1>2, <2>1, AgedTyped
<1>4. \A n \in LinkIds : OnWire(n)' = OnWire(n)
  BY <1>1 DEF OnWire
<1>5. LastReceived' = LastReceived
  BY <1>1 DEF LastReceived
<1> QED
  BY <1>3, <1>4, <1>5 DEF Reassembly

\* The entries fit when an id is taken: the one that has it is old.
LEMMA TakesIdReassembly ==
  ASSUME Base, Base', Reassembly, NEW t \in Generations, TakesId(t)
  PROVE  Reassembly'
<1> PICK l : l = worker[t].link
  OBVIOUS
<1> PICK next : next = chan[l].nextId
  OBVIOUS
<1>1. /\ l \in LinkIds /\ worker'[t].link = l /\ worker'[t].id = next
      /\ \A k \in LinkIds : chan'[k].wire = chan[k].wire
      /\ \A u \in Generations : u # t => worker[u].link = 0 /\ ~HasId(u) /\ worker'[u] = worker[u]
  BY TakesIdLinks
<1>2. LastReceived' = LastReceived /\ \A k \in LinkIds : OnWire(k)' = OnWire(k)
  BY <1>1 DEF TakesId, LastReceived, OnWire
<1>3. rx'.link = rx.link
      /\ \A i \in DOMAIN rx'.inflight :
           /\ i \in DOMAIN rx.inflight /\ rx'.inflight[i].chunks = rx.inflight[i].chunks
           /\ ~rx'.inflight[i].old => ~rx.inflight[i].old /\ (rx.link = l => i # next)
  <2>1. CASE rx.link # l
    <3>1. rx' = rx
      BY <2>1 DEF TakesId, TakeMsgId
    <3> QED
      BY <2>1, <3>1
  <2>2. CASE rx.link = l
    <3> PICK r : r = rx'
      OBVIOUS
    <3> PICK ids : ids = {next}
      OBVIOUS
    <3>1. r = Aged(rx, ids) /\ RxTyped
      BY <2>2 DEF TakesId, TakeMsgId, Base, Typed
    <3>2. /\ r.link = rx.link /\ DOMAIN r.inflight = DOMAIN rx.inflight
          /\ \A i \in DOMAIN rx.inflight :
               /\ r.inflight[i].chunks = rx.inflight[i].chunks
               /\ r.inflight[i].old <=> rx.inflight[i].old \/ i \in ids
      BY <3>1, AgedTyped
    <3>3. rx'.link = rx.link /\ DOMAIN rx'.inflight = DOMAIN rx.inflight
      BY <3>2
    <3>4. ASSUME NEW i \in DOMAIN rx.inflight
          PROVE  /\ rx'.inflight[i].chunks = rx.inflight[i].chunks
                 /\ ~rx'.inflight[i].old => ~rx.inflight[i].old /\ i # next
      BY <3>2
    <3> QED
      BY <3>3, <3>4
  <2> QED
    BY <2>1, <2>2
<1>4. ASSUME NEW n \in LinkIds, n = rx.link, NEW i \in DOMAIN rx'.inflight, ~rx'.inflight[i].old
      PROVE  EntryFits(n, i)'
  <2>1. i \in DOMAIN rx.inflight /\ ~rx.inflight[i].old /\ rx'.inflight[i].chunks = rx.inflight[i].chunks
        /\ (n = l => i # next)
    BY <1>3, <1>4
  <2>2. EntryFits(n, i)
    BY <1>4, <2>1 DEF Reassembly
  <2>3. \A u \in Generations : worker'[u].at \in WithId /\ worker'[u].link = n /\ worker'[u].id = i => FALSE
    BY <1>1, <2>1 DEF HasId
  <2> QED
    BY <1>2, <2>1, <2>2, <2>3, StillFits
<1>5. \A n \in LinkIds : n = rx.link => \A f \in OnWire(n)' : LastReceived' < f.msg
  BY <1>2 DEF Reassembly
<1> QED
  BY <1>3, <1>4, <1>5 DEF Reassembly

\* The entries fit when a frame is sent.
LEMMA SendsReassembly ==
  ASSUME Base, Base', Order, Unreturned, Ahead, Reassembly, NEW t \in Generations, Sends(t)
  PROVE  Reassembly'
<1> PICK v : v = worker[t]
  OBVIOUS
<1> PICK l : l = worker[t].link
  OBVIOUS
<1> PICK f : f = MakeFrame(worker[t].id, worker[t].seq, worker[t].msg)
  OBVIOUS
<1>1. /\ l \in LinkIds /\ v.seq \in Nat /\ HasId(t) /\ HasJob(t)
      /\ f.id = v.id /\ f.seq = v.seq /\ f.msg = v.msg
  BY SendsLinks
<1>2. OnWire(l)' = OnWire(l) \cup {f} /\ \A k \in LinkIds : k # l => OnWire(k)' = OnWire(k)
  BY ZenonT(30), SendsLinks
<1>3. \A u \in Generations : u # t => worker[u].link = 0 /\ worker'[u] = worker[u] /\ ~HasId(u)
  BY SendsLinks
<1>4. rx' = rx /\ LastReceived' = LastReceived
  BY DEF Sends, LastReceived
<1>5. worker'[t].at \in WithId =>
        /\ worker'[t].msg = v.msg /\ worker'[t].link = l /\ worker'[t].id = v.id /\ worker'[t].seq = v.seq + 1
  BY DEF Sends, WithId, NoJob
<1>6. ASSUME NEW n \in LinkIds, n = rx.link, NEW i \in DOMAIN rx.inflight, ~rx.inflight[i].old
      PROVE  EntryFits(n, i)'
  <2> PICK c : c = rx.inflight[i].chunks
    OBVIOUS
  <2>0. DOMAIN c \subseteq Nat
    BY DEF Base, Typed, RxTyped, IsEntry
  <2>1. EntryFits(n, i)
    BY <1>6 DEF Reassembly
  <2>2. n = l /\ i = v.id => \A s \in DOMAIN c : c[s] = v.msg /\ s < v.seq
    BY <1>1, <2>1 DEF EntryFits
  <2>3. ASSUME NEW h \in OnWire(n)', h.id = i, NEW s \in DOMAIN c
        PROVE  c[s] = h.msg /\ s < h.seq
    <3>1. CASE h \in OnWire(n)
      BY <2>1, <2>3, <3>1 DEF EntryFits
    <3>2. CASE n = l /\ h = f
      BY <1>1, <2>2, <2>3, <3>2
    <3> QED
      BY <1>2, <2>3, <3>1, <3>2
  <2>4. ASSUME NEW u \in Generations, worker'[u].at \in WithId, worker'[u].link = n, worker'[u].id = i, NEW s \in DOMAIN c
        PROVE  c[s] = worker'[u].msg /\ s < worker'[u].seq
    <3>1. u = t
      BY <1>3, <2>4 DEF HasId
    <3>2. n = l /\ i = v.id /\ worker'[u].msg = v.msg /\ worker'[u].seq = v.seq + 1
      BY <1>5, <2>4, <3>1
    <3>3. c[s] = v.msg /\ s < v.seq /\ s \in Nat
      BY <2>0, <2>2, <2>4, <3>2
    <3> QED
      BY <1>1, <3>2, <3>3
  <2>5. rx'.inflight[i].chunks = c
    BY <1>4
  <2> QED
    BY <2>3, <2>4, <2>5 DEF EntryFits, HasId
<1>7. ASSUME NEW n \in LinkIds, n = rx.link, NEW h \in OnWire(n)' PROVE LastReceived' < h.msg
  <2>1. CASE h \in OnWire(n)
    BY <1>4, <1>7, <2>1 DEF Reassembly
  <2>2. CASE h = f
    BY <1>1, <1>4, <2>2 DEF Ahead
  <2> QED
    BY <1>2, <1>7, <2>1, <2>2
<1> QED
  BY <1>4, <1>6, <1>7 DEF Reassembly

\* The entries fit when a frame arrives.
LEMMA DeliverReassembly ==
  ASSUME Base, Base', Order, Unreturned, Ahead, Frames, IdsApart, Reassembly, Ordered,
         NEW n \in LinkIds, Deliver(n)
  PROVE  Reassembly'
<1> PICK f : f = chan[n].wire[1]
  OBVIOUS
<1>1. /\ rx'.link = rx.link /\ f \in Packet /\ f \in OnWire(n)
      /\ \/ received' = received
         \/ received' = received \o <<f.msg>> /\ Final(f) /\ rx.link = n
      /\ \/ rx' = rx /\ received' = received
         \/ /\ rx.link = n
            /\ \A i \in DOMAIN rx'.inflight :
                 \/ i # f.id /\ i \in DOMAIN rx.inflight /\ rx'.inflight[i] = rx.inflight[i]
                 \/ i = f.id /\ \A s \in DOMAIN rx'.inflight[i].chunks :
                                  rx'.inflight[i].chunks[s] = f.msg /\ s <= f.seq
  BY Arrival
<1>2. Neutral
  BY DEF Neutral
<1>3. CASE rx' = rx /\ received' = received
  BY <1>2, <1>3, NeutralReassembly
<1>4. CASE /\ rx.link = n
           /\ \A i \in DOMAIN rx'.inflight :
                 \/ i # f.id /\ i \in DOMAIN rx.inflight /\ rx'.inflight[i] = rx.inflight[i]
                 \/ i = f.id /\ \A s \in DOMAIN rx'.inflight[i].chunks :
                                  rx'.inflight[i].chunks[s] = f.msg /\ s <= f.seq
  <2>0. f.seq \in Nat /\ f.msg \in 1 .. Messages
    BY <1>1, WireFacts
  <2>1. OnWire(n)' \subseteq OnWire(n) /\ worker' = worker
    BY <1>2, NeutralWire, ShrinkingWire DEF Deliver, Unsent
  <2>2. ASSUME NEW h \in OnWire(n)' PROVE h \in OnWire(n) /\ Precedes(f, h) /\ h.seq \in Nat /\ h.msg \in Nat
    <3>1. Len(chan'[n].wire) \in Nat /\ Len(chan[n].wire) \in Nat /\ Len(chan[n].wire) > 0
          /\ \A k \in 1 .. Len(chan'[n].wire) :
               k + 1 \in 1 .. Len(chan[n].wire) /\ chan'[n].wire[k] = chan[n].wire[k + 1]
      BY DeliverWire
    <3> PICK k \in 1 .. Len(chan'[n].wire) : h = chan'[n].wire[k]
      BY DEF OnWire
    <3>2. k + 1 \in 1 .. Len(chan[n].wire) /\ 1 \in 1 .. Len(chan[n].wire) /\ 1 < k + 1 /\ h = chan[n].wire[k + 1]
      BY <3>1
    <3>3. Precedes(f, h)
      BY <3>2 DEF Frames
    <3> QED
      BY <2>1, <3>3, WireFacts, Constants
  <2>3. ASSUME NEW i \in DOMAIN rx'.inflight, ~rx'.inflight[i].old PROVE EntryFits(n, i)'
    <3>1. CASE i # f.id
      <4>1. i \in DOMAIN rx.inflight /\ rx'.inflight[i] = rx.inflight[i]
        BY <1>4, <3>1
      <4>2. EntryFits(n, i)
        BY <1>4, <2>3, <4>1 DEF Reassembly
      <4> QED
        BY <2>1, <4>1, <4>2, StillFits DEF HasId
    <3>2. CASE i = f.id
      <4> PICK c : c = rx'.inflight[i].chunks
        OBVIOUS
      <4>1. \A s \in DOMAIN c : c[s] = f.msg /\ s <= f.seq
        BY <1>4, <3>2
      <4>2. DOMAIN c \subseteq Nat
        BY DEF Base, Typed, RxTyped, IsEntry
      <4>3. ASSUME NEW h \in OnWire(n)', h.id = i, NEW s \in DOMAIN c
            PROVE  c[s] = h.msg /\ s < h.seq
        <5>1. h.msg = f.msg
          BY <1>1, <2>2, <3>2, <4>3 DEF IdsApart
        <5>2. f.seq < h.seq /\ h.seq \in Nat
          BY <2>0, <2>2, <5>1 DEF Precedes
        <5> QED
          BY <2>0, <4>1, <4>2, <4>3, <5>1, <5>2
      <4>4. ASSUME NEW t \in Generations, worker[t].at \in WithId, worker[t].link = n, worker[t].id = i, NEW s \in DOMAIN c
            PROVE  c[s] = worker[t].msg /\ s < worker[t].seq
        <5>1. HasId(t) /\ HasJob(t) /\ worker[t].seq \in Nat
          BY <4>4, TaskFacts DEF HasId, HasJob, Sensible, NoJob, WithId
        <5>2. worker[t].msg = f.msg
          BY <1>1, <3>2, <4>4, <5>1 DEF IdsApart
        <5>3. Behind(f, n, t)
          BY <1>1, <5>1 DEF Ahead
        <5>4. f.seq < worker[t].seq
          BY <2>0, <5>2, <5>3, Constants DEF Behind
        <5> QED
          BY <2>0, <4>1, <4>2, <4>4, <5>1, <5>2, <5>4
      <4>5. c = rx'.inflight[i].chunks /\ worker' = worker
        BY <2>1
      <4> QED
        BY <4>3, <4>4, <4>5 DEF EntryFits, HasId
    <3> QED
      BY <3>1, <3>2
  <2>4. ASSUME NEW h \in OnWire(n)' PROVE LastReceived' < h.msg
    <3>1. CASE received' = received
      BY <1>4, <2>2, <3>1 DEF Reassembly, LastReceived
    <3>2. CASE received' = received \o <<f.msg>> /\ Final(f)
      <4>1. LastReceived' = f.msg
        BY <2>0, <3>2, LastIs DEF Ordered
      <4>2. f.msg # h.msg
        <5> SUFFICES ASSUME f.msg = h.msg PROVE FALSE
          OBVIOUS
        <5>1. f.seq < h.seq
          BY <2>0, <2>2 DEF Precedes
        <5>2. f.total = Chunks[f.msg] /\ h.total = Chunks[f.msg] /\ h.seq < h.total
          BY <1>1, <2>2 DEF Frames
        <5>3. Chunks[f.msg] \in Nat
          BY <2>0, Constants
        <5> QED
          BY <2>0, <2>2, <3>2, <5>1, <5>2, <5>3 DEF Final
      <4> QED
        BY <2>0, <2>2, <4>1, <4>2 DEF Precedes
    <3> QED
      BY <1>1, <3>1, <3>2
  <2> QED
    BY <1>1, <1>4, <2>3, <2>4 DEF Reassembly
<1> QED
  BY <1>1, <1>3, <1>4

\* Each kind of step keeps Reassembly.
LEMMA ReassemblyStep ==
  ASSUME Base, Base', Order, Unreturned, Ahead, Frames, IdsApart, Reassembly, Ordered, Kinds
  PROVE  Reassembly'
<1>1. CASE Rests
  <2>1. Neutral /\ UNCHANGED received
        /\ (rx' = rx \/ (Rests /\ rx'.link \in LinkIds /\ rx'.inflight = [i \in {} |-> 0] /\ chan[rx'.link].state = "connecting"))
    BY <1>1 DEF Neutral, Rests
  <2> QED
    BY <2>1, NeutralReassembly
<1>2. CASE (\E g \in Generations : Calls(g)) \/ \E t \in Generations, g \in Generations : Takes(t, g)
  <2>1. Neutral /\ rx' = rx /\ UNCHANGED received
    BY <1>2 DEF Neutral, Calls, Takes
  <2> QED
    BY <2>1, NeutralReassembly
<1> QED
  BY <1>1, <1>2, DawdleReassembly, TakesIdReassembly, SendsReassembly, DeliverReassembly DEF Kinds
-----------------------------------------------------------------------------
(* The invariant *)

\* The inductive invariant.
IInv == Base /\ Flow

\* It holds at first.
LEMMA InvInit == Init => IInv
<1> SUFFICES ASSUME Init PROVE IInv
  OBVIOUS
<1>1. Base
  BY BaseInit
<1>2. /\ \A t \in Generations : worker[t].msg = 0 /\ worker[t].at = "ended"
      /\ \A n \in LinkIds : chan[n].wire = <<>>
      /\ \A g \in Generations : queue[g] = <<>>
      /\ received = <<>> /\ calls = 0 /\ outcome = [m \in 1 .. Messages |-> "none"] /\ rx.link = 0
  BY DEF Init, Ended, At, NewChannel, Receiver
<1>3. /\ \A n \in LinkIds : OnWire(n) = {} /\ Len(chan[n].wire) = 0
      /\ \A g \in Generations : Waiting(g) = {} /\ Len(queue[g]) = 0
      /\ \A t \in Generations : ~HasJob(t) /\ ~HasId(t) /\ worker[t].at # "send"
      /\ LastReceived = 0
  BY <1>2 DEF OnWire, Waiting, HasJob, HasId, WithId, LastReceived
<1>4. Order /\ Unreturned /\ Ahead
  BY <1>2, <1>3 DEF Order, Unreturned, Ahead, Generations
<1>5. Frames /\ IdsApart
  BY <1>3, Constants DEF Frames, IdsApart
<1>6. Reassembly /\ Ordered
  <2>1. 0 \notin LinkIds /\ <<>> \in Seq(1 .. Messages) /\ Len(<<>>) = 0
    BY Constants DEF LinkIds
  <2> QED
    BY <1>2, <2>1 DEF Reassembly, Ordered
<1> QED
  BY <1>1, <1>4, <1>5, <1>6 DEF IInv, Flow

\* Each step keeps it, and is of a kind.
LEMMA InvStep == IInv /\ [Next]_vars => IInv' /\ Kinds
<1> SUFFICES ASSUME IInv, [Next]_vars PROVE IInv' /\ Kinds
  OBVIOUS
<1>1. Base' /\ Kinds
  BY StepKinds DEF IInv
<1>2. Order' /\ Unreturned'
  BY <1>1, OrderStep, UnreturnedStep DEF IInv, Flow
<1>3. Ahead'
  BY <1>1, AheadStep DEF IInv, Flow
<1>4. Frames' /\ IdsApart'
  BY <1>1, FramesStep, ApartStep DEF IInv, Flow
<1>5. Reassembly' /\ Ordered'
  BY <1>1, ReassemblyStep, OrderedStep DEF IInv, Flow
<1> QED
  BY <1>1, <1>2, <1>3, <1>4, <1>5 DEF IInv, Flow

\* It always holds.
LEMMA InvHolds == Spec => []IInv
<1>1. IInv /\ [Next]_vars => IInv'
  BY InvStep
<1> QED
  BY <1>1, InvInit, PTL DEF Spec, Safe

\* A sequence of packets is one of frames.
LEMMA PacketsAreFrames == Seq(Packet) \subseteq Seq(Frame)
<1>1. Packet \subseteq Frame
  BY Constants DEF Packet, Frame
<1> QED
  BY <1>1

\* Every variable has its type: TypeOK of the runs.
THEOREM TypeCorrect == Spec => []TypeOK
<1>1. IInv => TypeOK
  <2> SUFFICES ASSUME IInv PROVE TypeOK
    OBVIOUS
  <2>1. Base /\ received \in Seq(1 .. Messages)
    BY DEF IInv, Flow, Ordered
  <2>2. LinkState \subseteq
         [closed : BOOLEAN, state : {"connecting", "open", "closed"}, wire : Seq(Frame),
          nextId : 0 .. IdSpace - 1, cut : BOOLEAN, ring : BOOLEAN,
          done : SUBSET (1 .. Messages)]
    BY PacketsAreFrames DEF LinkState
  <2>3. chan \in [LinkIds ->
         [closed : BOOLEAN, state : {"connecting", "open", "closed"}, wire : Seq(Frame),
          nextId : 0 .. IdSpace - 1, cut : BOOLEAN, ring : BOOLEAN,
          done : SUBSET (1 .. Messages)]]
    BY <2>1, <2>2 DEF Base, Typed, LinksTyped
  <2>4. worker \in [Generations ->
         [at : Places, gen : 0 .. 2, msg : 0 .. Messages, link : 0 .. MaxLinks,
          id : 0 .. IdSpace - 1, seq : Nat]]
    BY <2>1 DEF Base, Typed, TasksTyped, Task
  <2> QED
    BY <2>1, <2>3, <2>4 DEF TypeOK, Base, Typed, QueuesTyped, RxTyped, GameTyped
<1> QED
  BY <1>1, InvHolds, PTL

-----------------------------------------------------------------------------
(* Senders implements Mailbox *)

\* What was received comes before all that is given up.
LEMMA GivenUpLater ==
  ASSUME Base, Unreturned, Ahead, Ordered, NEW k \in 1 .. Messages, GivenUp(k)
  PROVE  outcome[k] = "none" /\ \A i \in 1 .. Len(received) : received[i] # k
<1>1. outcome[k] = "none"
  BY GivenUpWas
<1>2. LastReceived < k
  <2>1. CASE \E t \in Generations : worker[t].msg = k /\ worker'[t].msg = 0
    BY <2>1, Constants DEF Ahead, HasJob
  <2>2. CASE \E g \in Generations : queue'[g] = <<>> /\ k \in Waiting(g)
    BY <2>2 DEF Ahead
  <2> QED
    BY <2>1, <2>2, GivenUpWas
<1>3. ASSUME NEW i \in 1 .. Len(received), received[i] = k PROVE FALSE
  <2> PICK len : len = Len(received)
    OBVIOUS
  <2>1. len \in Nat /\ len \in 1 .. len /\ received # <<>> /\ i \in 1 .. len
    BY <1>3 DEF Ordered
  <2>2. received[len] < k
    BY <1>2, <2>1 DEF LastReceived
  <2>3. i = len \/ received[i] < received[len]
    BY <2>1 DEF Ordered
  <2>4. received[len] \in 1 .. Messages
    BY <2>1, LastNat, Constants DEF Ordered
  <2> QED
    BY <1>3, <2>2, <2>3, <2>4, Constants
<1> QED
  BY <1>1, <1>3

\* A step that receives nothing is a Return of Mailbox.
LEMMA ReturnsOrStays ==
  ASSUME IInv, IInv', Kinds, UNCHANGED received
  PROVE  Mail!Return
<1>1. \A k \in 1 .. Messages : outcome'[k] # outcome[k] => GivenUp(k)
  <2>1. CASE \/ Rests \/ Dawdle
             \/ \E t \in Generations : TakesId(t) \/ Sends(t)
             \/ \E n \in LinkIds : Deliver(n)
    BY <2>1, KindsAnswer DEF Answers, IInv
  <2>2. CASE (\E g \in Generations : Calls(g)) \/ \E t \in Generations, g \in Generations : Takes(t, g)
    BY <2>2 DEF Calls, Takes
  <2> QED
    BY <2>1, <2>2 DEF Kinds
<1>2. \A k \in 1 .. Messages : outcome'[k] # outcome[k] =>
        outcome[k] = "none" /\ \A i \in 1 .. Len(received) : received[i] # k
  BY <1>1, GivenUpLater DEF IInv, Flow
<1>3. outcome' \in [1 .. Messages -> {"none", "ok", "failed"}]
  BY DEF IInv, Base, Typed, QueuesTyped
<1> QED
  BY <1>2, <1>3 DEF Mail!Return

\* Each step is one of Mailbox.
LEMMA MailStep ==
  ASSUME IInv, IInv', Kinds
  PROVE  Mail!Next
<1>1. CASE received' = received
  BY <1>1, ReturnsOrStays DEF Mail!Next
<1>2. ASSUME NEW n \in LinkIds, Deliver(n), received' # received PROVE Mail!Next
  <2> PICK f : f = chan[n].wire[1]
    OBVIOUS
  <2>1. f \in OnWire(n) /\ received' = received \o <<f.msg>> /\ Final(f) /\ rx.link = n
    BY <1>2, Arrival DEF IInv, Flow
  <2> PICK m \in 1 .. Messages : m = f.msg
    BY <2>1, WireFacts DEF IInv
  <2>2. LastReceived < m /\ outcome[m] = "ok"
    BY <2>1 DEF IInv, Flow, Reassembly, Frames, Final
  <2>3. received \in Seq(1 .. Messages)
    BY DEF IInv, Flow, Ordered
  <2>4. received' = Append(received, m)
    BY <2>1, <2>3
  <2>5. LastReceived = Mail!Last
    BY DEF LastReceived, Mail!Last
  <2>6. m > Mail!Last
    <3>1. LastReceived \in Nat
      BY <2>3, LastNat, Constants
    <3> QED
      BY <2>2, <2>5, <3>1
  <2>7. Mail!Receive(m)
    BY <2>2, <2>4, <2>6 DEF Mail!Receive
  <2>8. outcome' = outcome
    BY <1>2 DEF Deliver, Unsent
  <2> QED
    BY <2>7, <2>8 DEF Mail!Next
<1>3. (\E n \in LinkIds : Deliver(n)) \/ received' = received
  BY DEF Kinds, Rests, Dawdle, Calls, Takes, TakesId, Sends
<1> QED
  BY <1>1, <1>2, <1>3

\* Every behaviour of the senders, of the connection and of the receiver is one
\* that Mailbox allows: KeepsOrder of the runs.
THEOREM MailboxImplemented == Spec => KeepsOrder
<1>1. Init => Mail!Init
  BY DEF Init, Mail!Init
<1>2. IInv /\ [Next]_vars => [Mail!Next]_<<outcome, received>>
  BY InvStep, MailStep
<1> QED
  BY <1>1, <1>2, InvHolds, PTL DEF Spec, Safe, KeepsOrder, Mail!Spec

-----------------------------------------------------------------------------
(* Wakeups *)

\* No task parks, and a link that changes what they wait for will notify.
StillParked ==
  \A g \in Generations : worker'[g].at = "parked" =>
    worker[g].at = "parked" /\ worker'[g].link = worker[g].link
\* Link n is as it was to who waits for it, or is about to notify.
Notifies(n) ==
  \/ chan'[n].ring
  \/ /\ chan'[n].closed = chan[n].closed /\ chan'[n].state = chan[n].state
     /\ chan'[n].ring = chan[n].ring

\* No wakeup is missed where the links that change notify, and no task parks.
LEMMA WakesStep ==
  ASSUME Base, NoMissedWakeup, StillParked, \A n \in LinkIds : Notifies(n)
  PROVE  NoMissedWakeup'
<1> SUFFICES ASSUME NEW g \in Generations, worker'[g].at = "parked",
                    chan'[worker'[g].link].closed \/ chan'[worker'[g].link].state # "connecting"
             PROVE  chan'[worker'[g].link].ring
  BY DEF NoMissedWakeup
<1> PICK n : n = worker[g].link
  OBVIOUS
<1>1. worker[g].at = "parked" /\ worker'[g].link = n
  BY DEF StillParked
<1>2. n \in LinkIds
  BY <1>1, TaskFacts DEF Sensible, OfLink
<1>3. chan[n].closed \/ chan[n].state # "connecting" => chan[n].ring
  BY <1>1 DEF NoMissedWakeup
<1>4. Notifies(n)
  BY <1>2
<1> QED
  BY <1>1, <1>3, <1>4 DEF Notifies

\* A task that changes places, and the others as they were.
LEMMA Unparked ==
  ASSUME Base, NEW g \in Generations, NEW w, w.at # "parked",
         worker' = [worker EXCEPT ![g] = w] \/ worker' = worker
  PROVE  StillParked
<1>1. worker \in [Generations -> Task]
  BY DEF Base, Typed, TasksTyped
<1> QED
  BY <1>1 DEF StillParked

\* A link that is closed notifies.
LEMMA ClosedLinkNotifies ==
  ASSUME Base, chan' = CloseLink(link), NEW n \in LinkIds
  PROVE  Notifies(n)
<1>1. chan \in [LinkIds -> LinkState] /\ chan[n] \in LinkState
  BY DEF Base, Typed, LinksTyped
<1>2. CASE link = n
  <2>1. chan' = [chan EXCEPT ![n].closed = TRUE, ![n].ring = TRUE]
    BY <1>2, Constants DEF CloseLink, LinkIds
  <2>2. chan'[n].ring = TRUE
    BY <1>1, <2>1 DEF LinkState
  <2> QED
    BY <2>2 DEF Notifies
<1>3. CASE link # n
  <2>1. chan'[n] = chan[n]
    BY <1>1, <1>3 DEF CloseLink
  <2> QED
    BY <2>1 DEF Notifies
<1> QED
  BY <1>2, <1>3

\* A link whose channel changed notifies.
LEMMA ChangedNotifies ==
  ASSUME Base, NEW m \in LinkIds, NEW c \in LinkState, Changed(m, c), NEW n \in LinkIds
  PROVE  Notifies(n)
<1>1. chan \in [LinkIds -> LinkState]
  BY DEF Base, Typed, LinksTyped
<1> PICK d : d = [c EXCEPT !.ring = TRUE]
  OBVIOUS
<1>2. d.ring = TRUE
  BY DEF LinkState
<1>3. chan' = [chan EXCEPT ![m] = d]
  BY DEF Changed
<1> QED
  BY <1>1, <1>2, <1>3 DEF Notifies

\* A step of the task that sends: it parks only where nothing has happened.
LEMMA SendOneWakes ==
  ASSUME Base, Base', NoMissedWakeup, NEW g \in Generations, SendOne(g)
  PROVE  NoMissedWakeup'
<1>0. worker \in [Generations -> Task] /\ chan \in [LinkIds -> LinkState]
  BY DEF Base, Typed, TasksTyped, LinksTyped
<1>1. ASSUME chan' = chan, StillParked PROVE NoMissedWakeup'
  BY <1>1, WakesStep DEF Notifies
<1>2. At("idle", g).at = "idle" /\ worker[g] \in Task
  BY <1>0 DEF At
<1>3. ASSUME Fail(g) PROVE NoMissedWakeup'
  <2>1. worker' = [worker EXCEPT ![g] = At("idle", g)] /\ chan' = chan
    BY <1>3 DEF Fail, Return
  <2> QED
    BY <1>1, <1>2, <2>1, Unparked
<1>4. ASSUME NEW at \in Places, at # "parked", Goto(g, at) PROVE NoMissedWakeup'
  <2>1. worker' = [worker EXCEPT ![g].at = at] /\ chan' = chan
    BY <1>4 DEF Goto
  <2>2. worker'[g].at = at /\ \A u \in Generations : u # g => worker'[u] = worker[u]
    BY <1>0, <1>2, <2>1 DEF Task
  <2>3. StillParked
    BY <1>4, <2>2 DEF StillParked
  <2> QED
    BY <1>1, <2>1, <2>3
<1>5. CASE WaitLink(g)
  <2>1. CASE worker' = [worker EXCEPT ![g].at = "open", ![g].link = link] /\ UNCHANGED <<chan, outcome, rx>>
    <3>1. worker'[g].at = "open" /\ \A u \in Generations : u # g => worker'[u] = worker[u]
      BY <1>0, <1>2, <2>1 DEF Task
    <3> QED
      BY <1>1, <2>1, <3>1 DEF StillParked
  <2> QED
    BY <1>3, <1>5, <2>1 DEF WaitLink
<1>6. CASE CheckOpen(g)
  BY <1>3, <1>4, <1>6 DEF CheckOpen, Places
<1>7. CASE Arm(g)
  <2>1. CASE Goto(g, "open")
    BY <1>4, <2>1 DEF Places
  <2>2. CASE /\ Goto(g, "parked") /\ ~chan[worker[g].link].closed /\ chan[worker[g].link].state = "connecting"
    <3>1. worker' = [worker EXCEPT ![g].at = "parked"] /\ chan' = chan
      BY <2>2 DEF Goto
    <3>2. worker'[g].link = worker[g].link /\ \A u \in Generations : u # g => worker'[u] = worker[u]
      BY <1>0, <1>2, <3>1 DEF Task
    <3> QED
      BY <2>2, <3>1, <3>2 DEF NoMissedWakeup
  <2> QED
    BY <1>7, <2>1, <2>2 DEF Arm
<1>8. CASE ChannelTimeout(g)
  BY <1>3, <1>8 DEF ChannelTimeout
<1>9. CASE StartChunk(g) \/ WaitDrain(g)
  <2>1. Fail(g) \/ \E at \in {"send", "drain"} : Goto(g, at)
    BY <1>9 DEF StartChunk, WaitDrain
  <2> QED
    BY <1>3, <1>4, <2>1 DEF Places
<1>10. CASE NextMsgId(g)
  <2> PICK n : n = worker[g].link
    OBVIOUS
  <2>1. /\ worker' = [worker EXCEPT ![g].at = "chunk", ![g].id = chan[n].nextId]
        /\ chan' = [chan EXCEPT ![n].nextId = (@ + 1) % IdSpace]
    BY <1>10 DEF NextMsgId, TakeMsgId
  <2>2. worker'[g].at = "chunk" /\ \A u \in Generations : u # g => worker'[u] = worker[u]
    BY <1>0, <1>2, <2>1 DEF Task
  <2>3. StillParked
    BY <2>2 DEF StillParked
  <2>4. \A k \in LinkIds : Notifies(k)
    <3> SUFFICES ASSUME NEW k \in LinkIds PROVE Notifies(k)
      OBVIOUS
    <3> DEFINE next == (chan[n].nextId + 1) % IdSpace
    <3>1. chan' = [chan EXCEPT ![n].nextId = next]
      BY <2>1
    <3> HIDE DEF next
    <3>2. chan[k] \in LinkState
      BY <1>0
    <3> QED
      BY <1>0, <3>1, <3>2 DEF Notifies, LinkState
  <2> QED
    BY <2>3, <2>4, WakesStep
<1>11. CASE SendChunk(g)
  <2>1. CASE chan[worker[g].link].state # "open"
    BY <1>3, <1>11, <2>1 DEF SendChunk
  <2>2. CASE chan[worker[g].link].state = "open"
    <3>1. chan' = Sent(worker[g]) /\ worker[g].at = "send"
      BY <1>11, <2>2 DEF SendChunk
    <3>2. \A k \in LinkIds : Notifies(k)
      <4> SUFFICES ASSUME NEW k \in LinkIds PROVE Notifies(k)
        OBVIOUS
      <4> DEFINE n == worker[g].link
                 z == Append(chan[n].wire, MakeFrame(worker[g].id, worker[g].seq, worker[g].msg))
                 dn == IF LastChunk(worker[g]) THEN chan[n].done \cup {worker[g].msg} ELSE chan[n].done
      <4>1. n \in LinkIds
        BY <3>1, TaskFacts DEF Sensible, OfLink, OnLink, WithId
      <4>2. chan' = [chan EXCEPT ![n].wire = z, ![n].done = dn]
        BY <1>0, <3>1, <4>1 DEF Sent
      <4> HIDE DEF z, dn, n
      <4>3. chan[k] \in LinkState
        BY <1>0
      <4> QED
        BY <1>0, <4>1, <4>2, <4>3 DEF Notifies, LinkState
    <3>3. StillParked
      <4>1. CASE worker' = [worker EXCEPT ![g] = At("idle", g)]
        BY <1>2, <4>1, Unparked
      <4>2. CASE worker' = [worker EXCEPT ![g].at = "chunk", ![g].seq = @ + 1]
        <5>1. worker'[g].at = "chunk" /\ \A u \in Generations : u # g => worker'[u] = worker[u]
          BY <1>0, <1>2, <4>2 DEF Task
        <5> QED
          BY <5>1 DEF StillParked
      <4> QED
        BY <1>11, <2>2, <4>1, <4>2 DEF SendChunk, Return
    <3> QED
      BY <3>2, <3>3, WakesStep
  <2> QED
    BY <2>1, <2>2
<1> QED
  BY <1>5, <1>6, <1>7, <1>8, <1>9, <1>10, <1>11 DEF SendOne

\* The actor, the callbacks of the channel and the connection.
LEMMA ActorWakes ==
  ASSUME Base, NoMissedWakeup,
         \/ HandleSend \/ CreateLink \/ ClosePeer \/ TeardownPeers
         \/ \E g \in Generations : SenderTask(g)
         \/ \E n \in LinkIds : OnOpen(n) \/ OnClose(n)
  PROVE  NoMissedWakeup'
<1>1. CASE HandleSend
  <2>1. chan' = chan
    BY <1>1 DEF HandleSend
  <2>2. QueueInUse \in Generations /\ At("idle", QueueInUse).at # "parked"
    BY DEF QueueInUse, Generations, At, Base, Typed, GameTyped
  <2>3. worker' = worker \/ worker' = [worker EXCEPT ![QueueInUse] = At("idle", QueueInUse)]
    BY <1>1 DEF HandleSend
  <2>4. StillParked
    BY <2>2, <2>3, Unparked DEF StillParked
  <2> QED
    BY <2>1, <2>4, WakesStep DEF Notifies
<1>2. CASE CreateLink \/ ClosePeer \/ TeardownPeers
  <2>1. chan' = CloseLink(link) /\ worker' = worker
    BY <1>2 DEF CreateLink, ClosePeer, TeardownPeers
  <2> QED
    BY <2>1, ClosedLinkNotifies, WakesStep DEF StillParked
<1>3. ASSUME NEW g \in Generations, SenderTask(g) PROVE NoMissedWakeup'
  <2> PICK w : w = worker'[g]
    OBVIOUS
  <2>1. worker \in [Generations -> Task]
    BY DEF Base, Typed, TasksTyped
  <2>2. /\ w.at # "parked" /\ \A u \in Generations : u # g => worker'[u] = worker[u]
        /\ chan' = chan
    BY <1>3, <2>1 DEF SenderTask, At, Ended
  <2>3. StillParked
    BY <2>2 DEF StillParked
  <2> QED
    BY <2>2, <2>3, WakesStep DEF Notifies
<1>4. ASSUME NEW n \in LinkIds, OnOpen(n) \/ OnClose(n) PROVE NoMissedWakeup'
  <2>1. chan[n] \in LinkState
    BY DEF Base, Typed, LinksTyped
  <2>2. \E c \in LinkState : Changed(n, c)
    <3> PICK c : c = chan[n]
      OBVIOUS
    <3>1. [c EXCEPT !.state = "open"] \in LinkState /\ [c EXCEPT !.state = "closed"] \in LinkState
      BY <2>1 DEF LinkState
    <3> QED
      BY <1>4, <3>1 DEF OnOpen, OnClose
  <2>3. worker' = worker
    BY <2>2 DEF Changed, Unsent
  <2> QED
    BY <2>2, <2>3, ChangedNotifies, WakesStep DEF StillParked
<1> QED
  BY <1>1, <1>2, <1>3, <1>4

\* No wakeup is missed when the waiters are notified: none is left.
LEMMA NotifyWakes ==
  ASSUME Base, NoMissedWakeup, NEW n \in LinkIds, NotifyWaiters(n)
  PROVE  NoMissedWakeup'
<1>1. chan \in [LinkIds -> LinkState] /\ worker \in [Generations -> Task]
  BY DEF Base, Typed, TasksTyped, LinksTyped
<1>2. \A k \in LinkIds : k # n => chan'[k] = chan[k]
  BY <1>1 DEF NotifyWaiters
<1>3. ASSUME NEW g \in Generations, worker'[g].at = "parked"
      PROVE  worker'[g] = worker[g] /\ worker[g].link # n /\ worker[g].link \in LinkIds
  <2>1. worker'[g] = IF worker[g].at = "parked" /\ worker[g].link = n
                       THEN [worker[g] EXCEPT !.at = "open"] ELSE worker[g]
    BY DEF NotifyWaiters
  <2>2. worker[g] \in Task
    BY <1>1
  <2>3. [worker[g] EXCEPT !.at = "open"].at = "open"
    BY <2>2 DEF Task
  <2>4. worker'[g] = worker[g] /\ worker[g].link # n
    BY <1>3, <2>1, <2>3
  <2> QED
    BY <1>3, <2>4, TaskFacts DEF Sensible, OfLink
<1> QED
  BY <1>2, <1>3 DEF NoMissedWakeup

\* No wakeup is missed by what the connection does.
LEMMA ConnectionWakes ==
  ASSUME Base, NoMissedWakeup, Connection
  PROVE  NoMissedWakeup'
<1>0. chan \in [LinkIds -> LinkState] /\ \A k \in LinkIds : chan[k] \in LinkState
  BY DEF Base, Typed, LinksTyped
<1>1. worker' = worker
  BY DEF Connection, Dawdle, Deliver, Breaks, Unsent
<1>2. \A k \in LinkIds : Notifies(k)
  <2>1. CASE Dawdle
    BY <2>1 DEF Dawdle, Notifies
  <2>2. ASSUME NEW n \in LinkIds, Deliver(n), NEW k \in LinkIds PROVE Notifies(k)
    <3> DEFINE z == Tail(chan[n].wire)
    <3>1. chan' = [chan EXCEPT ![n].wire = z]
      BY <1>0, <2>2 DEF Deliver
    <3> HIDE DEF z
    <3> QED
      BY <1>0, <3>1 DEF Notifies, LinkState
  <2>3. ASSUME NEW n \in LinkIds, Breaks(n), NEW k \in LinkIds PROVE Notifies(k)
    <3>1. chan' = [chan EXCEPT ![n].cut = TRUE]
      BY <2>3 DEF Breaks
    <3> QED
      BY <1>0, <3>1 DEF Notifies, LinkState
  <2> QED
    BY <2>1, <2>2, <2>3 DEF Connection
<1> QED
  BY <1>1, <1>2, WakesStep DEF StillParked

\* Each step keeps NoMissedWakeup.
LEMMA WakeupStep ==
  ASSUME Base, Base', NoMissedWakeup, [Next]_vars
  PROVE  NoMissedWakeup'
<1>1. CASE UNCHANGED vars
  BY <1>1 DEF vars, NoMissedWakeup
<1>2. CASE NativeNext
  BY <1>2, SendOneWakes, ActorWakes, NotifyWakes DEF NativeNext
<1>3. CASE WasmNext
  <2>1. backend' = "wasm"
    <3>1. ASSUME NEW t \in Generations, SendOneWasm(t) PROVE backend' = "wasm"
      <4>1. Wasm
        BY <3>1 DEF SendOneWasm, LinkArrived, CheckReliableOpen, Refused, AwaitTimeout, NextId, Burst,
                 Drained, Ready
      <4> QED
        BY <3>1, <4>1 DEF SendOneWasm, Wasm
    <3>2. ASSUME NEW t \in Generations, SendWorker(t) PROVE backend' = "wasm"
      BY <3>2 DEF SendWorker, Wasm
    <3>3. CASE QueueReliable \/ CreateLinkWasm \/ ClosePeerWasm \/ TeardownPeersWasm
      BY <3>3 DEF QueueReliable, CreateLinkWasm, ClosePeerWasm, TeardownPeersWasm, Wasm
    <3>4. ASSUME NEW n \in LinkIds, OnOpenWasm(n) \/ OnCloseWasm(n) PROVE backend' = "wasm"
      BY <3>4 DEF OnOpenWasm, OnCloseWasm, Wasm
    <3> QED
      BY <1>3, <3>1, <3>2, <3>3, <3>4 DEF WasmNext
  <2>2. \A g \in Generations : worker'[g].at \in WasmPlaces
    BY <2>1 DEF Base, Placed, Sensible
  <2> QED
    BY <2>2 DEF NoMissedWakeup, WasmPlaces
<1>4. CASE Connection
  BY <1>4, ConnectionWakes
<1> QED
  BY <1>1, <1>2, <1>3, <1>4 DEF Next

\* A native sender never sleeps through the change it waits for: NoMissedWakeup
\* of the runs.
THEOREM WakeupsReach == Spec => []NoMissedWakeup
<1>1. Init => NoMissedWakeup
  BY DEF Init, NoMissedWakeup, Ended, At
<1>2. IInv /\ IInv' /\ NoMissedWakeup /\ [Next]_vars => NoMissedWakeup'
  BY WakeupStep DEF IInv
<1> QED
  BY <1>1, <1>2, InvHolds, PTL DEF Spec, Safe

-----------------------------------------------------------------------------
(* Nothing is lost *)

\* The last frame of a link is the last as long as there is one.
LEMMA LastStays ==
  ASSUME Base, Base', NEW n \in LinkIds, Shrinks(n), chan'[n].wire # <<>>
  PROVE  /\ chan[n].wire # <<>>
         /\ chan'[n].wire[Len(chan'[n].wire)] = chan[n].wire[Len(chan[n].wire)]
<1> PICK a : a = Len(chan'[n].wire)
  OBVIOUS
<1> PICK b : b = Len(chan[n].wire)
  OBVIOUS
<1>1. a \in Nat /\ b \in Nat
  BY ShrinkingWire
<1>2. chan' \in [LinkIds -> LinkState]
  BY DEF Base, Typed, LinksTyped
<1>3. chan'[n].wire \in Seq(Packet) /\ chan[n].wire \in Seq(Packet)
  BY <1>2, WireFacts DEF LinkState
<1>4. a # 0
  BY <1>3
<1> PICK off \in {0, 1} :
    /\ a = 0 \/ a + off = b
    /\ \A k \in 1 .. a : k + off \in 1 .. b /\ chan'[n].wire[k] = chan[n].wire[k + off]
  BY DEF Shrinks
<1>5. a \in 1 .. a /\ a + off = b /\ b # 0
  BY ONLY <1>1, <1>4, a = 0 \/ a + off = b, off \in {0, 1}
<1>6. chan'[n].wire[a] = chan[n].wire[b]
  BY <1>5
<1>7. chan[n].wire # <<>>
  BY <1>5
<1> QED
  BY <1>6, <1>7

\* A task keeps its id while its link is in use and frames are on it.
LEMMA NeutralIds ==
  ASSUME Base, Base', Neutral, NEW n \in LinkIds, Live(n)',
         NEW u \in Generations, HasId(u), worker[u].link = n,
         chan'[n].wire # <<>> \/ Opened(chan'[n])
  PROVE  worker'[u].at \in WithId
<1> SUFFICES ASSUME worker'[u].at \notin WithId PROVE FALSE
  OBVIOUS
<1>1. PlaceRests(worker[u], worker'[u])
  BY NeutralPlaces
<1>2. worker'[u].at \notin OnLink /\ ~Opened(chan'[n])
  BY <1>1 DEF PlaceRests, HasId
<1>3. chan'[n].wire # <<>>
  BY <1>2
<1> PICK t \in Generations : worker'[t].at \in OnLink /\ worker'[t].link = n
  BY <1>2 DEF Live
<1>4. PlaceRests(worker[t], worker'[t])
  BY NeutralPlaces
<1>5. worker[t].at \in OnLink /\ worker[t].link = n
  BY <1>2, <1>3, <1>4 DEF PlaceRests
<1>6. t # u
  BY <1>2
<1>7. n # 0
  BY Constants DEF LinkIds
<1> QED
  BY <1>5, <1>6, <1>7 DEF Base, OneSender

\* No gap where no frame is sent and no id taken.
LEMMA NeutralGapless ==
  ASSUME Base, Base', Gapless, Neutral
  PROVE  Gapless'
<1>1. \A n \in LinkIds : Shrinks(n)
  BY NeutralWire
<1>2. ASSUME NEW n \in LinkIds, NEW k \in 1 .. Len(chan'[n].wire) - 1
      PROVE  Continues(chan'[n].wire[k], chan'[n].wire[k + 1])
  <2> PICK a : a = Len(chan'[n].wire)
    OBVIOUS
  <2> PICK b : b = Len(chan[n].wire)
    OBVIOUS
  <2>1. a \in Nat /\ b \in Nat
    BY <1>1, ShrinkingWire
  <2> PICK off \in {0, 1} :
      /\ a = 0 \/ a + off = b
      /\ \A i \in 1 .. a : i + off \in 1 .. b /\ chan'[n].wire[i] = chan[n].wire[i + off]
    BY <1>1 DEF Shrinks
  <2>2. k \in 1 .. a /\ k + 1 \in 1 .. a /\ k + off \in 1 .. b - 1 /\ k + 1 + off = k + off + 1
    BY ONLY <2>1, a = 0 \/ a + off = b, off \in {0, 1}, k \in 1 .. a - 1
  <2>3. chan'[n].wire[k] = chan[n].wire[k + off] /\ chan'[n].wire[k + 1] = chan[n].wire[k + off + 1]
    BY <2>2
  <2>4. Continues(chan[n].wire[k + off], chan[n].wire[k + off + 1])
    BY <2>2 DEF Gapless
  <2> QED
    BY <2>3, <2>4
<1>3. ASSUME NEW t \in Generations, worker'[t].at \in WithId, worker'[t].seq > 0,
             NEW n, n = worker'[t].link, NEW z, z = chan'[n].wire, z # <<>>
      PROVE  z[Len(z)].id = worker'[t].id /\ z[Len(z)].msg = worker'[t].msg
             /\ z[Len(z)].seq + 1 = worker'[t].seq
  <2>1. /\ HasId(t) /\ worker'[t].msg = worker[t].msg /\ worker[t].link = n
        /\ worker'[t].id = worker[t].id /\ worker'[t].seq = worker[t].seq
    BY <1>3, NeutralPlaces
  <2>2. n \in LinkIds
    BY <2>1, TaskFacts DEF HasId, Sensible, OfLink, OnLink
  <2>3. chan[n].wire # <<>> /\ z[Len(z)] = chan[n].wire[Len(chan[n].wire)]
    BY <1>1, <1>3, <2>2, LastStays
  <2>4. /\ chan[n].wire[Len(chan[n].wire)].id = worker[t].id
        /\ chan[n].wire[Len(chan[n].wire)].msg = worker[t].msg
        /\ chan[n].wire[Len(chan[n].wire)].seq + 1 = worker[t].seq
    BY <1>3, <2>1, <2>3 DEF Gapless
  <2> QED
    BY <2>1, <2>3, <2>4
<1>4. ASSUME NEW n \in LinkIds, Live(n)', NEW z, z = chan'[n].wire, z # <<>>
      PROVE  \/ Final(z[Len(z)])
             \/ \E t \in Generations : worker'[t].at \in WithId /\ worker'[t].link = n /\ worker'[t].seq > 0
  <2>1. Live(n)
    BY <1>4, NeutralLive
  <2>2. chan[n].wire # <<>> /\ z[Len(z)] = chan[n].wire[Len(chan[n].wire)]
    BY <1>1, <1>4, LastStays
  <2>3. CASE Final(chan[n].wire[Len(chan[n].wire)])
    BY <2>2, <2>3
  <2>4. ASSUME NEW t \in Generations, HasId(t), worker[t].link = n, worker[t].seq > 0
        PROVE  worker'[t].at \in WithId /\ worker'[t].link = n /\ worker'[t].seq > 0
    <3>0. chan'[n].wire # <<>>
      BY <1>4
    <3>1. worker'[t].at \in WithId
      BY <1>4, <2>4, <3>0, NeutralIds
    <3> QED
      BY <2>4, <3>1, NeutralPlaces
  <2> QED
    BY <2>1, <2>2, <2>3, <2>4 DEF Gapless
<1>5. \A n \in LinkIds : \A k \in 1 .. Len(chan'[n].wire) - 1 : Continues(chan'[n].wire[k], chan'[n].wire[k + 1])
  BY <1>2
<1>6. \A t \in Generations : worker'[t].at \in WithId /\ worker'[t].seq > 0 =>
        LET w == worker'[t]
            z == chan'[w.link].wire
        IN z # <<>> => z[Len(z)].id = w.id /\ z[Len(z)].msg = w.msg /\ z[Len(z)].seq + 1 = w.seq
  BY <1>3
<1> QED
  BY <1>4, <1>5, <1>6 DEF Gapless, HasId

\* No gap when an id is taken: the message before it was sent whole.
LEMMA TakesIdGapless ==
  ASSUME Base, Base', Gapless, NEW t \in Generations, TakesId(t)
  PROVE  Gapless'
<1> PICK n : n = worker[t].link
  OBVIOUS
<1>1. n \in LinkIds /\ worker[t].at \in OnLink /\ worker'[t].link = n
  BY TakesIdLinks
<1>2. \A k \in LinkIds : chan'[k].wire = chan[k].wire /\ chan'[k].state = chan[k].state /\ chan'[k].closed = chan[k].closed
  BY TakesIdLinks
<1>3. \A u \in Generations : u # t => worker[u].link = 0 /\ ~HasId(u) /\ worker'[u] = worker[u]
  BY TakesIdLinks
<1>4. ~HasId(t) /\ worker'[t].seq = 0
  BY DEF TakesId, HasId, WithId
<1>5. \A u \in Generations : worker'[u].at \in WithId => worker'[u].seq = 0
  BY <1>3, <1>4 DEF HasId
<1>6. ASSUME NEW k \in LinkIds, Live(k)' PROVE Live(k)
  BY <1>1, <1>2, <1>3, <1>6 DEF Live, Opened
<1>7. ASSUME NEW k \in LinkIds, Live(k)', chan'[k].wire # <<>> PROVE Final(chan'[k].wire[Len(chan'[k].wire)])
  <2>1. ~\E u \in Generations : HasId(u)
    BY <1>3, <1>4
  <2> QED
    BY <1>2, <1>6, <1>7, <2>1 DEF Gapless
<1>8. \A k \in LinkIds : \A i \in 1 .. Len(chan'[k].wire) - 1 : Continues(chan'[k].wire[i], chan'[k].wire[i + 1])
  BY <1>2 DEF Gapless
<1>9. \A u \in Generations : worker'[u].at \in WithId => ~(worker'[u].seq > 0)
  BY <1>5
<1> QED
  BY <1>7, <1>8, <1>9 DEF Gapless, HasId

\* No gap when a frame is sent: it continues the last one.
LEMMA SendsGapless ==
  ASSUME Base, Base', Frames, IdsApart, Gapless, NEW t \in Generations, Sends(t)
  PROVE  Gapless'
<1> PICK v : v = worker[t]
  OBVIOUS
<1> PICK n : n = worker[t].link
  OBVIOUS
<1> PICK f : f = MakeFrame(worker[t].id, worker[t].seq, worker[t].msg)
  OBVIOUS
<1> PICK len : len = Len(chan[n].wire)
  OBVIOUS
<1>1. /\ n \in LinkIds /\ v.msg \in 1 .. Messages /\ v.seq \in Nat /\ v.id \in 0 .. IdSpace - 1
      /\ HasId(t) /\ v.at \in {"send", "burst"}
      /\ f.id = v.id /\ f.seq = v.seq /\ f.msg = v.msg /\ f.total = Chunks[v.msg]
  BY SendsLinks
<1>2. len \in Nat /\ Len(chan'[n].wire) = len + 1 /\ chan'[n].wire[len + 1] = f
  BY SendsLinks
<1>3. \A k \in 1 .. len : chan'[n].wire[k] = chan[n].wire[k]
  BY SendsLinks
<1>4. \A k \in LinkIds : k # n => chan'[k] = chan[k]
  BY SendsLinks
<1>5. \A k \in LinkIds : chan'[k].state = chan[k].state /\ chan'[k].closed = chan[k].closed
  BY SendsLinks
<1>6. \A u \in Generations : u # t => worker[u].link = 0 /\ worker'[u] = worker[u] /\ ~HasId(u)
  BY SendsLinks
<1>7. \/ worker'[t].at \in NoJob /\ v.seq + 1 = Chunks[v.msg]
      \/ /\ worker'[t].at \in {"chunk", "burst"} /\ worker'[t].msg = v.msg /\ worker'[t].link = n
         /\ worker'[t].id = v.id /\ worker'[t].seq = v.seq + 1
  BY DEF Sends, LastChunk, ChunkCount
<1>8. v.seq < Chunks[v.msg]
  BY <1>1 DEF IdsApart
<1>9. Live(n)
  BY <1>1 DEF Live, HasId, OnLink
<1>10. n # 0
  BY <1>1, Constants DEF LinkIds
<1>11. ASSUME NEW h, h = chan[n].wire[len], len > 0 PROVE Continues(h, f)
  <2>1. len \in 1 .. len /\ chan[n].wire # <<>>
    BY <1>2, <1>11
  <2>2. h \in OnWire(n)
    BY <1>11, <2>1 DEF OnWire
  <2>3. CASE v.seq > 0
    <3>1. h.id = v.id /\ h.msg = v.msg /\ h.seq + 1 = v.seq
      BY <1>1, <1>11, <2>1, <2>3 DEF Gapless
    <3>2. h.total = Chunks[v.msg]
      BY <1>1, <2>2, <3>1 DEF Frames
    <3>3. ~Final(h)
      BY <1>1, <1>8, <3>1, <3>2, Constants DEF Final
    <3> QED
      BY <1>1, <3>1, <3>3 DEF Continues
  <2>4. CASE v.seq = 0
    <3>1. ~\E u \in Generations : HasId(u) /\ worker[u].link = n /\ worker[u].seq > 0
      BY <1>6, <2>4
    <3>2. Final(h)
      BY <1>1, <1>9, <1>11, <2>1, <3>1 DEF Gapless
    <3> QED
      BY <1>1, <2>4, <3>2 DEF Continues
  <2> QED
    BY <1>1, <2>3, <2>4
<1>12. ASSUME NEW m \in LinkIds, NEW k \in 1 .. Len(chan'[m].wire) - 1
       PROVE  Continues(chan'[m].wire[k], chan'[m].wire[k + 1])
  <2>1. CASE m # n
    BY <1>4, <1>12, <2>1 DEF Gapless
  <2>2. CASE m = n /\ k < len
    <3>1. k \in 1 .. len /\ k + 1 \in 1 .. len /\ k \in 1 .. len - 1
      BY <1>2, <2>2
    <3>2. chan'[n].wire[k] = chan[n].wire[k] /\ chan'[n].wire[k + 1] = chan[n].wire[k + 1]
      BY <1>3, <3>1
    <3>3. Continues(chan[n].wire[k], chan[n].wire[k + 1])
      BY <1>1, <3>1 DEF Gapless
    <3> QED
      BY <2>2, <3>2, <3>3
  <2>3. CASE m = n /\ k = len
    <3>1. len > 0 /\ k \in 1 .. len
      BY <1>2, <2>3
    <3>2. chan'[n].wire[k] = chan[n].wire[len] /\ chan'[n].wire[k + 1] = f
      BY <1>2, <1>3, <2>3, <3>1
    <3> QED
      BY <1>11, <2>3, <3>1, <3>2
  <2>4. m = n => k < len \/ k = len
    BY <1>2
  <2> QED
    BY <2>1, <2>2, <2>3, <2>4
<1>13. ASSUME NEW u \in Generations, worker'[u].at \in WithId,
              NEW z, z = chan'[worker'[u].link].wire
       PROVE  z[Len(z)].id = worker'[u].id /\ z[Len(z)].msg = worker'[u].msg
              /\ z[Len(z)].seq + 1 = worker'[u].seq
  <2>1. u = t
    BY <1>6, <1>13 DEF HasId
  <2>2. /\ worker'[t].msg = v.msg /\ worker'[t].link = n
        /\ worker'[t].id = v.id /\ worker'[t].seq = v.seq + 1
    BY <1>7, <1>13, <2>1 DEF WithId, NoJob
  <2>3. z[Len(z)] = f
    BY <1>2, <1>13, <2>1, <2>2
  <2> QED
    BY <1>1, <2>1, <2>2, <2>3
<1>14. ASSUME NEW m \in LinkIds, Live(m)', NEW z, z = chan'[m].wire, z # <<>>
       PROVE  \/ Final(z[Len(z)])
              \/ \E u \in Generations : worker'[u].at \in WithId /\ worker'[u].link = m /\ worker'[u].seq > 0
  <2>1. CASE m # n
    <3>1. worker'[t].at \in OnLink => worker'[t].link # m
      BY <1>7, <2>1 DEF NoJob, OnLink, WithId
    <3>2. Live(m)
      BY <1>4, <1>6, <1>14, <2>1, <3>1 DEF Live, Opened
    <3>3. ~\E u \in Generations : HasId(u) /\ worker[u].link = m
      BY <1>6, <2>1
    <3> QED
      BY <1>4, <1>14, <2>1, <3>2, <3>3 DEF Gapless
  <2>2. CASE m = n
    <3>1. z[Len(z)] = f
      BY <1>2, <1>14, <2>2
    <3>2. CASE worker'[t].at \in NoJob /\ v.seq + 1 = Chunks[v.msg]
      BY <1>1, <3>1, <3>2 DEF Final
    <3>3. CASE worker'[t].at \in {"chunk", "burst"} /\ worker'[t].link = n /\ worker'[t].seq = v.seq + 1
      <4>1. worker'[t].at \in WithId /\ worker'[t].seq > 0
        BY <1>1, <3>3 DEF WithId
      <4> QED
        BY <2>2, <3>3, <4>1
    <3> QED
      BY <1>7, <3>2, <3>3
  <2> QED
    BY <2>1, <2>2
<1>15. \A u \in Generations : worker'[u].at \in WithId /\ worker'[u].seq > 0 =>
         LET w == worker'[u]
             z == chan'[w.link].wire
         IN z # <<>> => z[Len(z)].id = w.id /\ z[Len(z)].msg = w.msg /\ z[Len(z)].seq + 1 = w.seq
  BY <1>13
<1>16. \A m \in LinkIds : \A k \in 1 .. Len(chan'[m].wire) - 1 : Continues(chan'[m].wire[k], chan'[m].wire[k + 1])
  BY <1>12
<1> QED
  BY <1>14, <1>15, <1>16 DEF Gapless, HasId

\* Each kind of step keeps Gapless.
LEMMA GaplessStep ==
  ASSUME Base, Base', Frames, IdsApart, Gapless, Kinds
  PROVE  Gapless'
BY NeutralGapless, TakesIdGapless, SendsGapless DEF Kinds, Neutral

\* Where frames, ids and entries are as they were, what is expected is there still.
LEMMA StillExpects ==
  ASSUME Base, Base', Expects, rx' = rx,
         NEW n \in LinkIds, n = rx.link, chan[n].state = "open", ~slow, chan'[n].wire = chan[n].wire,
         \A t \in Generations : worker'[t].at \in WithId /\ worker'[t].link = n /\ worker'[t].seq > 0 =>
           HasId(t) /\ worker'[t].msg = worker[t].msg /\ worker'[t].link = worker[t].link
           /\ worker'[t].id = worker[t].id /\ worker'[t].seq = worker[t].seq
  PROVE  /\ chan'[n].wire # <<>> /\ chan'[n].wire[1].seq > 0 =>
              Has(chan[n].wire[1].id, chan[n].wire[1].seq, chan[n].wire[1].total)'
         /\ chan'[n].wire = <<>> => \A t \in Generations :
              worker'[t].at \in WithId /\ worker'[t].link = n /\ worker'[t].seq > 0 =>
                Has(worker[t].id, worker[t].seq, Chunks[worker[t].msg])'
<1>1. ASSUME chan'[n].wire # <<>>, chan'[n].wire[1].seq > 0
      PROVE  Has(chan[n].wire[1].id, chan[n].wire[1].seq, chan[n].wire[1].total)'
  <2>1. Has(chan[n].wire[1].id, chan[n].wire[1].seq, chan[n].wire[1].total)
    BY <1>1 DEF Expects
  <2> QED
    BY <2>1 DEF Has
<1>2. ASSUME chan'[n].wire = <<>>, NEW t \in Generations,
             worker'[t].at \in WithId, worker'[t].link = n, worker'[t].seq > 0
      PROVE  Has(worker[t].id, worker[t].seq, Chunks[worker[t].msg])'
  <2>1. /\ HasId(t) /\ worker'[t].msg = worker[t].msg /\ worker[t].link = n
        /\ worker'[t].id = worker[t].id /\ worker'[t].seq = worker[t].seq
    BY <1>2
  <2>2. Has(worker[t].id, worker[t].seq, Chunks[worker[t].msg])
    BY <1>2, <2>1 DEF Expects
  <2> QED
    BY <2>1, <2>2 DEF Has
<1> QED
  BY <1>1, <1>2

\* The receiver has what it should where nothing is sent: a new receiver waits for a
\* link on which nothing was sent.
LEMMA RestsExpects ==
  ASSUME Base, Base', Expects, Rests
  PROVE  Expects'
<1>1. Neutral
  BY DEF Neutral
<1> SUFFICES ASSUME NEW n \in LinkIds, n = rx'.link, chan'[n].state = "open", ~slow'
             PROVE  /\ chan'[n].wire # <<>> /\ chan'[n].wire[1].seq > 0 =>
                         Has(chan[n].wire[1].id, chan[n].wire[1].seq, chan[n].wire[1].total)'
                    /\ chan'[n].wire = <<>> => \A t \in Generations :
                         worker'[t].at \in WithId /\ worker'[t].link = n /\ worker'[t].seq > 0 =>
                           Has(worker[t].id, worker[t].seq, Chunks[worker[t].msg])'
  BY DEF Expects, HasId
<1>2. ~slow /\ n # 0
  BY Constants DEF Rests, LinkIds
<1>3. \/ chan[n].state = "open" /\ chan'[n].wire = chan[n].wire
      \/ chan[n].state = "connecting" /\ chan'[n].wire = <<>>
  BY DEF Rests, LinkRests
<1>4. CASE rx' = rx
  <2>1. chan[n].state = "open" /\ chan'[n].wire = chan[n].wire
    BY <1>2, <1>3, <1>4 DEF Base, LinksOpened
  <2> QED
    BY <1>1, <1>2, <1>4, <2>1, StillExpects, NeutralPlaces
<1>5. CASE chan[rx'.link].state = "connecting"
  <2>1. chan[n].state = "connecting" /\ chan'[n].wire = <<>>
    BY <1>3, <1>5
  <2>2. ASSUME NEW t \in Generations, worker'[t].at \in WithId, worker'[t].link = n PROVE FALSE
    <3>1. worker[t].at \in OnLink /\ worker[t].link = n
      BY <1>1, <2>2, NeutralPlaces DEF HasId, OnLink
    <3> QED
      BY <2>1, <3>1, TaskFacts DEF Sensible
  <2> QED
    BY <2>1, <2>2
<1> QED
  BY <1>4, <1>5 DEF Rests

\* The receiver has what it should when a message is queued or taken.
LEMMA QueueingExpects ==
  ASSUME Base, Base', Expects,
         (\E g \in Generations : Calls(g)) \/ (\E t \in Generations, g \in Generations : Takes(t, g))
  PROVE  Expects'
<1>1. Neutral /\ rx' = rx /\ chan' = chan /\ slow' = slow
  BY DEF Neutral, Calls, Takes
<1> SUFFICES ASSUME NEW n \in LinkIds, n = rx'.link, chan'[n].state = "open", ~slow'
             PROVE  /\ chan'[n].wire # <<>> /\ chan'[n].wire[1].seq > 0 =>
                         Has(chan[n].wire[1].id, chan[n].wire[1].seq, chan[n].wire[1].total)'
                    /\ chan'[n].wire = <<>> => \A t \in Generations :
                         worker'[t].at \in WithId /\ worker'[t].link = n /\ worker'[t].seq > 0 =>
                           Has(worker[t].id, worker[t].seq, Chunks[worker[t].msg])'
  BY DEF Expects, HasId
<1> QED
  BY <1>1, StillExpects, NeutralPlaces

\* The receiver has what it should when an id is taken: no frame on the link has it.
LEMMA TakesIdExpects ==
  ASSUME Base, Base', IdsApart, Expects, NEW t \in Generations, TakesId(t)
  PROVE  Expects'
<1> PICK l : l = worker[t].link
  OBVIOUS
<1> PICK next : next = chan[l].nextId
  OBVIOUS
<1>1. \A k \in LinkIds : chan'[k].wire = chan[k].wire /\ chan'[k].state = chan[k].state
  BY TakesIdLinks
<1>2. \A u \in Generations : u # t => ~HasId(u) /\ worker'[u] = worker[u]
  BY TakesIdLinks
<1>3. \A u \in Generations : worker'[u].at \in WithId => ~(worker'[u].seq > 0)
  <2>1. worker'[t].seq = 0
    BY DEF TakesId
  <2> QED
    BY <1>2, <2>1 DEF HasId
<1>4. slow' = slow
  BY DEF TakesId
<1>5. /\ rx'.link = rx.link /\ DOMAIN rx'.inflight = DOMAIN rx.inflight
      /\ \A i \in DOMAIN rx.inflight :
           /\ rx'.inflight[i].total = rx.inflight[i].total
           /\ rx'.inflight[i].chunks = rx.inflight[i].chunks
           /\ rx'.inflight[i].old => rx.inflight[i].old \/ (rx.link = l /\ i = next)
  <2>1. CASE rx.link # l
    <3>1. rx' = rx
      BY <2>1 DEF TakesId, TakeMsgId
    <3> QED
      BY <3>1
  <2>2. CASE rx.link = l
    <3> PICK r : r = rx'
      OBVIOUS
    <3> PICK ids : ids = {next}
      OBVIOUS
    <3>1. r = Aged(rx, ids) /\ RxTyped
      BY <2>2 DEF TakesId, TakeMsgId, Base, Typed
    <3>2. /\ r.link = rx.link /\ DOMAIN r.inflight = DOMAIN rx.inflight
          /\ \A i \in DOMAIN rx.inflight :
               /\ r.inflight[i].total = rx.inflight[i].total
               /\ r.inflight[i].chunks = rx.inflight[i].chunks
               /\ r.inflight[i].old <=> rx.inflight[i].old \/ i \in ids
      BY <3>1, AgedTyped, SMTT(30)
    <3>3. /\ rx'.link = rx.link /\ DOMAIN rx'.inflight = DOMAIN rx.inflight
          /\ \A i \in DOMAIN rx.inflight :
               /\ rx'.inflight[i].total = rx.inflight[i].total
               /\ rx'.inflight[i].chunks = rx.inflight[i].chunks
      BY <3>2
    <3>4. \A i \in DOMAIN rx.inflight : rx'.inflight[i].old => rx.inflight[i].old \/ i = next
      BY <3>2
    <3> QED
      BY <2>2, <3>3, <3>4
  <2> QED
    BY <2>1, <2>2
<1>6. ASSUME NEW n \in LinkIds, n = rx.link, chan[n].state = "open", ~slow,
             chan[n].wire # <<>>, NEW h, h = chan[n].wire[1], h.seq > 0
      PROVE  Has(h.id, h.seq, h.total)'
  <2>1. Has(h.id, h.seq, h.total)
    BY <1>6 DEF Expects
  <2>2. n = l => h.id # next
    <3>1. 1 \in 1 .. Len(chan[n].wire)
      BY <1>6, WireFacts
    <3> QED
      BY <1>6, <3>1, NextIdFree
  <2> PICK i : i = h.id
    OBVIOUS
  <2>3. /\ i \in DOMAIN rx.inflight /\ ~rx.inflight[i].old
        /\ rx.inflight[i].total = h.total /\ DOMAIN rx.inflight[i].chunks = 0 .. h.seq - 1
    BY <2>1 DEF Has
  <2>4. /\ i \in DOMAIN rx'.inflight /\ ~rx'.inflight[i].old
        /\ rx'.inflight[i].total = h.total /\ DOMAIN rx'.inflight[i].chunks = 0 .. h.seq - 1
    BY <1>5, <1>6, <2>2, <2>3
  <2> QED
    BY <2>4 DEF Has
<1> SUFFICES ASSUME NEW n \in LinkIds, n = rx'.link, chan'[n].state = "open", ~slow'
             PROVE  chan'[n].wire # <<>> /\ chan'[n].wire[1].seq > 0 =>
                      Has(chan[n].wire[1].id, chan[n].wire[1].seq, chan[n].wire[1].total)'
  BY <1>3 DEF Expects, HasId
<1> QED
  BY <1>1, <1>4, <1>5, <1>6

\* The receiver has what it should when a frame is sent.
LEMMA SendsExpects ==
  ASSUME Base, Base', Expects, NEW t \in Generations, Sends(t)
  PROVE  Expects'
<1> PICK v : v = worker[t]
  OBVIOUS
<1> PICK l : l = worker[t].link
  OBVIOUS
<1> PICK f : f = MakeFrame(worker[t].id, worker[t].seq, worker[t].msg)
  OBVIOUS
<1> PICK len : len = Len(chan[l].wire)
  OBVIOUS
<1>1. /\ l \in LinkIds /\ HasId(t)
      /\ f.id = v.id /\ f.seq = v.seq /\ f.msg = v.msg /\ f.total = Chunks[v.msg]
  BY SendsLinks
<1>2. len \in Nat /\ Len(chan'[l].wire) = len + 1 /\ chan'[l].wire[len + 1] = f
  BY SendsLinks
<1>3. \A k \in 1 .. len : chan'[l].wire[k] = chan[l].wire[k]
  BY SendsLinks
<1>4. \A k \in LinkIds : k # l => chan'[k] = chan[k]
  BY SendsLinks
<1>5. \A k \in LinkIds : chan'[k].state = chan[k].state
  BY SendsLinks
<1>6. \A u \in Generations : u # t => ~HasId(u) /\ worker'[u] = worker[u]
  BY SendsLinks
<1>7. rx' = rx /\ slow' = slow /\ (worker'[t].at \in WithId => worker'[t].link = l)
  BY DEF Sends, WithId, NoJob
<1> SUFFICES ASSUME NEW n \in LinkIds, n = rx'.link, chan'[n].state = "open", ~slow'
             PROVE  /\ chan'[n].wire # <<>> /\ chan'[n].wire[1].seq > 0 =>
                         Has(chan[n].wire[1].id, chan[n].wire[1].seq, chan[n].wire[1].total)'
                    /\ chan'[n].wire = <<>> => \A u \in Generations :
                         worker'[u].at \in WithId /\ worker'[u].link = n /\ worker'[u].seq > 0 =>
                           Has(worker[u].id, worker[u].seq, Chunks[worker[u].msg])'
  BY DEF Expects, HasId
<1>8. n = rx.link /\ chan[n].state = "open" /\ ~slow
  BY <1>5, <1>7
<1>9. CASE n # l
  <2>1. \A u \in Generations : ~(worker'[u].at \in WithId /\ worker'[u].link = n)
    BY <1>6, <1>7, <1>9 DEF HasId
  <2>2. chan'[n].wire = chan[n].wire
    BY <1>4, <1>9
  <2> QED
    BY <1>7, <1>8, <2>1, <2>2, StillExpects
<1>10. CASE n = l
  <2>1. chan'[n].wire # <<>>
    BY <1>2, <1>10
  <2>2. ASSUME NEW h, h = chan'[n].wire[1], h.seq > 0
        PROVE  Has(h.id, h.seq, h.total)'
    <3>1. CASE len = 0
      <4>1. h = f /\ chan[n].wire = <<>>
        <5>1. len + 1 = 1
          BY <3>1
        <5>2. h = f
          BY <1>2, <1>10, <2>2, <5>1
        <5>3. chan[n].wire \in Seq(Packet) /\ Len(chan[n].wire) = 0
          BY <1>10, <3>1, WireFacts
        <5> QED
          BY <5>2, <5>3
      <4>2. worker[t].seq > 0
        BY <1>1, <2>2, <4>1
      <4>3. Has(worker[t].id, worker[t].seq, Chunks[worker[t].msg])
        <5>1. n = rx.link /\ chan[n].state = "open" /\ ~slow /\ chan[n].wire = <<>> /\ worker[t].link = n
          BY <1>8, <1>10, <4>1
        <5> QED
          BY <1>1, <4>2, <5>1 DEF Expects
      <4>4. Has(h.id, h.seq, h.total)
        <5>1. h.id = worker[t].id /\ h.seq = worker[t].seq /\ h.total = Chunks[worker[t].msg]
          BY <1>1, <4>1
        <5> QED
          BY <4>3, <5>1 DEF Has
      <4> QED
        BY <1>7, <4>4 DEF Has
    <3>2. CASE len # 0
      <4>1. h = chan[n].wire[1] /\ chan[n].wire # <<>>
        BY <1>2, <1>3, <1>10, <2>2, <3>2, SMTT(30)
      <4>2. Has(h.id, h.seq, h.total)
        BY <1>8, <2>2, <4>1 DEF Expects
      <4> QED
        BY <1>7, <4>2 DEF Has
    <3> QED
      BY <3>1, <3>2
  <2> QED
    BY <2>1, <2>2
<1> QED
  BY <1>9, <1>10

\* The chunks of a message are all there when its last frame arrives.
LEMMA DeliverHas ==
  ASSUME Base, Frames, Reassembly, Expects, NEW n \in LinkIds, Deliver(n),
         n = rx.link, chan[n].state = "open", ~slow, NEW f, f = chan[n].wire[1]
  PROVE  /\ Final(f) => received' = received \o <<f.msg>>
         /\ ~Final(f) => Has(f.id, f.seq + 1, f.total)'
<1>1. f = Head(chan[n].wire) /\ f \in Packet /\ f \in OnWire(n) /\ chan[n].wire # <<>>
  BY DeliverWire, DeliverLink
<1>2. f.seq \in Nat /\ f.total \in Nat /\ f.seq < f.total
  BY <1>1, WireFacts DEF Frames
<1>3. \A i \in DOMAIN rx.inflight : IsEntry(rx.inflight[i])
  BY DEF Base, Typed, RxTyped
<1> PICK e : e = Entry(Prune(rx.inflight), f)
  OBVIOUS
<1> PICK p : p = Push(rx.inflight, f)
  OBVIOUS
<1> PICK J : J = rx'.inflight
  OBVIOUS
<1>4. J = p.inflight /\ received' = received \o p.out
  BY <1>1, <1>2, DeliverRx DEF ParseFrame
<1>5. /\ e.total = f.total /\ ~e.old
      /\ Joins(rx.inflight, f) => DOMAIN e.chunks = DOMAIN rx.inflight[f.id].chunks \cup {f.seq}
      /\ ~Joins(rx.inflight, f) => DOMAIN e.chunks = {f.seq}
  BY <1>1, <1>3, EntryEffect, SMTT(30)
<1>6. /\ Complete(e) => p.out = <<Assembled(e)>>
      /\ ~Complete(e) => f.id \in DOMAIN p.inflight /\ p.inflight[f.id] = e
  BY <1>1, <1>3, PushEffect
<1>7. Complete(e) => Assembled(e) = f.msg
  BY ArrivalEntry
<1>8. DOMAIN e.chunks = 0 .. f.seq
  <2>1. CASE f.seq > 0
    <3>1. Has(f.id, f.seq, f.total)
      BY <1>1, <2>1 DEF Expects
    <3>2. Joins(rx.inflight, f) /\ DOMAIN rx.inflight[f.id].chunks = 0 .. f.seq - 1
      BY <3>1 DEF Has, Joins
    <3>3. DOMAIN e.chunks = (0 .. f.seq - 1) \cup {f.seq}
      BY Zenon, <1>5, <3>2
    <3> QED
      BY <1>2, <3>3
  <2>2. CASE f.seq = 0 /\ Joins(rx.inflight, f)
    <3> PICK c : c = rx.inflight[f.id].chunks
      OBVIOUS
    <3>1. f.id \in DOMAIN rx.inflight /\ ~rx.inflight[f.id].old
      BY <2>2 DEF Joins
    <3>6. EntryFits(n, f.id)
      BY <3>1 DEF Reassembly
    <3>2. \A s \in DOMAIN c : s < f.seq
      BY Zenon, <1>1, <3>6 DEF EntryFits
    <3>3. DOMAIN c \subseteq Nat
      BY Zenon, <1>3, <3>1 DEF IsEntry
    <3>4. DOMAIN c = {}
      <4> SUFFICES ASSUME NEW s \in DOMAIN c PROVE FALSE
        OBVIOUS
      <4>1. s < 0 /\ s \in Nat
        BY Zenon, <2>2, <3>2, <3>3
      <4> QED
        BY <4>1
    <3>5. DOMAIN e.chunks = {f.seq}
      BY Zenon, <1>5, <2>2, <3>4
    <3> QED
      BY <2>2, <3>5
  <2>3. CASE f.seq = 0 /\ ~Joins(rx.inflight, f)
    <3>1. DOMAIN e.chunks = {f.seq}
      BY Zenon, <1>5, <2>3
    <3> QED
      BY <2>3, <3>1
  <2> QED
    BY <1>2, <2>1, <2>2, <2>3
<1>9. ASSUME Final(f) PROVE received' = received \o <<f.msg>>
  <2>1. f.seq = f.total - 1
    BY <1>2, <1>9 DEF Final
  <2>2. Complete(e)
    BY Zenon, <1>5, <1>8, <2>1 DEF Complete
  <2> QED
    BY Zenon, <1>4, <1>6, <1>7, <2>2
<1>10. ASSUME ~Final(f) PROVE Has(f.id, f.seq + 1, f.total)'
  <2>1. f.seq + 1 # f.total
    BY <1>10 DEF Final
  <2>2. ~Complete(e)
    <3> SUFFICES ASSUME 0 .. f.seq = 0 .. f.total - 1 PROVE FALSE
      BY <1>5, <1>8 DEF Complete
    <3>1. f.total - 1 \in 0 .. f.seq
      BY <1>2
    <3> QED
      BY <1>2, <2>1, <3>1
  <2>3. f.id \in DOMAIN J /\ J[f.id] = e
    BY Zenon, <1>4, <1>6, <2>2
  <2>4. (f.seq + 1) - 1 = f.seq
    BY <1>2
  <2>5. 0 .. (f.seq + 1) - 1 = DOMAIN e.chunks
    BY ONLY <1>8, <2>4
  <2> PICK i : i = f.id
    OBVIOUS
  <2> PICK s : s = f.seq + 1
    OBVIOUS
  <2>6. i \in DOMAIN rx'.inflight /\ rx'.inflight[i] = e
    BY <2>3
  <2>7. Has(i, s, f.total)'
    BY Zenon, <1>5, <2>5, <2>6 DEF Has
  <2> QED
    BY <2>7
<1> QED
  BY <1>9, <1>10

\* The receiver has what it should when a frame arrives.
LEMMA DeliverExpects ==
  ASSUME Base, Base', Frames, IdsApart, Reassembly, Ordered, Gapless, Expects, NEW m \in LinkIds, Deliver(m)
  PROVE  Expects'
<1>1. worker' = worker /\ slow' = slow
  BY DEF Deliver, Unsent
<1>2. rx'.link = rx.link /\ (rx.link # m => rx' = rx)
  BY DeliverRx
<1>3. \A k \in LinkIds : k # m => chan'[k] = chan[k]
  BY DeliverLink
<1>4. chan'[m].state = chan[m].state
  BY DeliverLink
<1> SUFFICES ASSUME NEW n \in LinkIds, n = rx'.link, chan'[n].state = "open", ~slow'
             PROVE  /\ chan'[n].wire # <<>> /\ chan'[n].wire[1].seq > 0 =>
                         Has(chan[n].wire[1].id, chan[n].wire[1].seq, chan[n].wire[1].total)'
                    /\ chan'[n].wire = <<>> => \A t \in Generations :
                         worker'[t].at \in WithId /\ worker'[t].link = n /\ worker'[t].seq > 0 =>
                           Has(worker[t].id, worker[t].seq, Chunks[worker[t].msg])'
  BY DEF Expects, HasId
<1>5. n = rx.link /\ chan[n].state = "open" /\ ~slow
  BY <1>1, <1>2, <1>3, <1>4
<1>6. CASE n # m
  <2>1. rx' = rx /\ chan'[n].wire = chan[n].wire
    BY <1>2, <1>3, <1>5, <1>6
  <2> QED
    BY <1>1, <1>5, <2>1, StillExpects DEF HasId
<1>7. CASE n = m
  <2> PICK f : f = chan[n].wire[1]
    OBVIOUS
  <2> PICK a : a = Len(chan'[n].wire)
    OBVIOUS
  <2> PICK b : b = Len(chan[n].wire)
    OBVIOUS
  <2>1. /\ f \in Packet /\ f \in OnWire(n) /\ a \in Nat /\ b \in Nat /\ a + 1 = b
        /\ \A k \in 1 .. a : k + 1 \in 1 .. b /\ chan'[n].wire[k] = chan[n].wire[k + 1]
    BY <1>7, DeliverWire
  <2>2. ~Final(f) => Has(f.id, f.seq + 1, f.total)'
    BY <1>5, <1>7, DeliverHas
  <2>3. f.seq \in Nat /\ f.msg \in 1 .. Messages /\ f.total = Chunks[f.msg]
    BY <2>1, WireFacts DEF Frames
  <2>4. chan' \in [LinkIds -> LinkState]
    BY DEF Base, Typed, LinksTyped
  <2>5. chan'[n].wire \in Seq(Packet)
    BY <2>4 DEF LinkState
  <2>6. ASSUME chan'[n].wire # <<>>, NEW h, h = chan'[n].wire[1], h.seq > 0
        PROVE  Has(h.id, h.seq, h.total)'
    <3>1. a # 0
      BY <2>5, <2>6
    <3>2. 1 \in 1 .. a /\ 1 \in 1 .. b - 1 /\ 1 + 1 \in 1 .. b
      BY ONLY <2>1, <3>1
    <3>3. h = chan[n].wire[1 + 1]
      BY <2>1, <2>6, <3>2
    <3>4. Continues(f, h) /\ h \in OnWire(n)
      BY <3>2, <3>3 DEF Gapless, OnWire
    <3>5. ~Final(f) /\ h.id = f.id /\ h.msg = f.msg /\ h.seq = f.seq + 1
      BY <2>6, <3>4 DEF Continues
    <3>6. h.total = f.total
      BY <2>3, <3>4, <3>5 DEF Frames
    <3>7. Has(f.id, f.seq + 1, f.total)'
      BY <2>2, <3>5
    <3> QED
      BY <3>5, <3>6, <3>7 DEF Has
  <2>7. ASSUME chan'[n].wire = <<>>, NEW t \in Generations, NEW w, w = worker[t],
               w.at \in WithId, w.link = n, w.seq > 0
        PROVE  Has(w.id, w.seq, Chunks[w.msg])'
    <3>1. a = 0
      BY <2>7
    <3>2. b = 1 /\ chan[n].wire # <<>>
      BY <2>1, <3>1
    <3>3. w.id = f.id /\ w.msg = f.msg /\ w.seq = f.seq + 1
      <4> PICK z : z = chan[n].wire
        OBVIOUS
      <4>1. z # <<>> /\ z[Len(z)] = f
        BY <3>2
      <4>2. z[Len(z)].id = w.id /\ z[Len(z)].msg = w.msg /\ z[Len(z)].seq + 1 = w.seq
        BY <2>7, <4>1 DEF Gapless, HasId
      <4> QED
        BY <4>1, <4>2
    <3>4. w.seq < Chunks[w.msg]
      BY <2>7 DEF IdsApart, HasId
    <3>5. ~Final(f)
      BY <2>3, <3>3, <3>4, Constants DEF Final
    <3>6. Has(f.id, f.seq + 1, f.total)'
      BY <2>2, <3>5
    <3> QED
      BY <2>3, <3>3, <3>6 DEF Has
  <2>8. ASSUME chan'[n].wire = <<>>, NEW t \in Generations,
               worker'[t].at \in WithId, worker'[t].link = n, worker'[t].seq > 0
        PROVE  Has(worker[t].id, worker[t].seq, Chunks[worker[t].msg])'
    BY <1>1, <2>7, <2>8
  <2> QED
    BY <2>6, <2>8
<1> QED
  BY <1>6, <1>7

\* Each kind of step keeps Expects.
LEMMA ExpectsStep ==
  ASSUME Base, Base', Frames, IdsApart, Reassembly, Ordered, Gapless, Expects, Kinds
  PROVE  Expects'
<1>1. Dawdle => slow'
  BY DEF Dawdle
<1>2. CASE Dawdle
  BY <1>1, <1>2 DEF Expects
<1> QED
  BY <1>2, RestsExpects, QueueingExpects, TakesIdExpects, SendsExpects, DeliverExpects DEF Kinds

\* What is on its way of the messages of link n that were sent whole.
Coming(n) ==
  \A m \in chan[n].done :
    \/ \E i \in 1 .. Len(received) : received[i] = m
    \/ \E f \in OnWire(n) : f.msg = m /\ Final(f)

\* What was sent whole still arrives where nothing is sent.
LEMMA RestsArrives ==
  ASSUME Base, Base', Arrives, Rests
  PROVE  Arrives'
<1>1. \A n \in LinkIds : /\ chan'[n].done = chan[n].done
                         /\ chan'[n].state = "connecting" => chan[n].state = "connecting"
  BY DEF Rests, LinkRests
<1>2. \A n \in LinkIds : chan'[n].state = "open" =>
        \/ chan[n].state = "open" /\ chan'[n].wire = chan[n].wire
        \/ chan[n].state = "connecting"
  BY DEF Rests, LinkRests
<1>3. received' = received /\ slow' = slow
  BY DEF Rests
<1>4. ASSUME NEW n \in LinkIds, n = rx'.link, chan'[n].state = "open", ~slow'
      PROVE  Coming(n)'
  <2>1. CASE chan[n].state = "connecting"
    BY <1>1, <2>1 DEF Arrives, Coming
  <2>2. CASE chan[n].state = "open" /\ chan'[n].wire = chan[n].wire
    <3>1. rx' = rx
      BY <1>4, <2>2 DEF Rests
    <3>2. Coming(n)
      BY <1>3, <1>4, <2>2, <3>1 DEF Arrives, Coming
    <3> QED
      BY <1>1, <1>3, <2>2, <3>2 DEF Coming, OnWire
  <2> QED
    BY <1>2, <1>4, <2>1, <2>2
<1> QED
  BY <1>1, <1>4 DEF Arrives, Coming

\* What was sent whole still arrives when a message is queued or taken, or an id.
LEMMA QueueingArrives ==
  ASSUME Base, Base', Arrives,
         \/ \E g \in Generations : Calls(g)
         \/ \E t \in Generations, g \in Generations : Takes(t, g)
         \/ \E t \in Generations : TakesId(t)
  PROVE  Arrives'
<1>1. received' = received /\ slow' = slow
  BY DEF Calls, Takes, TakesId
<1>2. rx'.link = rx.link
  <2>1. CASE (\E g \in Generations : Calls(g)) \/ \E t \in Generations, g \in Generations : Takes(t, g)
    BY <2>1 DEF Calls, Takes
  <2>2. ASSUME NEW t \in Generations, TakesId(t) PROVE rx'.link = rx.link
    <3> PICK l : l = worker[t].link
      OBVIOUS
    <3> PICK ids : ids = {chan[l].nextId}
      OBVIOUS
    <3> PICK r : r = rx'
      OBVIOUS
    <3>1. (r = Aged(rx, ids) \/ r = rx) /\ RxTyped
      BY <2>2 DEF TakesId, TakeMsgId, Base, Typed
    <3> QED
      BY <3>1, AgedTyped
  <2> QED
    BY <2>1, <2>2
<1>3. \A n \in LinkIds : chan'[n].wire = chan[n].wire /\ chan'[n].state = chan[n].state /\ chan'[n].done = chan[n].done
  <2>1. CASE (\E g \in Generations : Calls(g)) \/ \E t \in Generations, g \in Generations : Takes(t, g)
    BY <2>1 DEF Calls, Takes
  <2>2. CASE \E t \in Generations : TakesId(t)
    BY <2>2, TakesIdLinks
  <2> QED
    BY <2>1, <2>2
<1> QED
  BY <1>1, <1>2, <1>3 DEF Arrives, OnWire

\* What was sent whole still arrives when a frame is sent.
LEMMA SendsArrives ==
  ASSUME Base, Base', Arrives, NEW t \in Generations, Sends(t)
  PROVE  Arrives'
<1> PICK v : v = worker[t]
  OBVIOUS
<1> PICK l : l = worker[t].link
  OBVIOUS
<1> PICK f : f = MakeFrame(worker[t].id, worker[t].seq, worker[t].msg)
  OBVIOUS
<1>1. /\ l \in LinkIds /\ OnWire(l)' = OnWire(l) \cup {f}
      /\ f.id = v.id /\ f.seq = v.seq /\ f.msg = v.msg /\ f.total = Chunks[v.msg]
  BY SendsLinks
<1>2. \A k \in LinkIds : k # l => chan'[k] = chan[k] /\ OnWire(k)' = OnWire(k)
  BY SendsLinks
<1>3. \A k \in LinkIds : chan'[k].state = chan[k].state
  BY SendsLinks
<1>4. rx' = rx /\ slow' = slow /\ received' = received /\ chan[l].state = "open"
  BY DEF Sends
<1>5. \/ chan'[l].done = chan[l].done
      \/ chan'[l].done = chan[l].done \cup {v.msg} /\ Final(f)
  <2>1. chan'[l].done = IF LastChunk(v) THEN chan[l].done \cup {v.msg} ELSE chan[l].done
    BY Zenon, SentLink DEF Sends
  <2>2. LastChunk(v) => Final(f)
    BY <1>1 DEF LastChunk, ChunkCount, Final
  <2> QED
    BY <2>1, <2>2
<1>6. ASSUME NEW n \in LinkIds, n = rx'.link, chan'[n].state = "open", ~slow'
      PROVE  Coming(n)'
  <2>1. Coming(n)
    BY <1>3, <1>4, <1>6 DEF Arrives, Coming
  <2>2. CASE n # l
    BY <1>2, <1>4, <2>1, <2>2 DEF Coming
  <2>3. CASE n = l
    <3>1. \A m \in chan'[n].done : m \in chan[n].done \/ (m = f.msg /\ Final(f))
      BY <1>1, <1>5, <2>3
    <3> QED
      BY <1>1, <1>4, <2>1, <2>3, <3>1 DEF Coming
  <2> QED
    BY <2>2, <2>3
<1>7. \A n \in LinkIds : chan'[n].state = "connecting" => chan'[n].done = {}
  BY <1>2, <1>3, <1>4 DEF Arrives
<1> QED
  BY <1>6, <1>7 DEF Arrives, Coming

\* What was sent whole still arrives when a frame arrives.
LEMMA DeliverArrives ==
  ASSUME Base, Base', Frames, Reassembly, Ordered, Expects, Arrives, NEW k \in LinkIds, Deliver(k)
  PROVE  Arrives'
<1> PICK f : f = chan[k].wire[1]
  OBVIOUS
<1>1. /\ rx'.link = rx.link /\ f \in Packet
      /\ received' = received \/ (received' = received \o <<f.msg>> /\ rx.link = k)
  BY Arrival
<1>2. \A n \in LinkIds : n # k => chan'[n] = chan[n]
  BY DeliverLink
<1>3. chan'[k].state = chan[k].state /\ chan'[k].done = chan[k].done
  BY DeliverLink
<1>4. slow' = slow
  BY DEF Deliver
<1>5. \A i \in 1 .. Len(received) : i \in 1 .. Len(received') /\ received'[i] = received[i]
  <2>1. received' = received \/ (received' = received \o <<f.msg>> /\ f.msg \in 1 .. Messages)
    BY <1>1, WireFacts
  <2> QED
    BY <2>1, LastIs DEF Ordered
<1>6. ASSUME NEW n \in LinkIds, n = rx'.link, chan'[n].state = "open", ~slow'
      PROVE  Coming(n)'
  <2>1. n = rx.link /\ chan[n].state = "open" /\ ~slow
    BY <1>1, <1>2, <1>3, <1>4, <1>6
  <2>2. Coming(n)
    BY <2>1 DEF Arrives, Coming
  <2>3. CASE n # k
    <3>1. OnWire(n)' = OnWire(n) /\ chan'[n].done = chan[n].done
      BY <1>2, <2>3 DEF OnWire
    <3> QED
      BY <1>5, <2>2, <3>1 DEF Coming
  <2>4. CASE n = k
    <3>1. ASSUME NEW h \in OnWire(n), h # f PROVE h \in OnWire(n)'
      <4> PICK a : a = Len(chan'[n].wire)
        OBVIOUS
      <4> PICK b : b = Len(chan[n].wire)
        OBVIOUS
      <4>1. /\ a \in Nat /\ b \in Nat /\ a + 1 = b
            /\ \A j \in 1 .. a : chan'[n].wire[j] = chan[n].wire[j + 1]
        BY <2>4, DeliverWire
      <4> PICK j \in 1 .. b : h = chan[n].wire[j]
        BY DEF OnWire
      <4>2. j # 1
        BY <2>4, <3>1
      <4>3. j - 1 \in 1 .. a /\ (j - 1) + 1 = j
        BY ONLY <4>1, <4>2, j \in 1 .. b
      <4> PICK i : i = j - 1
        OBVIOUS
      <4>4. i \in 1 .. a /\ chan'[n].wire[i] = h
        BY <4>1, <4>3
      <4> QED
        BY <4>4 DEF OnWire
    <3>2. Final(f) => \E i \in 1 .. Len(received') : received'[i] = f.msg
      <4> SUFFICES ASSUME Final(f) PROVE \E i \in 1 .. Len(received') : received'[i] = f.msg
        OBVIOUS
      <4>1. received' = received \o <<f.msg>>
        BY <2>1, <2>4, DeliverHas
      <4>2. Len(received') = Len(received) + 1 /\ Len(received) \in Nat /\ received'[Len(received) + 1] = f.msg
        <5>1. f.msg \in 1 .. Messages
          BY <1>1, WireFacts
        <5> QED
          BY <4>1, <5>1, LastIs DEF Ordered
      <4>3. Len(received) + 1 \in 1 .. Len(received')
        BY <4>2
      <4> QED
        BY <4>2, <4>3
    <3>3. chan'[n].done = chan[n].done
      BY <1>3, <2>4
    <3>4. ASSUME NEW m \in chan[n].done
          PROVE  \/ \E i \in 1 .. Len(received') : received'[i] = m
                 \/ \E h \in OnWire(n)' : h.msg = m /\ Final(h)
      <4>1. CASE \E i \in 1 .. Len(received) : received[i] = m
        BY <1>5, <4>1
      <4>2. CASE \E h \in OnWire(n) : h.msg = m /\ Final(h)
        BY <3>1, <3>2, <4>2
      <4> QED
        BY <2>2, <4>1, <4>2 DEF Coming
    <3> QED
      BY <3>3, <3>4 DEF Coming
  <2> QED
    BY <2>3, <2>4
<1>7. \A n \in LinkIds : chan'[n].state = "connecting" => chan'[n].done = {}
  BY <1>2, <1>3 DEF Arrives
<1> QED
  BY <1>6, <1>7 DEF Arrives, Coming

\* Each kind of step keeps Arrives.
LEMMA ArrivesStep ==
  ASSUME Base, Base', Frames, Reassembly, Ordered, Expects, Arrives, Kinds
  PROVE  Arrives'
<1>1. CASE Dawdle
  <2>1. slow' /\ chan' = chan
    BY <1>1 DEF Dawdle
  <2> QED
    BY <2>1 DEF Arrives
<1> QED
  BY <1>1, RestsArrives, QueueingArrives, SendsArrives, DeliverArrives DEF Kinds

\* What NoSilentLoss rests on.
LossInv == Gapless /\ Expects /\ Arrives

\* It holds at first.
LEMMA LossInit == Init => LossInv
<1> SUFFICES ASSUME Init PROVE LossInv
  OBVIOUS
<1>1. /\ \A t \in Generations : worker[t].at = "ended"
      /\ \A n \in LinkIds : chan[n].wire = <<>> /\ chan[n].state = "connecting" /\ chan[n].done = {}
  BY DEF Init, Ended, At, NewChannel
<1>2. \A t \in Generations : ~HasId(t)
  BY <1>1 DEF HasId, WithId
<1>3. \A n \in LinkIds : ~\E k \in 1 .. Len(chan[n].wire) - 1 : TRUE
  <2>1. \A n \in LinkIds : Len(chan[n].wire) = 0
    BY <1>1
  <2> QED
    BY <2>1
<1> QED
  BY <1>1, <1>2, <1>3 DEF LossInv, Gapless, Expects, Arrives

\* Each step keeps it.
LEMMA LossStep == IInv /\ LossInv /\ [Next]_vars => LossInv'
<1> SUFFICES ASSUME IInv, LossInv, [Next]_vars PROVE LossInv'
  OBVIOUS
<1>1. IInv' /\ Kinds
  BY InvStep
<1>2. Base /\ Base' /\ Frames /\ IdsApart /\ Reassembly /\ Ordered
  BY <1>1 DEF IInv, Flow
<1>3. Gapless /\ Expects /\ Arrives
  BY DEF LossInv
<1>4. Gapless'
  BY <1>1, <1>2, <1>3, GaplessStep
<1>5. Expects'
  BY <1>1, <1>2, <1>3, ExpectsStep
<1>6. Arrives'
  BY <1>1, <1>2, <1>3, ArrivesStep
<1> QED
  BY <1>4, <1>5, <1>6 DEF LossInv

\* NoSilentLoss of the runs: what went out whole on a link that is still open and
\* empty, and was not held up, was received.
THEOREM NothingLost == Spec => []NoSilentLoss
<1>1. IInv /\ LossInv => NoSilentLoss
  <2> SUFFICES ASSUME IInv, LossInv, NEW n \in LinkIds,
                      chan[n].state = "open", rx.link = n, chan[n].wire = <<>>, ~slow,
                      NEW m \in chan[n].done
               PROVE  \E i \in DOMAIN received : received[i] = m
    BY DEF NoSilentLoss
  <2>1. OnWire(n) = {}
    BY DEF OnWire
  <2>2. \E i \in 1 .. Len(received) : received[i] = m
    BY <2>1 DEF LossInv, Arrives
  <2>3. DOMAIN received = 1 .. Len(received)
    BY DEF IInv, Flow, Ordered
  <2> QED
    BY <2>2, <2>3
<1>2. IInv /\ LossInv /\ [Next]_vars => LossInv'
  BY LossStep
<1> QED
  BY <1>1, <1>2, LossInit, InvHolds, PTL DEF Spec, Safe

\* The types of Mailbox.
MailTyped ==
  /\ outcome \in [1 .. Messages -> {"none", "ok", "failed"}]
  /\ received \in Seq(1 .. Messages)

\* Each message is received once at most, and in the order of the calls.
InOrder ==
  \A i, j \in 1 .. Len(received) : i < j => received[i] < received[j]

\* A call that fails failed: its message was not received before, nor is after.
FailedStayOut == \A i \in 1 .. Len(received) : outcome[received[i]] # "failed"

\* What the steps of Mailbox keep.
MailInv == MailTyped /\ InOrder /\ FailedStayOut

\* A message that is received is after the others and has not failed.
LEMMA ReceiveKeeps ==
  ASSUME MailInv, NEW m \in 1 .. Messages, Mail!Receive(m), outcome' = outcome
  PROVE  MailInv'
<1> DEFINE n == Len(received)
<1>1. /\ received \in Seq(1 .. Messages) /\ n \in Nat
      /\ received' = Append(received, m)
  BY DEF MailInv, MailTyped, Mail!Receive
<1>2. /\ received' \in Seq(1 .. Messages) /\ Len(received') = n + 1
      /\ \A i \in 1 .. n : received'[i] = received[i]
      /\ received'[n + 1] = m
  BY <1>1
<1>3. Messages \in Nat /\ \A i \in 1 .. n : received[i] \in 1 .. Messages
  BY <1>1, Constants
<1>4. \A i \in 1 .. n : received[i] < m
  <2>1. CASE n = 0
    BY <2>1
  <2>2. CASE n # 0
    <3>1. received[n] < m
      BY <1>1, <1>3, <2>2 DEF Mail!Receive, Mail!Last
    <3>2. ASSUME NEW i \in 1 .. n  PROVE received[i] < m
      <4>1. i = n \/ received[i] < received[n]
        BY <1>1, <2>2 DEF MailInv, InOrder
      <4> QED
        BY <1>1, <1>3, <2>2, <3>1, <4>1
    <3> QED
      BY <3>2
  <2> QED
    BY <2>1, <2>2
<1>0. n \in Nat
  BY <1>1
<1> HIDE DEF n
<1> DEFINE Covers(i) == i = n + 1 \/ i \in 1 .. n
<1>7. \A i \in 1 .. n + 1 : Covers(i)
  BY <1>0
<1>5. InOrder'
  <2> SUFFICES ASSUME NEW i \in 1 .. n + 1, NEW j \in 1 .. n + 1, i < j
               PROVE  received'[i] < received'[j]
    BY <1>2 DEF InOrder
  <2>1. i \in 1 .. n
    BY <1>1
  <2>2. CASE j = n + 1
    BY <1>2, <1>4, <2>1, <2>2
  <2>3. CASE j \in 1 .. n
    BY <1>2, <2>1, <2>3 DEF MailInv, InOrder, n
  <2> QED
    BY <1>7, <2>2, <2>3
<1>6. FailedStayOut'
  <2> SUFFICES ASSUME NEW i \in 1 .. n + 1
               PROVE  outcome[received'[i]] # "failed"
    BY <1>2 DEF FailedStayOut
  <2>1. CASE i = n + 1
    BY <1>2, <2>1 DEF Mail!Receive
  <2>2. CASE i \in 1 .. n
    BY <1>2, <2>2 DEF MailInv, FailedStayOut, n
  <2> QED
    BY <1>7, <2>1, <2>2
<1> QED
  BY <1>2, <1>5, <1>6 DEF MailInv, MailTyped

\* A call that returns has failed only if its message was not received.
LEMMA ReturnKeeps ==
  ASSUME MailInv, Mail!Return, received' = received
  PROVE  MailInv'
<1>1. ASSUME NEW i \in 1 .. Len(received)
      PROVE  outcome'[received[i]] # "failed"
  <2>1. received[i] \in 1 .. Messages /\ outcome[received[i]] # "failed"
    BY Constants DEF MailInv, MailTyped, FailedStayOut
  <2> QED
    BY <2>1 DEF Mail!Return
<1>2. MailTyped' /\ InOrder'
  BY DEF MailInv, MailTyped, InOrder, Mail!Return
<1> QED
  BY <1>1, <1>2 DEF MailInv, FailedStayOut

\* However calls return and messages arrive, what was received is in order and
\* without repetition, and holds no message whose send failed.
LEMMA MailboxInOrder == KeepsOrder => [](InOrder /\ FailedStayOut)
<1>1. Mail!Init => MailInv
  <2>1. <<>> \in Seq(1 .. Messages)
    OBVIOUS
  <2> QED
    BY <2>1 DEF Mail!Init, MailInv, MailTyped, InOrder, FailedStayOut
<1>2. MailInv /\ [Mail!Next]_<<outcome, received>> => MailInv'
  <2>1. ASSUME MailInv, UNCHANGED <<outcome, received>> PROVE MailInv'
    BY <2>1 DEF MailInv, MailTyped, InOrder, FailedStayOut
  <2> QED
    BY <2>1, ReceiveKeeps, ReturnKeeps DEF Mail!Next
<1>3. MailInv => InOrder /\ FailedStayOut
  BY DEF MailInv
<1> QED
  BY <1>1, <1>2, <1>3, PTL DEF KeepsOrder, Mail!Spec

\* Each message is received once at most and in the order of the calls, and none
\* whose send has failed: through both backends, every link and every failure.
THEOREM OnceInOrder == Spec => [](InOrder /\ FailedStayOut)
BY MailboxImplemented, MailboxInOrder, PTL
=============================================================================
