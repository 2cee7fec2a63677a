------------------------------ MODULE Channel ------------------------------
(***************************************************************************)
(* The reliable channel from one player to another (clients/rust): the     *)
(* links and their data channels as a sender finds them, the framing and   *)
(* reassembly of core/, and the receiver.  NativeSender and WasmSender are *)
(* the senders of the two backends.                                        *)
(*                                                                         *)
(* Message m is cut into Chunks[m] frames.  Bytes are counted in frames.   *)
(***************************************************************************)
EXTENDS Naturals, Sequences, FiniteSets

CONSTANTS
  Chunks,      \* the number of frames of each message
  HighWater,   \* a sender pauses above this much buffered ...
  LowWater,    \* ... until no more than this is
  IdSpace,     \* message ids wrap at this
  MaxLinks     \* bound: links to the receiver made in all

Messages == Len(Chunks)

\* Ids are reused only when the frames of their last use have long arrived.
ASSUME ChannelConstants ==
  /\ Chunks \in Seq(Nat \ {0})
  /\ HighWater \in Nat /\ LowWater \in 0 .. HighWater
  /\ IdSpace \in Nat /\ IdSpace > HighWater + 1
  /\ MaxLinks \in Nat

VARIABLES
  backend,    \* of the sender
  game,       \* "on", "over" once the session has ended, "closed" by the player
  link,       \* the current link, 0 if none
  made,       \* how many links there have been
  chan,       \* the links and their channels
  calls,      \* how many messages have been given to send_reliable
  outcome,    \* what each call returned
  queue,      \* the messages waiting, per generation of the send queue
  current,    \* the generation of the send queue in use, 0 if none
  running,    \* a queue has been given to a worker that still serves it
  worker,     \* the tasks that send
  rx,         \* the receiver's end: its link and its reassembler
  received,   \* the messages it was given
  slow        \* a message has taken longer than the reassembly timeout

vars == <<backend, game, link, made, chan, calls, outcome, queue, current,
          running, worker, rx, received, slow>>

LinkIds == 1 .. MaxLinks
Generations == {1, 2}   \* there is a new queue after the session has ended

\* A link: its own flag, its channel, the frames in it, the next message id,
\* whether its connection is cut, and whether a notification of its state is on
\* its way to those who wait.  `done` records the messages handed to it whole.
NewChannel ==
  [closed |-> FALSE, state |-> "connecting", wire |-> <<>>, nextId |-> 0,
   cut |-> FALSE, ring |-> FALSE, done |-> {}]

\* A worker: where it is, its queue, its message, its link, the message's id
\* and the next chunk.
At(at, g) == [at |-> at, gen |-> g, msg |-> 0, link |-> 0, id |-> 0, seq |-> 0]
Ended == At("ended", 0)

Receiver(n) == [link |-> n, inflight |-> [i \in {} |-> 0]]

Init ==
  /\ backend \in {"native", "wasm"}
  /\ game = "on" /\ link = 0 /\ made = 0
  /\ chan = [n \in LinkIds |-> NewChannel]
  /\ calls = 0 /\ outcome = [m \in 1 .. Messages |-> "none"]
  /\ queue = [g \in Generations |-> <<>>]
  /\ current = 0 /\ running = [g \in Generations |-> FALSE]
  /\ worker = [t \in Generations |-> Ended]
  /\ rx = Receiver(0) /\ received = <<>> /\ slow = FALSE

----------------------------------------------------------------------------
(* Framing and reassembly *)

ChunkCount(m) == Chunks[m]

MakeFrame(id, seq, m) == [id |-> id, seq |-> seq, total |-> ChunkCount(m), msg |-> m]

\* parse_frame of what make_frame wrote.
ParseFrame(f) == f.seq < f.total

NewEntry(f) == [total |-> f.total, chunks |-> [s \in {} |-> 0], old |-> FALSE]

\* Mutant: every incomplete message is dropped, not only the old ones.
PruneAll(inflight) == [i \in {} |-> 0]

Prune(inflight) ==
  [i \in {j \in DOMAIN inflight : ~inflight[j].old} |-> inflight[i]]

\* The entry frame f goes to, with f in it unless that chunk is there already.
Entry(inflight, f) ==
  LET e == IF f.id \in DOMAIN inflight /\ inflight[f.id].total = f.total
             THEN inflight[f.id] ELSE NewEntry(f) IN
  IF f.seq \in DOMAIN e.chunks THEN e
  ELSE [e EXCEPT !.chunks = [s \in DOMAIN @ \cup {f.seq} |->
                               IF s = f.seq THEN f.msg ELSE @[s]]]

Complete(e) == DOMAIN e.chunks = 0 .. e.total - 1

\* The message a complete entry amounts to: 0 when its chunks are of several.
Assembled(e) ==
  IF \A s \in DOMAIN e.chunks : e.chunks[s] = e.chunks[0] THEN e.chunks[0] ELSE 0

\* Reassembler::push: the entries left, and what is handed on.
Push(inflight, f) ==
  LET kept == Prune(inflight)
      e == Entry(kept, f)
      rest == {i \in DOMAIN kept : i # f.id} IN
  IF Complete(e)
    THEN [inflight |-> [i \in rest |-> kept[i]], out |-> <<Assembled(e)>>]
    ELSE [inflight |-> [i \in rest \cup {f.id} |-> IF i = f.id THEN e ELSE kept[i]],
          out |-> <<>>]

----------------------------------------------------------------------------
(* The connection and the receiver *)

Unsent == <<game, link, made, calls, outcome, queue, current, running, worker>>

\* Mutant: frames of any link go to the one reassembler.
DeliverAny(n) ==
  /\ chan[n].wire # <<>> /\ chan[n].state = "open" /\ ~chan[n].cut
  /\ LET p == Push(rx.inflight, Head(chan[n].wire)) IN
       /\ rx' = [rx EXCEPT !.inflight = p.inflight]
       /\ received' = received \o p.out
  /\ chan' = [chan EXCEPT ![n].wire = Tail(@)]
  /\ UNCHANGED <<backend, slow, Unsent>>

\* A frame arrives; a receiver drops those of a link it no longer has.  What is
\* left when the channel closes does not.
Deliver(n) ==
  /\ chan[n].wire # <<>> /\ chan[n].state = "open" /\ ~chan[n].cut
  /\ LET f == Head(chan[n].wire)
         p == Push(rx.inflight, f) IN
     IF rx.link = n /\ ParseFrame(f)
       THEN /\ rx' = [rx EXCEPT !.inflight = p.inflight]
            /\ received' = received \o p.out
       ELSE UNCHANGED <<rx, received>>
  /\ chan' = [chan EXCEPT ![n].wire = Tail(@)]
  /\ UNCHANGED <<backend, slow, Unsent>>

Aged(r, ids) ==
  [r EXCEPT !.inflight = [i \in DOMAIN @ |->
                            IF i \in ids THEN [@[i] EXCEPT !.old = TRUE] ELSE @[i]]]

\* The reassembly timeout passes while a message is arriving.
Dawdle ==
  /\ ~slow /\ DOMAIN rx.inflight # {}
  /\ slow' = TRUE
  /\ rx' = Aged(rx, DOMAIN rx.inflight)
  /\ UNCHANGED <<backend, chan, received, Unsent>>

\* The connection fails.  That alone closes neither the channel nor the link.
Breaks(n) ==
  /\ chan[n].state = "open" /\ ~chan[n].cut
  /\ chan' = [chan EXCEPT ![n].cut = TRUE]
  /\ UNCHANGED <<backend, rx, received, slow, Unsent>>

----------------------------------------------------------------------------
(* What both senders do with a channel *)

\* send_reliable returns at once when the game is closed.
MaySend == game # "closed" /\ calls < Messages

\* Mutant: the next id is not brought back into its range.
TakeWideId(n) ==
  /\ chan' = [chan EXCEPT ![n].nextId = @ + 1]
  /\ UNCHANGED rx

\* The queue a new message goes to, and the queues with it in.
QueueInUse == IF current # 0 THEN current ELSE IF game = "on" THEN 1 ELSE 2
Queued == [queue EXCEPT ![QueueInUse] = Append(@, calls + 1)]

Answered(m, r) == outcome' = [outcome EXCEPT ![m] = r]

\* Message ids are used in turn; coming to one again takes longer than the
\* reassembly timeout.
TakeMsgId(n) ==
  /\ chan' = [chan EXCEPT ![n].nextId = (@ + 1) % IdSpace]
  /\ rx' = IF rx.link = n THEN Aged(rx, {chan[n].nextId}) ELSE rx

\* Chunk w.seq goes out; the call returns after the last one.
LastChunk(w) == w.seq + 1 = ChunkCount(w.msg)
Sent(w) ==
  [chan EXCEPT ![w.link].wire = Append(@, MakeFrame(w.id, w.seq, w.msg)),
               ![w.link].done = IF LastChunk(w) THEN @ \cup {w.msg} ELSE @]

\* bufferedAmount, which the end of the channel does not reset.
Buffered(n) == Len(chan[n].wire)
=============================================================================
