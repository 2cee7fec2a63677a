# Lobbylink: verification of the lobby server and its clients

lobbylink is a signaling server in Go and clients in TypeScript, Rust and Java.
The server keeps *rooms* of numbered *slots*; a client joins a room over a
WebSocket, gets a slot and a *resume token*, learns who else is there, and
exchanges WebRTC offers, answers and candidates with the other players through
the server. From then on players talk to each other over data channels; the
server is needed again when a player disconnects and comes back.

The TLA+ modules here model the parts of that system in which order, concurrency
and failure matter. TLC checks them on small instances; TLAPS proves the main
results for every value of the constants. `PROJECT.json` lists the runs, the
lines of source behind each definition, a mutant for each property, and the
hazards the properties are for.

## The system

| Part | Source | State | Operations | What is hard |
|---|---|---|---|---|
| Lobby | `internal/lobby/lobby.go` | room map; per room: options, started, slots (occupied, transport, token hash, last seen), emptySince | Join, Claim, Signal, Leave, Disconnect, Touch, GC | transports that refuse messages in the middle of an operation; readers that act after they lost their slot; clock readings older than the lock; expiry under live sessions |
| WebSocket transport | `internal/server/ws.go` | bounded outbound queue, done flag; the reader's session | Enqueue, Kick, writeLoop, readLoop, handleWS | two goroutines and the callers under room locks; drain after shutdown; no cancellation of the reader |
| Message validation | `internal/protocol/protocol.go` | none | ParseClientMessage, ResolveCreate | defaults and boundaries |
| HTTP, origins | `internal/server/http.go` | none | routing, origin policy | per-application origins are checked twice |
| Configuration | `internal/config` | none after start | parse, defaults | - |
| TURN | `internal/turn` | none | credentials | - |
| Life cycle | `lobbyserver`, `cmd` | listener, ticker | Run, shutdown | order of shutdown |
| Native client | `clients/rust/src/native` | roster, links with epochs, rebuild counts, send queues | signals, callbacks, sends, close | answers and candidates of an earlier negotiation; late rebuild timers; missed notifications |
| wasm client | `clients/rust/src/wasm` | as the native client | as the native client, as callbacks and spawned tasks on one thread | what another task did during an await |
| Client core | `clients/rust/src/core` | reassembly table, error code sets | frames, parts, roster | wrap of message ids, lost and repeated parts |
| Token store | `native/mod.rs`, `wasm/mod.rs` (`storage`) | one token | load, save, clear | two processes or tabs with one stored token; a connect given up while its answer is on the way |
| TypeScript and Java clients | `clients/ts`, `clients/java` | as the Rust clients | as the Rust clients | - |
| DartRoids, the example game | `examples/asteroids-native`, `examples/asteroids-wasm` | ships, kills, sequence numbers, queues between the game loop and the network loop | frame, send, receive, launch | hits that are counted once; datagrams out of order; players that start over |
| Page, scripts | `web`, `deploy`, `scripts` | - | - | users of the system |

How they interact: readLoop of each connection calls the lobby; the lobby calls
back Enqueue and Kick of any transport of the room, under the room's lock; the
writer goroutine of that transport drains the queue; the client folds what it
receives into its roster and starts or answers negotiations; a ticker calls GC.

What makes each correct:

- **Lobby**: a transport is attached to one slot at most and only by its own
  session; a slot's old owner is always told and shut; emptySince, the start
  flag and the room map are what they claim to be; tokens lead back to their own
  slot; what clients know of the room is what is so; rooms expire neither early
  nor never.
- **Transport**: nothing is sent after the error of a kick; a shut transport is
  closed and its reader returns; Enqueue and Kick never wait.
- **Links**: both ends agree who is there; a description or candidate is applied
  only to the negotiation it belongs to; a link that works is kept; two clients
  that stay end up connected, or the one who offers has given up.
- **Reliable messages**: a message is delivered once, whole and in its channel's
  order, or its call fails; every call returns unless its link dies and is kept.
- **Sessions**: a game that believes to be in its room is attached to its slot; of
  the seats the games of a player took, one at most is neither written off nor still
  being asked for; nothing stays attached for a game that is over; closing one
  session does not spoil another's token.
- **DartRoids**: a hit is counted once; a ship that went silent is dropped; an older
  state never replaces a newer one.

## Modules

### Lobby

`Lobby.tla` models `lobby.go`, with the session that `readLoop` of `ws.go` keeps
for each connection, and the roster that a client folds from its messages.

| Code | Model |
|---|---|
| `Manager.rooms` | `rooms`, from codes to room identities |
| `Room.destroyed`, `started`, `emptySince` | variables of the same names |
| `Room.appID`, `opts`, `createdAt` | `desc`, set at creation |
| `slot.occupied`, `conn`, `lastSeenAt` | variables of the same names, by room and slot |
| `slot.hasToken`, `tokenHash` | `token`, 0 for none; `known` are the tokens that were put in some client's queue |
| `wsClient` | `wire`: `"off"`, `"open"`, or the reason why it is shut |
| `sess` in `readLoop` | `sess` |
| the client's roster and started flag | `view` |
| `time.Now` | `clock`; an operation works with a member of `Times` |

Every operation of the lobby runs under `Room.mu` from its first test to its last
assignment (`Join`, `Claim` and `GC` under `Manager.mu` too, taken before the room's
lock is obtained; `LobbyLocks` shows that this makes them atomic), so each is one
action, with all the sends, losses and kicks it makes: `JoinResume`, `JoinFresh`,
`JoinCreate`, `JoinCreateFails`, `ClaimFree`, `ClaimSilent`, `Touch`, `Signal`, `SignalDropsTarget`, `Leave`, `Disconnect`, `GC`.
`LeaveStale` and `ReaderEnds` are what `readLoop` does for a session that lost its
slot; `Connect` and `WriterFails` are the transport's own steps.

What the model makes of the details:

- *The clock reading.* Every operation reads the clock before it waits for the
  lock, and `broadcastLocked` reads it again under the lock. The first reading is
  any time of the last `MaxLag` ticks, the second is `clock`.
- *Enqueue.* On a shut transport it refuses; on an open one it may succeed, or
  refuse with its queue full. The queue itself, and with it the number of
  messages that fit, is left to `Transport`: a refusal may happen at any moment.
- *Broadcasts.* `Drops` gives the sets of slots that a broadcast with its cascade
  can lose: every shut transport that the message goes to is lost; an open one may
  be; once one is lost everyone attached, the excepted player too, is sent its
  player-left, so all the other shut ones are lost with it. Whoever is attached at
  the end was sent the player-left of every lost slot.
- *Rosters.* `view` is what the client knows once it has read all that was put in
  its queue: the fold, by `handleServerMessage` of the clients, of joined,
  player-joined, -left, -rejoined, -replaced and room-started. A transport that is
  not attached to a slot has none.
- *Tokens* are numbers, so a new one differs from all before it (32 random bytes).
  A client may present any token that was ever sent.
- *Not modelled*: `joinedAt` and `lastActivity`, which are written and never read;
  LastSeenMsAgo in the snapshots; the fields of a destroyed room, which are never
  read since every operation tests `destroyed` first (they go back to their
  initial values); a reused `Room` identity stands for a new object, taken only
  when no map entry and no session refers to it.

`MCLobby.tla` gives TLC its sets of room options and the symmetry of transports,
rooms and codes, which are interchangeable in every definition (not used under
fairness).

### Transport and Conn

`Transport.tla` models one `wsClient` of `ws.go` with the three threads that touch
it: the writer goroutine, the reader, and the lobby's operations under the lock of
the room whose slot holds the transport.

| Code | Model |
|---|---|
| `wsClient.send`, `done` | `queue`, `done` |
| the socket | `socket`: open, broken (by the peer, the network or a failed write), closed by the writer |
| `writeLoop` | `wpc`, and `hand`, the message it is writing: `Take`, `SeeDone`, `Drained`, `Written`, `WriteFails`, `Close` |
| `readLoop` and the rest of `handleWS` | `rpc`, `sess`: `Receive`, `Handle`, `Reply`, `Binary`, `Stop`, `Join`, `JoinReturns`, `Leave`, `ReadFails`, `Disconnect`, `Return` |
| the two selects of `Enqueue`, and `Kick` | `op`: what the lobby is doing to the transport, begun by `Send`, `KickOut` or `Join`: `FindsDone` or `FindsOpen`, then `Accepted` or `FindsFull`, and `KickEnds` |

`Enqueue` reads `done` and then sends, so between the two the writer may drain the
queue and end, or the reader may shut the transport. The reader's own answers take
the same two steps (`Handle`, then `Reply`) and may fall between those of the lobby.
`op` is one operation at a time, since they run under the lock; `Join`, `Leave` and
`Disconnect` wait for it. `Touch` waits for it too but changes nothing here, and
is left out. `told` records whether the error of a lobby's kick was written.

`Conn.tla` is the abstract specification: what the interface `lobby.Conn` promises,
with one step for each whole operation. A message is accepted by an open transport
only; a transport that refuses, or is kicked, is shut and detached at the end of
the operation; it may be shut at any moment by its own goroutines without the lobby
knowing; its reader reports the end once. That is what `Lobby` assumes of
`Enqueue` and `Kick` when it makes an operation atomic and lets an open transport
refuse at any time, and `KeepsContract` shows that `Transport` implements it. The
mapping treats a transport under an operation as that operation found it: it is not
yet shut while a message of a room is past the test of `done`, and attached until
the Kick ends.

### LobbyLocks and Registry

`LobbyLocks.tla` takes the locks of `lobby.go` as the code does. Each reader
goroutine and the ticker has a program counter, `pc`, and the locals of the call it
is in, `call`.

| Code | Model |
|---|---|
| `Manager.mu`, `Room.mu` | `mu`, `roomMu`: who holds them |
| `Manager.Join`, `Claim` up to the room's lock | `CallEnter`, `LockManager`, `FindRoom`, `FindNone`, `MakeRoom` |
| `gcLocked`, called by `GC` or by a join at the limit | `BeginSweep`, `NextRoom`, `LockVisited`, `Collect`, `EndSweep`; `todo` are the rooms not yet visited |
| `Run`'s ticker: `GC`, then `RoomCount` | `CallGC` ... `EndSweep`, `RoomCount` |
| the room's part of an operation | `LockRoom`, `ReleaseManager`, then `Enters`, `Stays` or `Leaves` |

What an operation does inside the room is reduced to who is attached afterwards,
and that may be anybody the operation could leave there: `Lobby` has the details.
Under the lock the room's part is one step, since nobody else can see its middle.

`Registry.tla` is the abstract specification, with one step for each operation:
`Open`, `Enter`, `Act`, `Destroy`. `OperationsAtomic` says that `LobbyLocks`
implements it, and so justifies that `Lobby` has no locks. The mapping hides a room
from when it is put into the map until its maker has entered it: nobody can see it
before, because the maker holds `Manager.mu` until it has the room's lock. A sweep
destroys its rooms one by one in `Registry` and in one step in `Lobby`; the
difference shows only to operations on rooms that the sweep has passed, which
could as well come before it.

### Pairing, NativeEnd, WasmEnd and Interop

Two players negotiate one connection. `Pairing.tla` is what they share: the record
of an end (a `P2PGame`), WebRTC, and the server reduced to two seats and two queues
that may be cut, with everything under way lost. `NativeEnd.tla` and `WasmEnd.tla`
translate the two backends handler by handler, as operators from an end's record to
its next value, and `Interop.tla` lets them meet, in either role.

| Code | Model |
|---|---|
| `handle_server_message` and the handlers it calls | `HandleServerMessage`, `OnOffer`, `OnAnswer`, `OnIce`, `OnPlayerLeft`, `OnError` and their `Wasm` twins |
| `create_link`, `initiate_peer`, `reset_peer`, `close_peer`, `teardown_peers`, `shutdown` | operators of the same names |
| `handle_peer_state`, `handle_peer_failure`, the delayed rebuild | `HandlePeerState`, `HandlePeerFailure`, `timers`, `Rebuild` |
| messages that WebRTC's callbacks send to the actor, with the epoch of their link | `work` of a native end, `HandleInternal` |
| tasks spawned in the browser: `offer_flow`, `answer_flow`, taking an answer | `work` of a wasm end, `Resume` |
| the candidates held back until the remote description is set | `pending`, `flushed` |

The native actor handles one message to its end, awaiting WebRTC inside the handler;
what may come in between is the state of the connection and its callbacks, which
only queue messages. The browser's handlers run at once, but every await ends a
step: another message, a rebuild or a close may come before the task goes on, and
all it asks then is whether its link is still the current one.

A description is the number of the link it describes, and one candidate stands for
all of a link. WebRTC is outside the repository: a connection comes up only if the
two ends hold each other's descriptions and candidates, it fails if they can never,
and a sound one may break. The server relays in order to whoever is connected.
Rebuild delays are any time. The ends record, for the properties only, how many
links they tried (`tries`), how often they reported the loss of signaling
(`reports`), whether a candidate was added too early (`early`), and whether the last
to take the seat was refused it (`refused`).

A seat is taken in three ways; `Seat` is what the server does in each.

- `Enter`: nobody is connected there.
- `TakeOver`: a game is, and another process takes its seat, with the token or by a
  claim. The one that lost it is not followed any further: it hears an error that
  ends its game and the end of its socket, as after `Expire`, and the other player
  drops its link to it.
- `Refuse`: the joined message does not fit (`deliverJoinedLocked`), so that nobody
  is connected there. Of a seat that was taken the other player is told that its
  player is back, by player-rejoined or player-replaced, which the clients handle
  alike and which are one message here. Of one that was free it gets a roster, which
  shows the truth. `RosterInSync` has the first as its one exception: it is the
  disagreement of `lobby_roster` as a client sees it.

### Channel, NativeSender, WasmSender, Senders and Mailbox

`send_reliable` from one player to another. `Channel.tla` has the links and their
data channels, the frames of `core/framing.rs`, the reassembler of
`core/reassembly.rs` and the receiver; `NativeSender.tla` and `WasmSender.tla` the
two senders.

| Code | Model |
|---|---|
| `next_msg_id`, wrapping | `TakeMsgId`, modulo `IdSpace` |
| `make_frame`, `parse_frame` | `MakeFrame`, `ParseFrame`: message, part and number of parts; bytes and offsets are left out |
| `Reassembler::push`, `prune` | `Push`, `Prune`; the age of an entry is a flag set by `Dawdle` (the timeout passes) or when its id comes round again |
| `sender_task`, `send_one` and its waits | `SenderTask`, `WaitLink`, `CheckOpen`, `Arm`, `ChannelTimeout`, `NextMsgId`, `StartChunk`, `WaitDrain`, `SendChunk` |
| `state_notify` | `ring`, `NotifyWaiters`; `Arm` enables the notification before it looks again |
| `queue_reliable`, `send_worker`, `send_one` of wasm | `QueueReliable`, `SendWorker`, `LinkArrived`, ..., `Burst`, `Drained` |
| a send queue, dropped by `teardown_peers` and made anew by a later send | `queue`, `current`, a *generation* of the queue |

In the native backend the sender is a task beside the actor, so its link may be
closed or replaced between any two of its steps. In the browser a worker that runs
(`Busy`) is not interrupted before its next await; one that outlives its queue goes
on with the next, and a link is handed to whoever waits for one at the moment it is
made.

`Mailbox.tla` is what callers are promised: messages are received once at most, in
the order of the calls, and never after their call failed. `KeepsOrder` shows that
`Senders` implements it, with both backends.

### Session

`Session.tla` models the games of one player on one token store, in several
processes or tabs, one after the other or at the same time, against the slots of
a room: `connect` with its timeout, the answer, the loss of the connection with its
reasons, `close` or drop, and crash. The token of game g is g. The native backend
loads the token once the socket is open (`NativeJoin`) and clears it in its actor
after `close` returned (`NativeShutdown`, then `NativeClear`); the browser loads it
before it opens the socket (`WasmConnect`) and clears it at once. What a game sent
before its socket ended is still read by the server (`up`, ending in `"eof"`), so a
connect that was given up may take a seat.

The server is again reduced: `Join` by token, to the lowest free slot, or by claim
of any; leave; disconnect; losses; expiry. Errors that arrive are in order, the
reason first and the end of the socket last.

Some things that a player does leave a seat behind, which stays taken until the room
expires: to give up a connect or crash in it once it has asked for a seat, to close a
game that has lost its connection, to lose the connection while the leave is under
way, to clear the store of another game's token, or to save over it. `stray` records
the tokens of those seats, as written off, one for each time; `OneSeat` says that of
all other seats that are kept there is one at most, and that the store has its token.
It so says that nothing else leaves a seat behind, and no more than the one. That
these do is what the code does: the room expires, or another player claims the seat.

### DartRoids

`DartRoids.tla` models the example game, both builds, whose game logic is the same
text: a game loop that draws frames (`Frame`), a network loop (`Out`, `HitSent`,
`Receive`) and the queue between them. A player who is struck tells the shooter by
a reliable message that it numbers; ships are broadcast by datagrams with 16-bit
sequence numbers, which may be lost, delayed and reordered; ships that were silent
too long are dropped; a player may start over in its slot (`Restart`).

Who is struck is open, so positions are left out. The network loop runs first
whenever it can (`Idle`), except while it awaits a reliable send: that it stalls
then, with states and frames passing by, is the case of interest. `life`, `sent`,
`ignored` and the `quiet` of a ship only record.

### LobbyProofs, LobbySlotProofs, TransportProofs, LobbyLocksProofs, SessionProofs, DartProofs, SendersProofs, InteropProofs

See "What is proved". `MCLobby`, `MCInterop` and `MCSenders` hold instances.

## What each run checks

| Run | Properties | Instance |
|---|---|---|
| `lobby_takeover` | TypeOK, AttachedBySession, NoZombie, ResumeRoutes, RosterSound | 1 room of 2 slots, 3 transports, 4 tokens, 1 clock tick |
| `lobby_rooms` | EmptySinceExact, RoomMapSound, ShutIsDetached | 2 codes, 2 rooms of 2 slots, limit 1, 2 transports, TTLs of 1 tick, 3 tokens, with fairness |
| `lobby_policies` | StartedWhenDue, NotCollectedEarly, ClaimedOnlyAfterSilence, LateJoinBarred | 1 room of 2 slots, 2 sets of options, 2 transports, readings stale by up to 1 tick, TTLs of 2 and 3 ticks, 3 ticks, 3 tokens |
| `lobby_roster` | RosterExact, violated | as `lobby_takeover` |
| `locks` | EnterFindsLive, OperationsAtomic, CallsReturn, no deadlock | 2 codes, 4 rooms, limit 1, 2 readers and the ticker, with fairness |
| `transport` | TypeOK, FatalIsLast, KeepsContract, EndsCompletely, KickIsExplained | queue of 2, 4 messages of rooms, with fairness |
| `interop` | TypeOK, LossReportedOnce, RosterInSync, CandidatesAfterDescription, RebuildsBounded, WorkingLinkKept, Settles | native offers to wasm and wasm to native, 1 rebuild, 1 cut, crash, close, takeover, refused join or expiry, 1 failure of a sound connection (or the refusal), with fairness |
| `senders` | TypeOK, NoSilentLoss, NoMissedWakeup, KeepsOrder, HangsOnlyOnDeadLink | messages of 2, 1 and 2 frames, water marks of 0, 2 message ids, 2 links, both backends, with fairness |
| `senders_givenup` | SendResolves, violated | messages of 2 and 1 frames, 1 link that is not replaced |
| `session` | TypeOK, BelievesRightly, OneSeat, GhostsDetached | 3 games, 2 at a time, 2 slots, 1 fault, both backends, with fairness |
| `session_superseded` | SupersededSparesToken, violated | as `session` |
| `dartroids` | TypeOK, KillsLostOnlyToRestarts, GhostsFade, StateNeverOlder | 2 players, one per build, 5 sequence numbers, 5 ticks, 2 shots, 1 rock, 1 restart |

Why the bounds are enough.

- *Lobby.* Two slots and three transports are the least with which one transport
  takes a slot from another while a third is told and may be lost to the broadcast;
  four tokens allow three takeovers after the first join. Two codes at a limit of
  one are the least where a join at the limit sweeps, with success or not. A room
  whose reader is still around cannot be reused, so sessions on destroyed rooms
  happen. Clocks run past the TTLs or up to them. In `lobby_policies` `EmptyTTL` is
  two ticks and the lag of readings one, so that a room that was vacant for less than
  the difference can be told from one that was vacant for longer; `MaxTTL` is a tick
  more, so that neither collection hides the other. Its rooms wait until they
  are full and allow claims, or allow neither late join, reconnection nor claims; the
  other runs have the defaults. `MaxClock` and `MaxTokens` are the
  only bounds on histories; they stand in the guards of `Tick` and `Attach`.
- *LobbyLocks.* No history is bounded: calls go on for ever. Four identities of
  rooms are enough for the one in the map, those of two stale sessions, and a new
  one. Two readers and the ticker are enough for a cycle of two locks and one who
  waits for either.
- *Transport.* A queue of two stands for 128: it is empty, has a place left, or is
  full, and the error of a kick fits or not. Four messages let a transport fill its
  queue, be kicked, leave, join again and be sent more. `MaxSends` bounds only the
  messages of rooms; the reader's answers and the frames it reads are unbounded.
- *Interop.* One rebuild is between "rebuild" and "give up"; one cut, crash, close,
  takeover or expiry lets the rest of the history react to it, together with one
  failure, and any number of returns. A refused joined message counts as both. One who
  was refused a taken seat comes back once the other end has at most `MaxBehind`
  messages to read and to send, none in the instance: until then it is an end that
  others find away. In the proofs `MaxBehind` is any number, as the other bounds are. The two mixed pairs put each backend into each role; pairs
  of one kind run the same handlers against a peer that sends the same messages.
- *Senders.* Two ids are the least that wrap with one message in the reassembler;
  with a high-water mark of zero every frame but the first of a message may wait.
  Two links give one replacement, and the second generation of the queue one more.
- *Session.* Three games let one that was superseded by a second meet a third that
  found its token. Two slots are what a second seat takes.
- *DartRoids.* Five numbers wrap within one life. Two shots give a kill and one that could be taken for it; a restart
  gives the hit that is lost. Only the players in `Heard` have datagrams that
  arrive: the direction back is symmetrical and only multiplies the states.

Deadlock is allowed where the system may stop: a transport that has ended, two ends
that are settled, senders with no calls left, a game whose `MaxTicks` are over.

### Disagreements with the documentation

`lobby_roster`: when a transport refuses its joined message, `deliverJoinedLocked`
detaches and kicks it without an announcement, and `resumeLocked` or
`replaceLocked` goes on to broadcast player-rejoined or player-replaced. Everyone
else counts the player as connected until something else happens to the slot, while
`broadcastLocked` says of transports that cannot keep up that "their departure is
announced to the remainder". It takes a full queue, or a reader that still holds an
unread join when its transport is shut. `RosterSound` is the part of the property
that holds: occupied slots and the started flag are known exactly, and a player with
a transport is never believed to be away.

`senders_givenup`: `send_reliable` of the native client promises to fail when the
link "dies mid-send" (`native/mod.rs`). After the last rebuild a failed link is
neither closed nor replaced, so a call that waits in `wait_drain` for its buffer to
drain waits for ever, with the calls queued behind it. The end that answers never
rebuilds; the one that offers does so while it has rebuilds left and the other player
is occupied and connected; player-left with reason "disconnected" keeps the link. So
the failed link may stay in any of these cases, in both backends. The closing of a
data channel by the other end is no way out either: it leaves the buffered amount and
the link's flag as they are. `HangsOnlyOnDeadLink` is what holds (`senders`): every
call returns, unless one waits for the buffer of a link that died and that nothing
closes.

`session_superseded`: `RUST_GUIDE.md` asks for a stored token to be kept when a
session that was superseded is closed, since the other process owns it. Both
backends clear it on every close.

### Fairness

Only liveness needs it.

- `Lobby`: weak fairness of `Disconnect` and `ReaderEnds` of a *shut* transport,
  since `writeLoop` closes the socket at the latest `writeTimeout` after each
  remaining message, which fails the pending read. Nothing is assumed of clients, of
  open transports, or of the ticker. `EndsCompletely` of `Transport` justifies it.
- `Transport`: weak fairness of the writer, whose writes end within `writeTimeout`,
  and of an operation in progress, which waits for nothing while it holds the lock;
  strong fairness of the reader, which may have to wait for the lock again and
  again, since Go's mutexes do not starve a waiter. `Receive`, `Send`, `KickOut` and
  `Break` have no fairness: nobody need send, and the network need not fail.
- `LobbyLocks`: strong fairness of each goroutine inside a call, for the same
  reason. Nobody need call.
- `Interop`: weak fairness of the relay, of each client's loop or event loop, of the
  rebuild timers and of WebRTC's progress. Nobody need enter, leave or fail.
- `Senders`: weak fairness of tasks and their timers (the channel timeout, the poll
  of `wait_drain`), of notifications, and of delivery on a sound connection. Nothing
  is assumed of links whose connection failed: whether they are closed, replaced or
  kept is open.
- `Session`: weak fairness of the server's reading (`Serve`).

## What is proved

For all sets of codes, rooms, applications, transports and room options, and all
values of the limits (assumptions `BoundsAssumption` and `NullAssumption` of
`Lobby.tla`: the numbers are naturals, the null values are not members of the sets
they extend):

- `TypeCorrect`: `Spec => []TypeOK`. `TypeOK` is inductive as it stands. `Attach`
  and `BroadcastLosing` have a lemma each, used by every operation.
- `RoomMapSafe`: `Spec => []RoomMapSound`. The invariant is
  `TypeOK /\ RoomsLinked /\ MapBounded`. `RoomStep` reduces every step to a
  collection, a creation or no change of the rooms; `LiveAfterCollect` and
  `LiveAfterCreate` give the live rooms after each. That the map is *finite* has to
  be part of the invariant: cardinalities say nothing otherwise.
- `AttachmentSafe`, `ZombieFree`, `EmptySinceSafe`: `Spec => []AttachedBySession`,
  `[]NoZombie`, `[]EmptySinceExact`. None of them is inductive alone: that a
  detached reader's transport is shut needs to know whose transport the slot held,
  and that a fresh room has no transport needs that attached rooms are not
  destroyed. The invariant is `SlotInv` with `TypeOK` and `RoomsLinked`.
  `BroadcastEffect` says what any broadcast leaves behind (`Leaves`); `AttachSafe`
  then covers the ways to take a slot, `DetachSafe` the ways to lose one, `SweepSafe`
  the destruction of rooms.
- `CollectedInTime`: `Spec => NotCollectedEarly`, from the same invariant, of which
  `VacancyDated` (emptySince is not older than the true vacancy by more than
  `MaxLag`) is there for this.
- `StartsWhenDue`, `TokensRoute`: `Spec => []StartedWhenDue`, `[]ResumeRoutes`. The
  invariant is `LedgerInv`: the two properties with `TokensIssued` (no token of the
  future is held, so a new one is new everywhere), `DestroyedBlank` (a destroyed
  room keeps nothing that a late session could find) and `HeardIsDated`
  (`lastSeenAt` is not older than the true last word by more than `MaxLag`).
  `EntersLedger`, `SweptLedger` and `StaysLedger` cover taking a slot, the sweep, and
  all that takes nobody in: that the test for a full room comes after the joiner is
  counted, and the broadcast's losses after the test, is what the first is about.
- `LateJoinRefused`, `ClaimsWaitForSilence`: `Spec => LateJoinBarred`,
  `ClaimedOnlyAfterSilence`, step by step from these invariants.
- `RosterKept`: `Spec => []RosterSound`, inductive with the invariants above.
  `BroadcastInforms` and `BroadcastSound` say what a broadcast that loses some of
  its receivers tells those who stay, and that the cascade it sets off leaves
  nobody with a player who is gone; `DetachInforms`, `DepartureRoster`,
  `EntersRoster` and `SweptRoster` are the operations.

For every queue size and every bound on messages (`QueueAssumption` of
`Transport.tla`), in `TransportProofs.tla`:

- `TypeCorrect`: `Spec => []TypeOK`, with `SendsInv`: a message on its way into the
  queue is counted in the bound already.
- `FatalLast`: `Spec => []FatalIsLast`. The invariant `OrderInv` says why it holds:
  once the error of a kick is queued, `done` is closed or the operation that queued
  it is about to close it, and a message past the test of `done` finds no such error
  yet. `PendingOrder` derives the property, which sees the queue behind the message
  being written.
- `TransportIsConn`: `Spec => KeepsContract`. `ContractStep` maps each action to a
  step of `Conn` or to none, using `LinkInv`: who holds the transport while an
  operation works on it and after its reader reported the end.

For all sets of codes, rooms and goroutines (`LocksAssumption` of `LobbyLocks.tla`),
in `LobbyLocksProofs.tla`:

- `TypeCorrect`: `Spec => []TypeOK`. (No run checks `TypeOK` of this module.)
- `EntersLiveRooms`: `Spec => []EnterFindsLive`. The invariant `IInv` is `TypeOK`
  with `LockInv` (who holds which lock at each label), `CallInv` (`Placed`: the room
  of a call past the lookup is in the map, as long as the caller holds `Manager.mu`
  or the room's lock), `MapInv` (the map has the rooms that are not destroyed, each
  once), `FreshInv` (a room that its maker has not entered is untouched) and
  `LimitInv`. Each action has a lemma.
- `LocksMakeAtomic`: `Spec => OperationsAtomic`. `QuietStep` covers the steps that
  change nothing the mapping shows, `MakingIsQuiet` the creation, which it hides;
  `CollectAtomic` and `EntersAtomic` map the two steps that take effect, with
  `VisibleRooms` for what the mapping shows of the map. `NobodyElse` is the core:
  while a room is hidden no other call refers to it.

For every number of games, slots and faults (`SessionConstants`), in
`SessionProofs.tla`:

- `TypeCorrect`: `Spec => []TypeOK`.
- `BelievesTruly`: `Spec => []BelievesRightly`. The property speaks of games that
  have heard everything; the invariant says of every game that it is seated as it
  believes or has news on the way (`Believes`), that a game about to be told of its
  seat has it unless more is coming (`WillBelieve`), that a running game has sent
  nothing that would end it (`StillThere`), and that nothing is sent for a game that
  was not begun. `FollowsBelieves` is used for every step of the server, with one
  lemma for each that says what the games hear.
- `OneSeatKept`: `Spec => []OneSeat`, from `TypeOK /\ Accounts`, inductive together.
  A token keeps one slot, which is attached to the game that has the token or to none
  (`OneEach`). What a game has sent and has yet to hear is what one that is seated, or
  asks to be, would (`Courteous`, `Attached`, `Worthless`); a token that a game
  resumes with keeps no slot any more once that game is seated (`Resumes`). And every
  seat that is kept is written off, or its joined message is about to be read and its
  token stored, or it is stored already (`Accounted`): the property is the case of
  that where the first two are left out. `GameStep` covers the steps of a game,
  `FreesAccounted`, `SeatAccounted` and `FullAccounted` those of the server.

For every number of players and every setting of the durations (`DartConstants`), in
`DartProofs.tla`:

- `TypeCorrect`: `Spec => []TypeOK`, from `Good`: the games, links and datagrams in
  full, of which `TypeOK` is the part that a run can evaluate cheaply.
- `GhostsAreGone`: `Spec => []GhostsFade`. `Fading` ties the silence that the code
  measures to the true one, and says that a frame leaves no ship that is too old.
- `KillsCounted`: `Spec => []KillsLostOnlyToRestarts`, from `KillInv`. What a player
  has to send has the numbers of its last deaths, in their order (`Numbered`). The
  hits that another has in its inbox, and the last that it heard, can each be given
  the life of the player in which they were sent so that lives and numbers go up
  (`Ordered`): a hit with the number of the last one is of a later life, so what was
  ignored stays below the life last heard of. The lives are not in the messages, so
  the invariant says that there are some. `Goes` is what a step may do to the queue
  of a player, `OrderedSame`, `OrderedMore`, `OrderedNext` and `OrderedFresh` what it
  may do to the inbox of another.

For every sequence of messages, number of links and size of the id space
(`ChannelConstants` of `Channel.tla`), in `SendersProofs.tla`:

- `TypeCorrect`: `Spec => []TypeOK`, and `WakeupsReach`: `Spec => []NoMissedWakeup`.
  The invariant `Base` has the types in full, what each place of a sending task says
  of it (`Placed`), that channels are opened before they carry anything, and that a
  link has one sender (`OneSender`). `StepKinds` reduces every step of either
  backend and of the connection to seven kinds: a call, a task that takes a message,
  takes an id or sends a frame, the arrival of a frame, the timeout of a reassembly,
  and the rest, which gives up messages at most. What follows is shown once for each
  kind and so for both backends.
- `MailboxImplemented`: `Spec => KeepsOrder`, the refinement of `Mailbox`. The
  invariant is `Base /\ Flow`. `Order`, `Unreturned` and `Ahead` say that queues,
  jobs and wires hold the messages in the order of the calls, each in one place,
  across the change of the game's generation and of links; `Frames` and `IdsApart`,
  that frames of different messages that can meet at the receiver have different
  ids although ids wrap, because the high-water mark bounds how many are under way;
  `Reassembly`, that the receiver's entry of an id has chunks of one message.
- `NothingLost`: `Spec => []NoSilentLoss`, from `LossInv`: no gap in what a link
  carries (`Gapless`), the receiver has all that came before the next frame
  (`Expects`), a message sent whole was received or its last frame is under way
  (`Arrives`).
- `OnceInOrder`: what is received comes once at most and in the order of the calls,
  and nothing whose call failed comes. `MailboxInOrder` shows it of the abstract
  specification, that so says what it is meant to; the refinement carries it over.

For every set of pairs of backends and every bound (`BoundsAreNat`, `BuildsAreBackends`), in
`InteropProofs.tla`, whose invariant is `IInv == Typed /\ Told /\ Bounded`:

- `TypeCorrect`, `CandidatesHeldBack`: `Spec => []TypeOK`,
  `[]CandidatesAfterDescription`, from `Typed`: the types in full, with what the
  work in flight of either backend looks like, and `SoundLinks` for every link. Each
  handler of `NativeEnd` and `WasmEnd` has a lemma that says what it keeps of a
  client (`Keeps`, `Hears`) and what becomes of its link (`Relinks`, `Rebuilt`);
  `Alike` ties the browser's handlers to the native ones where they agree.
- `LossOnce`, `RosterSynced`: `Spec => []LossReportedOnce`, `[]RosterInSync`. Both
  speak of clients that have read everything; `Told` says of every client that what
  it still has to read leads from its view to the server's (`Caught`), and that the
  end of its signaling is reported or to be read, in the order error, then end of
  socket, and nothing after it (`Warned`). The server's view of a seat is one of its
  `Views`: of a seat that is away since its joined message was refused both that it is
  away and that it is taken may have been told. `TellEffect`, `InformsOnly` and
  `SeatTold` cover the steps of the server.
- `TriesBounded`: `Spec => []RebuildsBounded`, from `Bounded`: timers and callbacks
  are of links made so far, a link has one failure to be handled (`Dated`), and each
  try but the first answers one (`Counted`).

Only model-checked: `WorkingLinkKept`, and `StateNeverOlder`
(which holds only as long as sequence numbers do not wrap past half their range while a
datagram is under way, as the instance has it); and what lies beyond the prover,
liveness under fairness: `ShutIsDetached`, `EndsCompletely`, `KickIsExplained`,
`CallsReturn`, `Settles`, `HangsOnlyOnDeadLink`, `GhostsDetached`.

## Plan

What is left, in this order:

1. A proof of `WorkingLinkKept`.
2. A mesh of three players: `Interop` has one pair, and the pairs of a client share
   only its socket and its roster.
3. The graceful shutdown of the server.

## Not modelled

- Best-effort datagrams in the clients (`send_best_effort`): they keep no state, and
  may be lost in any case.
- Errors of local WebRTC calls (a description that the library refuses, a data
  channel that cannot be made), the keepalive of the WebSocket, the options that
  force a relay, and `report_candidate_pair`.
- In `Interop`, the process whose seat was taken over (see there). That two games of
  one player live side by side is in `Session`.
- The code of the TypeScript and Java clients. They follow the protocol of the Rust
  clients, whose modules cover what they share.
- In DartRoids: positions, steering, asteroids, the shared game clock with its
  leader, the drawing. A bullet that strikes two ships is two kills.
- Parsing and validation of messages, HTTP routing, origins, TURN credentials and
  configuration, which keep no state that another step could find changed.
- Start-up and shutdown of the server, beyond the ticker.
- The interoperability tests, the web page, the other examples and the scripts; the
  contents of signals, which the server relays unread.
