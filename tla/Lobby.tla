------------------------------- MODULE Lobby -------------------------------
(***************************************************************************)
(* The lobby of the signaling server: src/internal/lobby/lobby.go, with    *)
(* the per-connection session that the reader of ws.go keeps and the       *)
(* roster that a client folds from the messages it is sent.                *)
(*                                                                         *)
(* Every operation of the lobby runs under Room.mu (and Manager.mu for the *)
(* room map), so each is one action.  What is not under the lock:          *)
(*   - an operation reads the clock before it waits for the lock, so the   *)
(*     time it works with may be old by up to MaxLag (see Times);          *)
(*   - the writer goroutine of a transport drains or abandons its queue at *)
(*     any moment, so Conn.Enqueue on an open transport may succeed or,    *)
(*     with the queue full, refuse; on one that is shut it always refuses. *)
(*                                                                         *)
(* A transport (wsClient) goes from "off" to "open"; Kick or a failed      *)
(* write shuts it, for the reason recorded here; its reader may still act  *)
(* on messages that were already received, until the socket is closed.     *)
(***************************************************************************)
EXTENDS Integers, FiniteSets

CONSTANTS
  Codes,            \* room codes
  Rooms,            \* identities of Room objects (pointers)
  Apps,             \* application ids
  Conns,            \* transports
  MaxPlayersHard,   \* the server's bound on maxPlayers
  CreateOptions,    \* the resolved room options that clients create rooms with
  EmptyTTL, MaxTTL, \* lobby.Limits
  MaxRooms,         \* lobby.Limits
  MaxLag,           \* how old the clock reading of an operation may be
  MaxClock,         \* bound: the clock stops here
  MaxTokens,        \* bound: resume tokens issued
  NoRoom, NoDesc, NoConn, NoSession

Ids == 0 .. MaxPlayersHard - 1

RoomOptions ==
  [maxPlayers : 1 .. MaxPlayersHard, waitUntilFull : BOOLEAN,
   allowLateJoin : BOOLEAN, allowReconnect : BOOLEAN,
   allowReplacement : BOOLEAN, policyAllowsClaim : BOOLEAN, claimAfter : Nat]

ASSUME BoundsAssumption ==
  /\ MaxPlayersHard \in Nat \ {0}
  /\ EmptyTTL \in Nat /\ MaxTTL \in Nat /\ MaxRooms \in Nat
  /\ MaxLag \in Nat /\ MaxClock \in Nat /\ MaxTokens \in Nat
  /\ CreateOptions \subseteq RoomOptions

ASSUME NullAssumption ==
  /\ NoRoom \notin Rooms
  /\ NoDesc \notin [appID : Apps, opts : CreateOptions, createdAt : Nat]
  /\ NoConn \notin Conns
  /\ NoSession \notin [room : Rooms, id : Ids]

VARIABLES
  rooms,       \* Manager.rooms: the live room of each code
  destroyed,   \* Room.destroyed
  desc,        \* a room's appID, opts and createdAt, fixed at creation
  started,     \* Room.started
  emptySince,  \* Room.emptySince
  occupied, conn, token, lastSeenAt,   \* the fields of Room.slots
  wire,        \* each transport: "off", "open", or why it is shut
  sess,        \* the session each transport's reader holds
  view,        \* the roster and started flag a client folds from its messages
  clock,       \* real time
  issued,      \* resume tokens generated so far
  known,       \* the tokens that reached some client's outbound queue
  heard,       \* history: when a message of each slot's player was last handled
  vacantAt     \* history: when each room last became empty of transports

slotVars == <<occupied, conn, token, lastSeenAt>>
roomVars == <<destroyed, desc, started, emptySince>>
connVars == <<wire, sess, view>>
ghostVars == <<heard, vacantAt>>
vars == <<rooms, roomVars, slotVars, connVars, clock, issued, known, ghostVars>>

NoTime == -1       \* the zero time.Time
NoToken == 0       \* hasToken = false
KickReasons == {"session-superseded", "replaced", "slow-consumer", "room-expired"}
WireStates == {"off", "open", "failed"} \cup KickReasons
Shut(c) == wire[c] \notin {"off", "open"}

RoomDesc == [appID : Apps, opts : CreateOptions, createdAt : 0 .. MaxClock]
Session == [room : Rooms, id : Ids]
Status == {"free", "away", "here"}
View == [roster : [Ids -> Status], started : BOOLEAN]
NoView == [roster |-> [i \in Ids |-> "free"], started |-> FALSE]

Init ==
  /\ rooms = [k \in Codes |-> NoRoom]
  /\ destroyed = [r \in Rooms |-> TRUE]
  /\ desc = [r \in Rooms |-> NoDesc]
  /\ started = [r \in Rooms |-> FALSE]
  /\ emptySince = [r \in Rooms |-> NoTime]
  /\ occupied = [r \in Rooms |-> [i \in Ids |-> FALSE]]
  /\ conn = [r \in Rooms |-> [i \in Ids |-> NoConn]]
  /\ token = [r \in Rooms |-> [i \in Ids |-> NoToken]]
  /\ lastSeenAt = [r \in Rooms |-> [i \in Ids |-> 0]]
  /\ wire = [c \in Conns |-> "off"]
  /\ sess = [c \in Conns |-> NoSession]
  /\ view = [c \in Conns |-> NoView]
  /\ clock = 0
  /\ issued = 0
  /\ known = {}
  /\ heard = [r \in Rooms |-> [i \in Ids |-> 0]]
  /\ vacantAt = [r \in Rooms |-> 0]

-----------------------------------------------------------------------------
(* Helpers of the lobby *)

\* What m.now() or r.now() may have returned to an operation that gets the
\* lock at this moment.
TimesAhead == {t \in 0 .. clock + 1 : clock - t <= MaxLag}   \* mutant of Times
Times == {t \in 0 .. clock : clock - t <= MaxLag}

Opts(r) == desc[r].opts
Slots(r) == 0 .. Opts(r).maxPlayers - 1
Up(hold) == {i \in Ids : hold[i] # NoConn}

\* isCurrentLocked for the session that c's reader holds, on a live room.
IsCurrent(c) ==
  /\ sess[c] # NoSession
  /\ LET r == sess[c].room  i == sess[c].id
     IN ~destroyed[r] /\ occupied[r][i] /\ conn[r][i] = c

\* updateEmptyLocked with some transport attached or none, at time t.
UpdateEmptyNeverSets(since, attached, t) ==   \* mutant of UpdateEmpty
  IF attached # {} THEN NoTime ELSE since
UpdateEmpty(since, attached, t) ==
  IF attached # {} THEN NoTime ELSE IF since = NoTime THEN t ELSE since

\* snapshotLocked, and what a client makes of the messages about a slot.
Snapshot(occ, hold) ==
  [i \in Ids |-> IF ~occ[i] THEN "free" ELSE IF hold[i] = NoConn THEN "away" ELSE "here"]
DisconnectedFrees(roster, gone) ==   \* mutant of Disconnected: the slot is given up
  [i \in Ids |-> IF i \in gone THEN "free" ELSE roster[i]]
Disconnected(roster, gone) ==
  [i \in Ids |-> IF i \in gone /\ roster[i] # "free" THEN "away" ELSE roster[i]]

\* The slots that broadcastLocked can lose when the transports `hold` are
\* attached, `w` says which are open and the message goes to `first`: shut ones
\* always refuse, open ones may (a full queue), and as soon as one is lost the
\* others, the excepted one too, are sent its PlayerLeft and may be lost to it.
Drops(hold, w, first) ==
  LET deaf == {i \in Up(hold) : w[hold[i]] # "open"}
  IN {D \in SUBSET Up(hold) :
        /\ deaf \cap first \subseteq D
        /\ D # {} => D \cap first # {} /\ deaf \subseteq D}

\* broadcastLocked on room r, when the slots D are lost: hold are the transports
\* attached before it, told[c] what client c would know after the message alone;
\* whoever stays is sent the PlayerLeft of every slot of D.  `swept` are rooms
\* destroyed by the same operation.
BroadcastLosing(D, r, hold, w, since, told, swept) ==
  LET remain == Up(hold) \ D
      lost == {hold[i] : i \in D}
      elsewhere == {c \in Conns : \E q \in Rooms \ ({r} \cup swept) : \E i \in Ids : conn[q][i] = c}
  IN
  /\ conn' = [q \in Rooms |->
                [i \in Ids |-> IF q = r THEN IF i \in remain THEN hold[i] ELSE NoConn
                               ELSE IF q \in swept THEN NoConn ELSE conn[q][i]]]
  /\ wire' = [c \in Conns |-> IF c \in lost /\ w[c] = "open" THEN "slow-consumer" ELSE w[c]]
  /\ emptySince' = [q \in Rooms |-> IF q = r THEN UpdateEmpty(since, remain, clock)
                                    ELSE IF q \in swept THEN NoTime ELSE emptySince[q]]
  /\ vacantAt' = [q \in Rooms |-> IF q = r /\ remain = {} THEN clock
                                  ELSE IF q \in swept \cup {r} THEN 0 ELSE vacantAt[q]]
  /\ view' = [c \in Conns |->
                IF \E i \in remain : hold[i] = c
                THEN [told[c] EXCEPT !.roster = Disconnected(@, D)]
                ELSE IF c \in elsewhere THEN view[c] ELSE NoView]

Broadcast(r, hold, w, since, first, told, swept) ==
  \E D \in Drops(hold, w, first) : BroadcastLosing(D, r, hold, w, since, told, swept)

\* Kick, and the server's own shutdown: only the first reason stands.
KickedStaysOpen(w, cs, reason) == w   \* mutant of Kicked: the error without the shutdown
Kicked(w, cs, reason) ==
  [c \in Conns |-> IF c \in cs /\ w[c] = "open" THEN reason ELSE w[c]]

-----------------------------------------------------------------------------
(* Rooms: creation and collection *)

Live == {r \in Rooms : \E k \in Codes : rooms[k] = r}

\* A Room object that no map entry and no session refers to: not yet allocated.
Unused == {r \in Rooms \ Live : \A c \in Conns : sess[c] = NoSession \/ sess[c].room # r}

\* The rooms that gcLocked destroys at time t.
CollectableByAge(t) ==   \* mutant of Collectable: the age of an empty room, not its vacancy
  {r \in Live : \/ t - desc[r].createdAt >= MaxTTL
                \/ emptySince[r] # NoTime /\ t - desc[r].createdAt >= EmptyTTL}
Collectable(t) ==
  {r \in Live : \/ t - desc[r].createdAt >= MaxTTL
                \/ emptySince[r] # NoTime /\ t - emptySince[r] >= EmptyTTL}

\* The transports attached to the rooms S.
AttachedTo(S) == {c \in Conns : \E r \in S : \E i \in Ids : conn[r][i] = c}

\* A field of the rooms or of their slots once the rooms S are destroyed.  The
\* other fields of a destroyed room are never read again, since every operation
\* tests `destroyed` first; they get their initial value back.
ForgetRoom(f, S, v) == [r \in Rooms |-> IF r \in S THEN v ELSE f[r]]
Forget(f, S, v) == ForgetRoom(f, S, [i \in Ids |-> v])

\* gcLocked: unlink the rooms S, detach and kick their transports.
Collect(S) ==
  /\ rooms' = [k \in Codes |-> IF rooms[k] \in S THEN NoRoom ELSE rooms[k]]
  /\ destroyed' = ForgetRoom(destroyed, S, TRUE)
  /\ desc' = ForgetRoom(desc, S, NoDesc)
  /\ started' = ForgetRoom(started, S, FALSE)
  /\ emptySince' = ForgetRoom(emptySince, S, NoTime)
  /\ occupied' = Forget(occupied, S, FALSE)
  /\ conn' = Forget(conn, S, NoConn)
  /\ token' = Forget(token, S, NoToken)
  /\ lastSeenAt' = Forget(lastSeenAt, S, 0)
  /\ wire' = Kicked(wire, AttachedTo(S), "room-expired")
  /\ view' = [c \in Conns |-> IF c \in AttachedTo(S) THEN NoView ELSE view[c]]
  /\ heard' = Forget(heard, S, 0)
  /\ vacantAt' = ForgetRoom(vacantAt, S, 0)

\* Manager.GC, called by the ticker of lobbyserver.Run.
GC(t) ==
  /\ Collectable(t) # {}
  /\ Collect(Collectable(t))
  /\ UNCHANGED <<sess, clock, issued, known>>

-----------------------------------------------------------------------------
(* Taking a slot *)

\* newToken: random, so never one that was issued before.
NewTokenConstant == 1   \* mutant of NewToken
NewToken == issued + 1

\* Slot i of room r as deliverJoinedLocked leaves it: c's, or nobody's if c refused
\* the joined message.
Seated(r, i, c, delivered) == [conn[r] EXCEPT ![i] = IF delivered THEN c ELSE NoConn]

\* The transports after the kicks: of the rooms swept, of the slot's previous
\* transport, of c if it refused.
AfterKicks(r, i, c, delivered, reason, swept) ==
  Kicked(Kicked(Kicked(wire, AttachedTo(swept), "room-expired"), {conn[r][i]}, reason),
         IF delivered THEN {} ELSE {c}, "slow-consumer")

\* What each client knows after the joined message, and after player-joined (with
\* room-started if this join starts the room), -rejoined or -replaced.
Told(r, i, c, hold, occ, st, note) ==
  [d \in Conns |->
     IF d = c THEN [roster |-> Snapshot(occ, [hold EXCEPT ![i] = c]), started |-> st]
     ELSE IF note = "player-joined"
     THEN [roster |-> Snapshot(occ, hold), started |-> view[d].started \/ (st /\ ~started[r])]
     ELSE [view[d] EXCEPT !.roster[i] = "here"]]

\* deliverJoinedLocked and the broadcasts that follow it.
Deliver(delivered, r, i, c, t, occ, st, reason, note, swept) ==
  LET hold == Seated(r, i, c, delivered)
  IN /\ known' = IF delivered THEN known \cup {NewToken} ELSE known
     /\ Broadcast(r, hold, AfterKicks(r, i, c, delivered, reason, swept),
                  UpdateEmpty(NoTime, Up(hold), t), Up(hold) \ {i},
                  Told(r, i, c, hold, occ, st, note), swept)

\* The common part of resumeLocked, occupyLocked and replaceLocked: transport c
\* gets slot i of room r with a new token, the previous transport is kicked with
\* `reason`, c is sent the joined message or detached, and the others are told
\* with `note`.  `occ` and `st` are the room's occupied flags and started flag by
\* then, `swept` the rooms that the same call collected.
Attach(r, i, c, t, occ, st, reason, note, swept) ==
  /\ issued < MaxTokens
  /\ issued' = issued + 1
  /\ occupied' = [Forget(occupied, swept, FALSE) EXCEPT ![r] = occ]
  /\ started' = [ForgetRoom(started, swept, FALSE) EXCEPT ![r] = st]
  /\ token' = [Forget(token, swept, NoToken) EXCEPT ![r][i] = NewToken]
  /\ lastSeenAt' = [Forget(lastSeenAt, swept, 0) EXCEPT ![r][i] = t]
  /\ heard' = [Forget(heard, swept, 0) EXCEPT ![r][i] = clock]
  /\ sess' = [sess EXCEPT ![c] = [room |-> r, id |-> i]]
  /\ \E delivered \in (IF wire[c] = "open" THEN BOOLEAN ELSE {FALSE}) :
       Deliver(delivered, r, i, c, t, occ, st, reason, note, swept)

\* The start transition of occupyLocked, for the occupied flags `occ`.
StartsBeforeOccupying(r, occ, opts) ==   \* mutant of Starts: the joiner is not counted
  started[r] \/ ~opts.waitUntilFull \/ \A j \in 0 .. opts.maxPlayers - 1 : occupied[r][j]
Starts(r, occ, opts) ==
  started[r] \/ ~opts.waitUntilFull \/ \A j \in 0 .. opts.maxPlayers - 1 : occ[j]

\* occupyLocked.  (A free slot has no transport: nobody is superseded.)
Occupy(r, i, c, t, opts, swept) ==
  LET occ == [occupied[r] EXCEPT ![i] = TRUE]
  IN Attach(r, i, c, t, occ, Starts(r, occ, opts), "session-superseded", "player-joined", swept)

\* A transport whose reader holds no session asks for a room that exists.
MayEnterAgain(c, code, app) ==   \* mutant of MayEnter: already-joined is not tested
  /\ wire[c] # "off"
  /\ rooms[code] # NoRoom /\ ~destroyed[rooms[code]] /\ desc[rooms[code]].appID = app
MayEnter(c, code, app) ==
  /\ wire[c] # "off" /\ sess[c] = NoSession
  /\ rooms[code] # NoRoom /\ ~destroyed[rooms[code]] /\ desc[rooms[code]].appID = app

\* findTokenLocked, consulted when the room allows reconnection.
Matching(r, resume) ==
  {i \in Ids : Opts(r).allowReconnect /\ resume # NoToken /\ occupied[r][i] /\ token[r][i] = resume}

\* Join with a token that matches an occupied slot: resumeLocked.
JoinResume(c, code, app, resume, t) ==
  /\ MayEnter(c, code, app)
  /\ LET r == rooms[code]
     IN \E i \in Matching(r, resume) :
          /\ \A j \in Matching(r, resume) : i <= j
          /\ Attach(r, i, c, t, occupied[r], started[r], "session-superseded", "player-rejoined", {})
  /\ UNCHANGED <<rooms, destroyed, desc, clock>>

\* A fresh join is not too late for room r.
NeverTooLate(r) == TRUE   \* mutant of NotTooLate
NotTooLate(r) == ~started[r] \/ Opts(r).allowLateJoin

\* Join with no token or one that matches nothing: the lowest free slot.
JoinFresh(c, code, app, resume, t) ==
  /\ MayEnter(c, code, app)
  /\ LET r == rooms[code]
     IN /\ Matching(r, resume) = {}
        /\ NotTooLate(r)
        /\ \E i \in Slots(r) :
             /\ ~occupied[r][i] /\ \A j \in Slots(r) : occupied[r][j] \/ i <= j
             /\ Occupy(r, i, c, t, Opts(r), {})
  /\ UNCHANGED <<rooms, destroyed, desc, clock>>

\* The rooms that Join sweeps before it creates one.
SweptByJoin(t) == IF Cardinality(Live) >= MaxRooms THEN Collectable(t) ELSE {}

\* The room limit, tested after that sweep.
HasCapacityOffByOne(swept) == Cardinality(Live \ swept) <= MaxRooms   \* mutant of HasCapacity
HasCapacity(swept) == Cardinality(Live \ swept) < MaxRooms

\* What Join stores in the room map for a code that has no room.
Create(r, code, app, opts, t) ==
  LET swept == SweptByJoin(t)
  IN /\ rooms[code] = NoRoom
     /\ HasCapacity(swept)
     /\ rooms' = [k \in Codes |-> IF k = code THEN r ELSE IF rooms[k] \in swept THEN NoRoom ELSE rooms[k]]
     /\ destroyed' = [ForgetRoom(destroyed, swept, TRUE) EXCEPT ![r] = FALSE]
     /\ desc' = [ForgetRoom(desc, swept, NoDesc) EXCEPT
                   ![r] = [appID |-> app, opts |-> opts, createdAt |-> t]]

\* Join of a code without a room, with create options.
JoinCreate(c, code, app, opts, t) ==
  /\ wire[c] # "off" /\ sess[c] = NoSession
  /\ \E r \in Unused : Create(r, code, app, opts, t) /\ Occupy(r, 0, c, t, opts, SweptByJoin(t))
  /\ UNCHANGED clock

\* The same when newToken fails: the room stays in the map, with no player.
Abandon(r, t, swept) ==
  /\ started' = ForgetRoom(started, swept, FALSE)
  /\ emptySince' = [ForgetRoom(emptySince, swept, NoTime) EXCEPT ![r] = t]
  /\ occupied' = Forget(occupied, swept, FALSE)
  /\ conn' = Forget(conn, swept, NoConn)
  /\ token' = Forget(token, swept, NoToken)
  /\ lastSeenAt' = Forget(lastSeenAt, swept, 0)
  /\ wire' = Kicked(wire, AttachedTo(swept), "room-expired")
  /\ view' = [c \in Conns |-> IF c \in AttachedTo(swept) THEN NoView ELSE view[c]]
  /\ heard' = Forget(heard, swept, 0)
  /\ vacantAt' = [ForgetRoom(vacantAt, swept, 0) EXCEPT ![r] = clock]

JoinCreateFails(c, code, app, opts, t) ==
  /\ wire[c] # "off" /\ sess[c] = NoSession
  /\ \E r \in Unused : Create(r, code, app, opts, t) /\ Abandon(r, t, SweptByJoin(t))
  /\ UNCHANGED <<sess, clock, issued, known>>

\* Claim of a slot, by id.
MayClaim(c, code, app, i) ==
  /\ MayEnter(c, code, app)
  /\ i \in Slots(rooms[code])
  /\ Opts(rooms[code]).allowReplacement /\ Opts(rooms[code]).policyAllowsClaim

ClaimFree(c, code, app, i, t) ==
  /\ MayClaim(c, code, app, i)
  /\ ~occupied[rooms[code]][i]
  /\ Occupy(rooms[code], i, c, t, Opts(rooms[code]), {})
  /\ UNCHANGED <<rooms, destroyed, desc, clock>>

ClaimSilent(c, code, app, i, t) ==
  /\ MayClaim(c, code, app, i)
  /\ LET r == rooms[code]
     IN /\ occupied[r][i] /\ t - lastSeenAt[r][i] >= Opts(r).claimAfter
        /\ Attach(r, i, c, t, occupied[r], started[r], "replaced", "player-rejoined", {})
  /\ UNCHANGED <<rooms, destroyed, desc, clock>>

-----------------------------------------------------------------------------
(* Operations of a session *)

\* Any message of a joined client counts as activity.
SeenNotRecorded(c, t) ==   \* mutant of Seen
  /\ lastSeenAt' = lastSeenAt
  /\ heard' = [heard EXCEPT ![sess[c].room][sess[c].id] = clock]
Seen(c, t) ==
  /\ lastSeenAt' = [lastSeenAt EXCEPT ![sess[c].room][sess[c].id] = t]
  /\ heard' = [heard EXCEPT ![sess[c].room][sess[c].id] = clock]

Touch(c, t) ==
  /\ IsCurrent(c)
  /\ Seen(c, t)
  /\ UNCHANGED <<rooms, roomVars, occupied, conn, token, connVars, clock, issued, known, vacantAt>>

\* Slot `to` of room r is one that player i may signal now.
Signalable(r, i, to) == to \in Slots(r) \ {i} /\ occupied[r][to] /\ conn[r][to] # NoConn

\* Signal that is relayed, or refused with an error to its sender only.
Signal(c, to, t) ==
  /\ IsCurrent(c)
  /\ LET r == sess[c].room
     IN Signalable(r, sess[c].id, to) => wire[conn[r][to]] = "open"
  /\ Seen(c, t)
  /\ UNCHANGED <<rooms, roomVars, occupied, conn, token, connVars, clock, issued, known, vacantAt>>

\* Signal whose target cannot take it: the target is detached and announced.
SignalDropsTarget(c, to, t) ==
  /\ IsCurrent(c)
  /\ LET r == sess[c].room
         hold == [conn[r] EXCEPT ![to] = NoConn]
         told == [d \in Conns |-> [view[d] EXCEPT !.roster = Disconnected(@, {to})]]
     IN /\ Signalable(r, sess[c].id, to)
        /\ Broadcast(r, hold, Kicked(wire, {conn[r][to]}, "slow-consumer"),
                     emptySince[r], Up(hold), told, {})
  /\ Seen(c, t)
  /\ UNCHANGED <<rooms, destroyed, desc, started, occupied, token, sess, clock, issued, known>>

\* Leave of the slot's current transport: the slot and its token are given up.
\* (The time Leave read has no effect: broadcastLocked reads the clock again.)
Leave(c) ==
  /\ IsCurrent(c)
  /\ LET r == sess[c].room
         i == sess[c].id
         hold == [conn[r] EXCEPT ![i] = NoConn]
         told == [d \in Conns |-> [view[d] EXCEPT !.roster[i] = "free"]]
     IN /\ occupied' = [occupied EXCEPT ![r][i] = FALSE]
        /\ token' = [token EXCEPT ![r][i] = NoToken]
        /\ Broadcast(r, hold, wire, emptySince[r], Up(hold), told, {})
  /\ sess' = [sess EXCEPT ![c] = NoSession]
  /\ UNCHANGED <<rooms, destroyed, desc, started, lastSeenAt, clock, issued, known, heard>>

\* Leave of a session that no longer holds its slot: the reader forgets it.
LeaveStale(c) ==
  /\ sess[c] # NoSession /\ ~IsCurrent(c)
  /\ sess' = [sess EXCEPT ![c] = NoSession]
  /\ UNCHANGED <<rooms, roomVars, slotVars, wire, view, clock, issued, known, ghostVars>>

-----------------------------------------------------------------------------
(* Transports *)

\* handleWS accepts a socket.
Connect(c) ==
  /\ wire[c] = "off"
  /\ wire' = [wire EXCEPT ![c] = "open"]
  /\ UNCHANGED <<rooms, roomVars, slotVars, sess, view, clock, issued, known, ghostVars>>

\* The writer gives up on the socket, or the reader got a binary frame.
WriterFails(c) ==
  /\ wire[c] = "open"
  /\ wire' = [wire EXCEPT ![c] = "failed"]
  /\ UNCHANGED <<rooms, roomVars, slotVars, sess, view, clock, issued, known, ghostVars>>

\* The reader returns while its session holds a slot: Room.Disconnect detaches
\* the transport and the slot stays occupied.
DisconnectKeepsSlot(c) ==   \* mutant of Disconnect: Room.Disconnect is not called
  /\ IsCurrent(c)
  /\ wire' = [wire EXCEPT ![c] = "off"]
  /\ sess' = [sess EXCEPT ![c] = NoSession]
  /\ UNCHANGED <<rooms, roomVars, slotVars, view, clock, issued, known, ghostVars>>
Disconnect(c) ==
  /\ IsCurrent(c)
  /\ LET r == sess[c].room
         hold == [conn[r] EXCEPT ![sess[c].id] = NoConn]
         told == [d \in Conns |-> [view[d] EXCEPT !.roster = Disconnected(@, {sess[c].id})]]
     IN Broadcast(r, hold, [wire EXCEPT ![c] = "off"], emptySince[r], Up(hold), told, {})
  /\ sess' = [sess EXCEPT ![c] = NoSession]
  /\ UNCHANGED <<rooms, destroyed, desc, started, occupied, token, lastSeenAt, clock, issued, known, heard>>

\* The reader returns with no session, or one that lost its slot.
ReaderEnds(c) ==
  /\ wire[c] # "off" /\ ~IsCurrent(c)
  /\ wire' = [wire EXCEPT ![c] = "off"]
  /\ sess' = [sess EXCEPT ![c] = NoSession]
  /\ UNCHANGED <<rooms, roomVars, slotVars, view, clock, issued, known, ghostVars>>

Tick ==
  /\ clock < MaxClock
  /\ clock' = clock + 1
  /\ UNCHANGED <<rooms, roomVars, slotVars, connVars, issued, known, ghostVars>>

-----------------------------------------------------------------------------
JoinOrClaim(c, code, app, t) ==
  \/ \E resume \in known : JoinResume(c, code, app, resume, t)
  \/ \E resume \in known \cup {NoToken} : JoinFresh(c, code, app, resume, t)
  \/ \E opts \in CreateOptions : JoinCreate(c, code, app, opts, t)
  \/ \E opts \in CreateOptions : JoinCreateFails(c, code, app, opts, t)
  \/ \E i \in Ids : ClaimFree(c, code, app, i, t)
  \/ \E i \in Ids : ClaimSilent(c, code, app, i, t)

Next ==
  \/ Tick
  \/ \E t \in Times : GC(t)
  \/ \E c \in Conns :
       \/ Connect(c) \/ WriterFails(c) \/ Disconnect(c) \/ ReaderEnds(c)
       \/ Leave(c) \/ LeaveStale(c)
       \/ \E t \in Times :
            \/ Touch(c, t)
            \/ \E to \in Ids : Signal(c, to, t) \/ SignalDropsTarget(c, to, t)
            \/ \E code \in Codes, app \in Apps : JoinOrClaim(c, code, app, t)

Spec == Init /\ [][Next]_vars

\* Once a transport is shut its writer closes the socket, within the write
\* timeout, and the pending read returns.
LiveSpec ==
  Spec /\ \A c \in Conns : WF_vars(Shut(c) /\ (Disconnect(c) \/ ReaderEnds(c)))

-----------------------------------------------------------------------------
(* Properties *)

\* Every variable has its type, and a room that is not destroyed has its options.
TypeOK ==
  /\ rooms \in [Codes -> Rooms \cup {NoRoom}]
  /\ destroyed \in [Rooms -> BOOLEAN]
  /\ desc \in [Rooms -> RoomDesc \cup {NoDesc}]
  /\ \A r \in Rooms : ~destroyed[r] => desc[r] \in RoomDesc
  /\ started \in [Rooms -> BOOLEAN]
  /\ emptySince \in [Rooms -> 0 .. MaxClock \cup {NoTime}]
  /\ occupied \in [Rooms -> [Ids -> BOOLEAN]]
  /\ conn \in [Rooms -> [Ids -> Conns \cup {NoConn}]]
  /\ token \in [Rooms -> [Ids -> 0 .. MaxTokens]]
  /\ lastSeenAt \in [Rooms -> [Ids -> 0 .. MaxClock]]
  /\ wire \in [Conns -> WireStates]
  /\ sess \in [Conns -> Session \cup {NoSession}]
  /\ view \in [Conns -> View]
  /\ clock \in 0 .. MaxClock
  /\ issued \in 0 .. MaxTokens
  /\ known \in SUBSET (1 .. MaxTokens)
  /\ heard \in [Rooms -> [Ids -> 0 .. MaxClock]]
  /\ vacantAt \in [Rooms -> 0 .. MaxClock]

\* A transport attached to a slot is that of a reader whose session is for this
\* very slot, on a room that is not destroyed, and the slot is occupied: so no
\* transport is attached twice, in one room or in two, whatever joins, leaves,
\* resumes, claims and collections came before.
AttachedBySession ==
  \A r \in Rooms, i \in Ids :
    conn[r][i] # NoConn =>
      /\ ~destroyed[r] /\ occupied[r][i]
      /\ sess[conn[r][i]] = [room |-> r, id |-> i]
      /\ wire[conn[r][i]] # "off"

\* A reader that still believes it holds a slot which it lost (superseded,
\* replaced, dropped, expired) has had its transport shut: no client is left
\* connected, waiting for messages, on a slot that is not its own any more.
NoZombie ==
  \A c \in Conns : sess[c] # NoSession /\ ~IsCurrent(c) => Shut(c)

\* emptySince is zero exactly while some transport is attached, for every room
\* in the map: after a failed creation, a refused joined message, a slow
\* consumer and its cascade as much as after a leave or a disconnect.  It is
\* what the collection of rooms by EmptyTTL rests on.
EmptySinceExact ==
  \A r \in Rooms : ~destroyed[r] => (emptySince[r] = NoTime <=> Up(conn[r]) # {})

\* The rooms that are not destroyed are those of the map, each under one code.
RoomsLinked ==
  /\ \A r \in Rooms : ~destroyed[r] <=> r \in Live
  /\ \A k, l \in Codes : rooms[k] = rooms[l] /\ rooms[k] # NoRoom => k = l

\* The map and the destroyed flags agree, a room is reachable under one code
\* only, and the map never outgrows MaxRooms, whether a join swept it or not.
RoomMapSound == RoomsLinked /\ Cardinality(Live) <= MaxRooms

\* An attached player's token was sent to a client, and no other occupied slot
\* answers to it: a player whose transport works can always come back to its
\* own slot, and only to that one.
ResumeRoutes ==
  \A r, q \in Rooms, i, j \in Ids :
    /\ conn[r][i] # NoConn => token[r][i] \in known
    /\ occupied[r][i] /\ occupied[q][j] /\ token[r][i] = token[q][j] => r = q /\ i = j

\* A room without waitUntilFull has started once it has a player, and one with
\* it has started once all its slots are occupied, by whichever of join and
\* claim the last one was.
StartedWhenDue ==
  \A r \in Rooms :
    /\ ~destroyed[r] /\ ~Opts(r).waitUntilFull /\ (\E i \in Ids : occupied[r][i]) => started[r]
    /\ ~destroyed[r] /\ (\A i \in Slots(r) : occupied[r][i]) => started[r]

\* What an attached client knows once it has read everything queued for it: the
\* slots that are taken, that the others with a transport are connected, and
\* whether the room has started.
RosterSound ==
  \A r \in Rooms, i \in Ids :
    conn[r][i] # NoConn =>
      LET known_ == view[conn[r][i]]
      IN /\ known_.started = started[r]
         /\ \A j \in Ids : known_.roster[j] = "free" <=> ~occupied[r][j]
         /\ \A j \in Ids : conn[r][j] # NoConn => known_.roster[j] = "here"

\* The same with "connected" exact: every lost transport was announced.
RosterExact ==
  \A r \in Rooms, i \in Ids :
    conn[r][i] # NoConn => view[conn[r][i]].roster = Snapshot(occupied[r], conn[r])

\* A room is destroyed only MaxTTL after its creation, or when it has had no
\* transport for EmptyTTL; a stale clock reading may bring that forward by no
\* more than MaxLag.
NotCollectedEarly ==
  [][\A r \in Rooms :
       ~destroyed[r] /\ destroyed'[r] =>
         \/ clock - desc[r].createdAt >= MaxTTL
         \/ Up(conn[r]) = {} /\ clock - vacantAt[r] >= EmptyTTL - MaxLag]_vars

\* An occupied slot passes to another client (it gets a new token) with a token
\* only if the room allows reconnection.  Otherwise, and whenever a live holder
\* is told that it was replaced, the room's policy allowed claims and no message
\* of the holder had been handled for claimAfter, less the age MaxLag of clock
\* readings: traffic that races with a claim is not lost on it.
ClaimedOnlyAfterSilence ==
  [][\A r \in Rooms, i \in Ids :
       /\ ~destroyed[r] /\ ~destroyed'[r] /\ occupied[r][i] /\ occupied'[r][i]
       /\ token'[r][i] # token[r][i]
       /\ Opts(r).allowReconnect =>
            conn[r][i] # NoConn /\ wire[conn[r][i]] = "open" /\ wire'[conn[r][i]] = "replaced"
       => /\ Opts(r).allowReplacement /\ Opts(r).policyAllowsClaim
          /\ clock - heard[r][i] >= Opts(r).claimAfter - MaxLag]_vars

\* In a started room without allowLateJoin a free slot is only ever taken by a
\* claim that the room's policy permits.
LateJoinBarred ==
  [][\A r \in Rooms, i \in Ids :
       ~destroyed[r] /\ ~destroyed'[r] /\ started[r] /\ ~occupied[r][i] /\ occupied'[r][i]
         => Opts(r).allowLateJoin \/ (Opts(r).allowReplacement /\ Opts(r).policyAllowsClaim)]_vars

\* A transport that was shut while attached does not hold its slot for ever.
ShutIsDetached ==
  \A r \in Rooms, i \in Ids, c \in Conns :
    (conn[r][i] = c /\ Shut(c)) ~> conn[r][i] # c
=============================================================================
