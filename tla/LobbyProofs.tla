---------------------------- MODULE LobbyProofs ----------------------------
(***************************************************************************)
(* Proofs about Lobby for every number of rooms, codes, transports and     *)
(* slots, every set of room options and every bound.                       *)
(***************************************************************************)
EXTENDS Lobby, FiniteSetTheorems, TLAPS

Holding == [Ids -> Conns \cup {NoConn}]
Wires == [Conns -> WireStates]
Time == 0 .. MaxClock

-----------------------------------------------------------------------------
(* Typing *)

\* The clock readings an operation may work with are clock values.
LEMMA TimesType == TypeOK => Times \subseteq Time
BY BoundsAssumption DEF TypeOK, Times, Time

\* Kicking transports leaves each with one of the reasons it may be shut for.
LEMMA KickedType ==
  ASSUME NEW w \in Wires, NEW cs, NEW reason \in WireStates
  PROVE  Kicked(w, cs, reason) \in Wires
BY DEF Kicked, Wires

\* A snapshot, and a roster with some players disconnected, are rosters.
LEMMA RosterType ==
  /\ \A occ, hold : Snapshot(occ, hold) \in [Ids -> Status]
  /\ \A roster \in [Ids -> Status] : \A gone : Disconnected(roster, gone) \in [Ids -> Status]
BY DEF Snapshot, Disconnected, Status

\* Clearing fields of collected rooms keeps their type.
LEMMA ForgetType ==
  ASSUME NEW T, NEW v \in T, NEW S
  PROVE  /\ \A f \in [Rooms -> T] : ForgetRoom(f, S, v) \in [Rooms -> T]
         /\ \A f \in [Rooms -> [Ids -> T]] : Forget(f, S, v) \in [Rooms -> [Ids -> T]]
BY DEF Forget, ForgetRoom

\* What broadcastLocked changes keeps its type.
LEMMA BroadcastType ==
  ASSUME TypeOK, NEW r \in Rooms, NEW hold \in Holding, NEW w \in Wires,
         NEW since \in Time \cup {NoTime}, NEW first, NEW told \in [Conns -> View], NEW swept,
         Broadcast(r, hold, w, since, first, told, swept)
  PROVE  /\ conn' \in [Rooms -> Holding]
         /\ wire' \in Wires
         /\ emptySince' \in [Rooms -> Time \cup {NoTime}]
         /\ vacantAt' \in [Rooms -> Time]
         /\ view' \in [Conns -> View]
<1>1. PICK D \in Drops(hold, w, first) : BroadcastLosing(D, r, hold, w, since, told, swept)
  BY DEF Broadcast
<1>2. conn' \in [Rooms -> Holding]
  BY <1>1 DEF BroadcastLosing, TypeOK, Holding
<1>3. wire' \in Wires
  BY <1>1 DEF BroadcastLosing, Wires, WireStates, KickReasons
<1>4. emptySince' \in [Rooms -> Time \cup {NoTime}]
  BY <1>1, BoundsAssumption DEF BroadcastLosing, TypeOK, UpdateEmpty, Time
<1>5. vacantAt' \in [Rooms -> Time]
  BY <1>1, BoundsAssumption DEF BroadcastLosing, TypeOK, Time
<1>6. view' \in [Conns -> View]
  <2>1. \A c \in Conns : [told[c] EXCEPT !.roster = Disconnected(told[c].roster, D)] \in View
    BY RosterType DEF View
  <2>2. NoView \in View
    BY DEF NoView, View, Status
  <2> QED
    BY <1>1, <2>1, <2>2 DEF BroadcastLosing, TypeOK
<1> QED
  BY <1>2, <1>3, <1>4, <1>5, <1>6

\* What Attach changes keeps its type.
LEMMA AttachType ==
  ASSUME TypeOK, NEW r \in Rooms, NEW i \in Ids, NEW c \in Conns, NEW t \in Time,
         NEW occ \in [Ids -> BOOLEAN], NEW st \in BOOLEAN,
         NEW reason \in WireStates, NEW note, NEW swept,
         Attach(r, i, c, t, occ, st, reason, note, swept)
  PROVE  /\ occupied' \in [Rooms -> [Ids -> BOOLEAN]]
         /\ started' \in [Rooms -> BOOLEAN]
         /\ token' \in [Rooms -> [Ids -> 0 .. MaxTokens]]
         /\ lastSeenAt' \in [Rooms -> [Ids -> Time]]
         /\ heard' \in [Rooms -> [Ids -> Time]]
         /\ sess' \in [Conns -> Session \cup {NoSession}]
         /\ issued' \in 0 .. MaxTokens
         /\ known' \in SUBSET (1 .. MaxTokens)
         /\ conn' \in [Rooms -> Holding]
         /\ wire' \in Wires
         /\ emptySince' \in [Rooms -> Time \cup {NoTime}]
         /\ vacantAt' \in [Rooms -> Time]
         /\ view' \in [Conns -> View]
<1>1. issued' \in 0 .. MaxTokens /\ NewToken \in 1 .. MaxTokens
  BY BoundsAssumption DEF Attach, NewToken, TypeOK
<1>2. known' \in SUBSET (1 .. MaxTokens)
  BY <1>1 DEF Attach, Deliver, TypeOK
<1>3. occupied' \in [Rooms -> [Ids -> BOOLEAN]] /\ started' \in [Rooms -> BOOLEAN]
  <2>1. Forget(occupied, swept, FALSE) \in [Rooms -> [Ids -> BOOLEAN]]
    BY ForgetType DEF TypeOK
  <2>2. ForgetRoom(started, swept, FALSE) \in [Rooms -> BOOLEAN]
    BY ForgetType DEF TypeOK
  <2> QED
    BY <2>1, <2>2 DEF Attach
<1>4. token' \in [Rooms -> [Ids -> 0 .. MaxTokens]]
  <2>1. Forget(token, swept, NoToken) \in [Rooms -> [Ids -> 0 .. MaxTokens]]
    <3>1. NoToken \in 0 .. MaxTokens
      BY BoundsAssumption DEF NoToken
    <3> QED
      BY <3>1, ForgetType DEF TypeOK
  <2> QED
    BY <1>1, <2>1 DEF Attach
<1>5. lastSeenAt' \in [Rooms -> [Ids -> Time]] /\ heard' \in [Rooms -> [Ids -> Time]]
  <2>1. 0 \in Time /\ clock \in Time
    BY BoundsAssumption DEF TypeOK, Time
  <2>2. Forget(lastSeenAt, swept, 0) \in [Rooms -> [Ids -> Time]]
    BY <2>1, ForgetType DEF TypeOK, Time
  <2>3. Forget(heard, swept, 0) \in [Rooms -> [Ids -> Time]]
    BY <2>1, ForgetType DEF TypeOK, Time
  <2> QED
    BY <2>1, <2>2, <2>3 DEF Attach
<1>6. sess' \in [Conns -> Session \cup {NoSession}]
  BY DEF Attach, TypeOK, Session
<1>7. PICK delivered \in BOOLEAN : Deliver(delivered, r, i, c, t, occ, st, reason, note, swept)
  BY DEF Attach
<1> DEFINE hold == Seated(r, i, c, delivered)
           w == AfterKicks(r, i, c, delivered, reason, swept)
           since == UpdateEmpty(NoTime, Up(hold), t)
           told == Told(r, i, c, hold, occ, st, note)
<1>8. hold \in Holding
  BY DEF Seated, TypeOK, Holding
<1>9. w \in Wires
  BY KickedType DEF AfterKicks, TypeOK, Wires, WireStates, KickReasons
<1>10. since \in Time \cup {NoTime}
  BY DEF UpdateEmpty
<1>11. told \in [Conns -> View]
  <2>1. \A roster \in [Ids -> Status], b \in BOOLEAN : [roster |-> roster, started |-> b] \in View
    BY DEF View
  <2>2. \A d \in Conns : [view[d] EXCEPT !.roster[i] = "here"] \in View
    BY ZenonT(30) DEF View, TypeOK, Status
  <2>3. \A d \in Conns : view[d].started \in BOOLEAN /\ (view[d].started \/ (st /\ ~started[r])) \in BOOLEAN
    BY DEF View, TypeOK
  <2> QED
    BY <2>1, <2>2, <2>3, RosterType DEF Told
<1>12. Broadcast(r, hold, w, since, Up(hold) \ {i}, told, swept)
  BY <1>7 DEF Deliver
<1> QED
  BY <1>1, <1>2, <1>3, <1>4, <1>5, <1>6, <1>8, <1>9, <1>10, <1>11, <1>12, BroadcastType

\* Options and slots of a room that is not destroyed.
LEMMA OptionsType ==
  ASSUME TypeOK, NEW r \in Rooms, ~destroyed[r]
  PROVE  Opts(r) \in CreateOptions /\ Slots(r) \subseteq Ids
<1>1. Opts(r) \in CreateOptions
  BY DEF TypeOK, RoomDesc, Opts
<1>2. Opts(r).maxPlayers \in 1 .. MaxPlayersHard
  BY <1>1, BoundsAssumption DEF RoomOptions
<1> QED
  BY <1>1, <1>2, BoundsAssumption DEF Slots, Ids

\* occupyLocked passes a typed slot table and started flag on to Attach.
LEMMA OccupyType ==
  ASSUME TypeOK, NEW r \in Rooms, NEW i \in Ids, NEW c \in Conns, NEW t, NEW opts, NEW swept,
         opts \in RoomOptions, Occupy(r, i, c, t, opts, swept)
  PROVE  \E occ \in [Ids -> BOOLEAN], st \in BOOLEAN :
            Attach(r, i, c, t, occ, st, "session-superseded", "player-joined", swept)
<1> DEFINE occ == [occupied[r] EXCEPT ![i] = TRUE]
<1>1. occ \in [Ids -> BOOLEAN]
  BY DEF TypeOK
<1>2. Starts(r, occ, opts) \in BOOLEAN
  BY DEF TypeOK, Starts, RoomOptions
<1> QED
  BY <1>1, <1>2 DEF Occupy

\* A room that is created is typed, and the others are as they were or destroyed.
LEMMA CreateType ==
  ASSUME TypeOK, NEW r \in Rooms, NEW code \in Codes, NEW app \in Apps,
         NEW opts \in CreateOptions, NEW t \in Time, Create(r, code, app, opts, t)
  PROVE  /\ rooms' \in [Codes -> Rooms \cup {NoRoom}]
         /\ destroyed' \in [Rooms -> BOOLEAN]
         /\ desc' \in [Rooms -> RoomDesc \cup {NoDesc}]
         /\ \A q \in Rooms : ~destroyed'[q] => desc'[q] \in RoomDesc
<1> DEFINE swept == SweptByJoin(t)
           d == [appID |-> app, opts |-> opts, createdAt |-> t]
<1>1. d \in RoomDesc
  BY DEF RoomDesc, Time
<1>2. rooms' \in [Codes -> Rooms \cup {NoRoom}]
  BY DEF Create, TypeOK
<1>3. destroyed' = [[q \in Rooms |-> IF q \in swept THEN TRUE ELSE destroyed[q]] EXCEPT ![r] = FALSE]
  BY DEF Create, ForgetRoom
<1>4. desc' = [[q \in Rooms |-> IF q \in swept THEN NoDesc ELSE desc[q]] EXCEPT ![r] = d]
  BY DEF Create, ForgetRoom
<1> QED
  BY <1>1, <1>2, <1>3, <1>4 DEF TypeOK

\* Collecting rooms keeps every type.
LEMMA CollectType ==
  ASSUME TypeOK, NEW S, Collect(S), UNCHANGED <<sess, clock, issued, known>>
  PROVE  TypeOK'
<1>0. NoToken \in 0 .. MaxTokens /\ 0 \in Time /\ NoTime \in Time \cup {NoTime}
  BY BoundsAssumption DEF NoToken, Time
<1>1. rooms' \in [Codes -> Rooms \cup {NoRoom}]
  BY DEF Collect, TypeOK
<1>2. /\ destroyed' \in [Rooms -> BOOLEAN]
      /\ desc' \in [Rooms -> RoomDesc \cup {NoDesc}]
      /\ \A q \in Rooms : ~destroyed'[q] => desc'[q] \in RoomDesc
  BY DEF Collect, ForgetRoom, TypeOK
<1>3. /\ started' \in [Rooms -> BOOLEAN]
      /\ occupied' \in [Rooms -> [Ids -> BOOLEAN]]
  BY DEF Collect, ForgetRoom, Forget, TypeOK
<1>4. conn' \in [Rooms -> Holding]
  BY DEF Collect, ForgetRoom, Forget, TypeOK, Holding
<1>5. token' \in [Rooms -> [Ids -> 0 .. MaxTokens]]
  BY <1>0 DEF Collect, ForgetRoom, Forget, TypeOK
<1>6. /\ lastSeenAt' \in [Rooms -> [Ids -> Time]]
      /\ heard' \in [Rooms -> [Ids -> Time]]
  BY <1>0 DEF Collect, ForgetRoom, Forget, TypeOK, Time
<1>7. /\ emptySince' \in [Rooms -> Time \cup {NoTime}]
      /\ vacantAt' \in [Rooms -> Time]
  BY <1>0 DEF Collect, ForgetRoom, TypeOK, Time
<1>8. wire' \in Wires
  BY KickedType DEF Collect, TypeOK, Wires, WireStates, KickReasons
<1>9. view' \in [Conns -> View]
  BY DEF Collect, TypeOK, NoView, View, Status
<1> QED
  BY <1>1, <1>2, <1>3, <1>4, <1>5, <1>6, <1>7, <1>8, <1>9 DEF TypeOK, Time, Holding, Wires

\* The room map and the rooms' descriptions stay typed when they do not change.
LEMMA SameRoomsType ==
  ASSUME TypeOK, UNCHANGED <<rooms, destroyed, desc>>
  PROVE  /\ rooms' \in [Codes -> Rooms \cup {NoRoom}]
         /\ destroyed' \in [Rooms -> BOOLEAN]
         /\ desc' \in [Rooms -> RoomDesc \cup {NoDesc}]
         /\ \A q \in Rooms : ~destroyed'[q] => desc'[q] \in RoomDesc
BY DEF TypeOK

\* The typing of the state that an operation on a slot leaves, when the room map,
\* the rooms' descriptions and the clock do not change.
LEMMA AttachTypeOK ==
  ASSUME TypeOK, NEW r \in Rooms, NEW i \in Ids, NEW c \in Conns, NEW t \in Time,
         NEW occ \in [Ids -> BOOLEAN], NEW st \in BOOLEAN,
         NEW reason \in WireStates, NEW note, NEW swept,
         Attach(r, i, c, t, occ, st, reason, note, swept), clock' = clock,
         rooms' \in [Codes -> Rooms \cup {NoRoom}],
         destroyed' \in [Rooms -> BOOLEAN],
         desc' \in [Rooms -> RoomDesc \cup {NoDesc}],
         \A q \in Rooms : ~destroyed'[q] => desc'[q] \in RoomDesc
  PROVE  TypeOK'
<1>1. /\ occupied' \in [Rooms -> [Ids -> BOOLEAN]]
      /\ started' \in [Rooms -> BOOLEAN]
      /\ token' \in [Rooms -> [Ids -> 0 .. MaxTokens]]
      /\ lastSeenAt' \in [Rooms -> [Ids -> Time]]
      /\ heard' \in [Rooms -> [Ids -> Time]]
      /\ sess' \in [Conns -> Session \cup {NoSession}]
      /\ issued' \in 0 .. MaxTokens
      /\ known' \in SUBSET (1 .. MaxTokens)
      /\ conn' \in [Rooms -> Holding]
      /\ wire' \in Wires
      /\ emptySince' \in [Rooms -> Time \cup {NoTime}]
      /\ vacantAt' \in [Rooms -> Time]
      /\ view' \in [Conns -> View]
  BY AttachType
<1>2. clock' \in Time
  BY DEF TypeOK, Time
<1> QED
  BY <1>1, <1>2 DEF TypeOK, Holding, Wires, Time

\* A failed creation keeps every type.
LEMMA CreateFailsType ==
  ASSUME TypeOK, NEW c \in Conns, NEW code \in Codes, NEW app \in Apps,
         NEW opts \in CreateOptions, NEW t \in Time, JoinCreateFails(c, code, app, opts, t)
  PROVE  TypeOK'
<1>0. NoToken \in 0 .. MaxTokens /\ 0 \in Time
  BY BoundsAssumption DEF NoToken, Time
<1> DEFINE S == SweptByJoin(t)
<1>1. PICK r \in Rooms : Create(r, code, app, opts, t) /\ Abandon(r, t, S)
  BY DEF JoinCreateFails, Unused
<1>2. /\ started' \in [Rooms -> BOOLEAN]
      /\ occupied' \in [Rooms -> [Ids -> BOOLEAN]]
  BY <1>1 DEF Abandon, ForgetRoom, Forget, TypeOK
<1>3. conn' \in [Rooms -> Holding]
  BY <1>1 DEF Abandon, ForgetRoom, Forget, TypeOK, Holding
<1>4. token' \in [Rooms -> [Ids -> 0 .. MaxTokens]]
  BY <1>0, <1>1 DEF Abandon, ForgetRoom, Forget, TypeOK
<1>5. /\ lastSeenAt' \in [Rooms -> [Ids -> Time]]
      /\ heard' \in [Rooms -> [Ids -> Time]]
  BY <1>0, <1>1 DEF Abandon, ForgetRoom, Forget, TypeOK, Time
<1>6. /\ emptySince' \in [Rooms -> Time \cup {NoTime}]
      /\ vacantAt' \in [Rooms -> Time]
  BY <1>0, <1>1 DEF Abandon, ForgetRoom, TypeOK, Time
<1>7. wire' \in Wires
  BY <1>1, KickedType DEF Abandon, TypeOK, Wires, WireStates, KickReasons
<1>8. view' \in [Conns -> View]
  BY <1>1 DEF Abandon, TypeOK, NoView, View, Status
<1>9. UNCHANGED <<sess, clock, issued, known>>
  BY DEF JoinCreateFails
<1> QED
  BY <1>1, <1>2, <1>3, <1>4, <1>5, <1>6, <1>7, <1>8, <1>9, CreateType DEF TypeOK, Time, Holding, Wires

\* A joining transport gets a typed slot, whichever way it asks.
LEMMA JoinOrClaimType ==
  ASSUME TypeOK, NEW c \in Conns, NEW code \in Codes, NEW app \in Apps, NEW t \in Times,
         JoinOrClaim(c, code, app, t)
  PROVE  TypeOK'
<1> DEFINE r == rooms[code]
<1>1. t \in Time /\ {"session-superseded", "replaced"} \subseteq WireStates
  BY TimesType DEF WireStates, KickReasons
<1>2. MayEnter(c, code, app) => /\ r \in Rooms /\ ~destroyed[r]
                                /\ Opts(r) \in CreateOptions /\ Opts(r) \in RoomOptions
                                /\ Slots(r) \subseteq Ids
                                /\ occupied[r] \in [Ids -> BOOLEAN] /\ started[r] \in BOOLEAN
  BY OptionsType, BoundsAssumption DEF MayEnter, TypeOK
<1>3. CASE \E resume \in known : JoinResume(c, code, app, resume, t)
  <2>1. PICK i \in Ids : Attach(r, i, c, t, occupied[r], started[r], "session-superseded", "player-rejoined", {})
    BY <1>3 DEF JoinResume, Matching
  <2>2. r \in Rooms /\ occupied[r] \in [Ids -> BOOLEAN] /\ started[r] \in BOOLEAN
    BY <1>2, <1>3 DEF JoinResume
  <2>3. UNCHANGED <<rooms, destroyed, desc, clock>>
    BY <1>3 DEF JoinResume
  <2> QED
    BY <1>1, <2>1, <2>2, <2>3, SameRoomsType, AttachTypeOK
<1>4. CASE \E resume \in known \cup {NoToken} : JoinFresh(c, code, app, resume, t)
  <2>1. MayEnter(c, code, app) /\ UNCHANGED <<rooms, destroyed, desc, clock>>
    BY <1>4 DEF JoinFresh
  <2>2. PICK i \in Slots(r) : Occupy(r, i, c, t, Opts(r), {})
    BY <1>4 DEF JoinFresh
  <2>3. PICK occ \in [Ids -> BOOLEAN], st \in BOOLEAN :
          Attach(r, i, c, t, occ, st, "session-superseded", "player-joined", {})
    BY <1>2, <2>1, <2>2, OccupyType
  <2> QED
    BY <1>1, <1>2, <2>1, <2>3, SameRoomsType, AttachTypeOK
<1>5. CASE \E opts \in CreateOptions : JoinCreate(c, code, app, opts, t)
  <2>1. PICK opts \in CreateOptions, q \in Rooms :
          Create(q, code, app, opts, t) /\ Occupy(q, 0, c, t, opts, SweptByJoin(t))
    BY <1>5 DEF JoinCreate, Unused
  <2>2. 0 \in Ids /\ opts \in RoomOptions /\ clock' = clock
    BY <1>5, BoundsAssumption DEF Ids, JoinCreate
  <2>3. PICK occ \in [Ids -> BOOLEAN], st \in BOOLEAN :
          Attach(q, 0, c, t, occ, st, "session-superseded", "player-joined", SweptByJoin(t))
    BY <2>1, <2>2, OccupyType
  <2> QED
    BY <1>1, <2>1, <2>2, <2>3, CreateType, AttachTypeOK
<1>6. CASE \E opts \in CreateOptions : JoinCreateFails(c, code, app, opts, t)
  <2>1. PICK opts \in CreateOptions : JoinCreateFails(c, code, app, opts, t)
    BY <1>6
  <2> QED
    BY <1>1, <2>1, CreateFailsType
<1>7. CASE \E i \in Ids : ClaimFree(c, code, app, i, t)
  <2>1. PICK i \in Ids : Occupy(r, i, c, t, Opts(r), {})
    BY <1>7 DEF ClaimFree
  <2>2. MayEnter(c, code, app) /\ UNCHANGED <<rooms, destroyed, desc, clock>>
    BY <1>7 DEF ClaimFree, MayClaim
  <2>3. PICK occ \in [Ids -> BOOLEAN], st \in BOOLEAN :
          Attach(r, i, c, t, occ, st, "session-superseded", "player-joined", {})
    BY <1>2, <2>1, <2>2, OccupyType
  <2> QED
    BY <1>1, <1>2, <2>2, <2>3, SameRoomsType, AttachTypeOK
<1>8. CASE \E i \in Ids : ClaimSilent(c, code, app, i, t)
  <2>1. PICK i \in Ids : Attach(r, i, c, t, occupied[r], started[r], "replaced", "player-rejoined", {})
    BY <1>8 DEF ClaimSilent
  <2>2. r \in Rooms /\ occupied[r] \in [Ids -> BOOLEAN] /\ started[r] \in BOOLEAN
    BY <1>2, <1>8 DEF ClaimSilent, MayClaim
  <2>3. UNCHANGED <<rooms, destroyed, desc, clock>>
    BY <1>8 DEF ClaimSilent
  <2> QED
    BY <1>1, <2>1, <2>2, <2>3, SameRoomsType, AttachTypeOK
<1> QED
  BY <1>3, <1>4, <1>5, <1>6, <1>7, <1>8 DEF JoinOrClaim

\* A current session is one of a room that is not destroyed, whose slot the
\* transport holds.
LEMMA CurrentType ==
  ASSUME TypeOK, NEW c \in Conns, IsCurrent(c)
  PROVE  /\ sess[c] \in Session /\ sess[c].room \in Rooms /\ sess[c].id \in Ids
         /\ ~destroyed[sess[c].room] /\ occupied[sess[c].room][sess[c].id]
         /\ conn[sess[c].room][sess[c].id] = c
BY DEF TypeOK, IsCurrent, Session

\* Recording activity keeps the types.
LEMMA SeenType ==
  ASSUME TypeOK, NEW c \in Conns, IsCurrent(c), NEW t \in Time, Seen(c, t)
  PROVE  /\ lastSeenAt' \in [Rooms -> [Ids -> Time]]
         /\ heard' \in [Rooms -> [Ids -> Time]]
BY CurrentType DEF TypeOK, Seen, Time

\* A session's own departure, and that of a player it signals, are broadcasts of
\* typed arguments.
LEMMA DepartureType ==
  ASSUME TypeOK, NEW r \in Rooms, NEW i \in Ids
  PROVE  /\ [conn[r] EXCEPT ![i] = NoConn] \in Holding
         /\ [d \in Conns |-> [view[d] EXCEPT !.roster = Disconnected(@, {i})]] \in [Conns -> View]
         /\ [d \in Conns |-> [view[d] EXCEPT !.roster[i] = "free"]] \in [Conns -> View]
         /\ emptySince[r] \in Time \cup {NoTime}
<1>1. \A d \in Conns : [view[d] EXCEPT !.roster = Disconnected(view[d].roster, {i})] \in View
  BY RosterType DEF TypeOK, View
<1>2. \A d \in Conns : [view[d] EXCEPT !.roster[i] = "free"] \in View
  BY DEF TypeOK, View, Status
<1> QED
  BY <1>1, <1>2 DEF TypeOK, Holding, Time

LEMMA SignalDropsType ==
  ASSUME TypeOK, NEW c \in Conns, NEW to \in Ids, NEW t \in Time, SignalDropsTarget(c, to, t)
  PROVE  TypeOK'
<1> DEFINE r == sess[c].room
           hold == [conn[r] EXCEPT ![to] = NoConn]
           told == [d \in Conns |-> [view[d] EXCEPT !.roster = Disconnected(@, {to})]]
           w == Kicked(wire, {conn[r][to]}, "slow-consumer")
<1>1. r \in Rooms
  BY CurrentType DEF SignalDropsTarget
<1>2. Broadcast(r, hold, w, emptySince[r], Up(hold), told, {})
  BY DEF SignalDropsTarget
<1>3. w \in Wires
  BY KickedType DEF TypeOK, Wires, WireStates, KickReasons
<1>4. hold \in Holding /\ told \in [Conns -> View] /\ emptySince[r] \in Time \cup {NoTime}
  BY <1>1, DepartureType
<1>5. /\ conn' \in [Rooms -> Holding] /\ wire' \in Wires /\ view' \in [Conns -> View]
      /\ emptySince' \in [Rooms -> Time \cup {NoTime}] /\ vacantAt' \in [Rooms -> Time]
  BY <1>1, <1>2, <1>3, <1>4, BroadcastType
<1>6. /\ lastSeenAt' \in [Rooms -> [Ids -> Time]] /\ heard' \in [Rooms -> [Ids -> Time]]
      /\ UNCHANGED <<rooms, destroyed, desc, started, occupied, token, sess, clock, issued, known>>
  BY SeenType DEF SignalDropsTarget
<1> QED
  BY <1>5, <1>6 DEF TypeOK, Holding, Wires, Time

LEMMA LeaveType ==
  ASSUME TypeOK, NEW c \in Conns, Leave(c)
  PROVE  TypeOK'
<1> DEFINE r == sess[c].room
           i == sess[c].id
           hold == [conn[r] EXCEPT ![i] = NoConn]
           told == [d \in Conns |-> [view[d] EXCEPT !.roster[i] = "free"]]
<1>1. r \in Rooms /\ i \in Ids
  BY CurrentType DEF Leave
<1>2. Broadcast(r, hold, wire, emptySince[r], Up(hold), told, {})
  BY DEF Leave
<1>3. /\ hold \in Holding /\ told \in [Conns -> View] /\ emptySince[r] \in Time \cup {NoTime}
      /\ wire \in Wires
  BY <1>1, DepartureType DEF TypeOK, Wires
<1>4. /\ conn' \in [Rooms -> Holding] /\ wire' \in Wires /\ view' \in [Conns -> View]
      /\ emptySince' \in [Rooms -> Time \cup {NoTime}] /\ vacantAt' \in [Rooms -> Time]
  BY <1>1, <1>2, <1>3, BroadcastType
<1>5. NoToken \in 0 .. MaxTokens
  BY BoundsAssumption DEF NoToken
<1>6. /\ occupied' = [occupied EXCEPT ![r][i] = FALSE] /\ token' = [token EXCEPT ![r][i] = NoToken]
      /\ sess' = [sess EXCEPT ![c] = NoSession]
      /\ UNCHANGED <<rooms, destroyed, desc, started, lastSeenAt, clock, issued, known, heard>>
  BY DEF Leave
<1> QED
  BY <1>1, <1>4, <1>5, <1>6 DEF TypeOK, Holding, Wires, Time

LEMMA DisconnectType ==
  ASSUME TypeOK, NEW c \in Conns, Disconnect(c)
  PROVE  TypeOK'
<1> DEFINE r == sess[c].room
           i == sess[c].id
           hold == [conn[r] EXCEPT ![i] = NoConn]
           told == [d \in Conns |-> [view[d] EXCEPT !.roster = Disconnected(@, {i})]]
           w == [wire EXCEPT ![c] = "off"]
<1>1. r \in Rooms /\ i \in Ids
  BY CurrentType DEF Disconnect
<1>2. Broadcast(r, hold, w, emptySince[r], Up(hold), told, {})
  BY DEF Disconnect
<1>3. /\ hold \in Holding /\ told \in [Conns -> View] /\ emptySince[r] \in Time \cup {NoTime}
      /\ w \in Wires
  BY <1>1, DepartureType DEF TypeOK, Wires, WireStates
<1>4. /\ conn' \in [Rooms -> Holding] /\ wire' \in Wires /\ view' \in [Conns -> View]
      /\ emptySince' \in [Rooms -> Time \cup {NoTime}] /\ vacantAt' \in [Rooms -> Time]
  BY <1>1, <1>2, <1>3, BroadcastType
<1>5. /\ sess' = [sess EXCEPT ![c] = NoSession]
      /\ UNCHANGED <<rooms, destroyed, desc, started, occupied, token, lastSeenAt, clock, issued, known, heard>>
  BY DEF Disconnect
<1> QED
  BY <1>1, <1>4, <1>5 DEF TypeOK, Holding, Wires, Time

\* Every step keeps every type.
LEMMA TypeStep == TypeOK /\ [Next]_vars => TypeOK'
<1> SUFFICES ASSUME TypeOK, [Next]_vars
             PROVE  TypeOK'
  OBVIOUS
<1>0. Times \subseteq Time
  BY TimesType
<1>1. CASE Tick
  BY <1>1, BoundsAssumption DEF Tick, TypeOK, roomVars, slotVars, connVars, ghostVars
<1>2. CASE \E t \in Times : GC(t)
  BY <1>2, CollectType DEF GC
<1>3. ASSUME NEW c \in Conns, Connect(c) \/ WriterFails(c) \/ ReaderEnds(c)
      PROVE  TypeOK'
  BY <1>3 DEF Connect, WriterFails, ReaderEnds, TypeOK, WireStates, roomVars, slotVars, ghostVars
<1>4. ASSUME NEW c \in Conns, Disconnect(c) \/ Leave(c)
      PROVE  TypeOK'
  BY <1>4, DisconnectType, LeaveType
<1>5. ASSUME NEW c \in Conns, LeaveStale(c)
      PROVE  TypeOK'
  BY <1>5 DEF LeaveStale, TypeOK, roomVars, slotVars, ghostVars
<1>6. ASSUME NEW c \in Conns, NEW t \in Times, NEW to \in Ids, Touch(c, t) \/ Signal(c, to, t)
      PROVE  TypeOK'
  <2>1. lastSeenAt' \in [Rooms -> [Ids -> Time]] /\ heard' \in [Rooms -> [Ids -> Time]]
    BY <1>0, <1>6, SeenType DEF Touch, Signal
  <2>2. UNCHANGED <<rooms, roomVars, occupied, conn, token, connVars, clock, issued, known, vacantAt>>
    BY <1>6 DEF Touch, Signal
  <2> QED
    BY <2>1, <2>2 DEF TypeOK, Time, roomVars, connVars
<1>7. ASSUME NEW c \in Conns, NEW t \in Times, NEW to \in Ids, SignalDropsTarget(c, to, t)
      PROVE  TypeOK'
  BY <1>0, <1>7, SignalDropsType
<1>8. ASSUME NEW c \in Conns, NEW t \in Times, NEW code \in Codes, NEW app \in Apps,
             JoinOrClaim(c, code, app, t)
      PROVE  TypeOK'
  BY <1>8, JoinOrClaimType
<1>9. CASE UNCHANGED vars
  BY <1>9 DEF vars, TypeOK, roomVars, slotVars, connVars, ghostVars
<1>10. 0 \in Ids
  BY BoundsAssumption DEF Ids
<1> QED
  BY <1>1, <1>2, <1>3, <1>4, <1>5, <1>6, <1>7, <1>8, <1>9, <1>10 DEF Next

LEMMA TypeInit == Init => TypeOK
<1> SUFFICES ASSUME Init PROVE TypeOK
  OBVIOUS
<1>1. 0 \in 0 .. MaxClock /\ 0 \in 0 .. MaxTokens
  BY BoundsAssumption
<1> QED
  BY <1>1 DEF Init, TypeOK, NoToken, WireStates, NoView, View, Status

\* Type correctness, for every value of the constants.
THEOREM TypeCorrect == Spec => []TypeOK
BY TypeInit, TypeStep, PTL DEF Spec

-----------------------------------------------------------------------------
(* The room map *)

\* A step destroys collectable rooms, or sweeps some and creates one, or leaves
\* the rooms and their map alone.
LEMMA RoomStep ==
  ASSUME TypeOK, [Next]_vars
  PROVE  \/ \E t \in Times : GC(t)
         \/ \E t \in Times, r \in Unused, code \in Codes, app \in Apps, opts \in CreateOptions :
              Create(r, code, app, opts, t)
         \/ UNCHANGED <<rooms, destroyed, desc>>
<1>1. CASE Tick \/ UNCHANGED vars
  BY <1>1 DEF Tick, vars, roomVars
<1>2. ASSUME NEW c \in Conns, Connect(c) \/ WriterFails(c) \/ Disconnect(c) \/ ReaderEnds(c) \/ Leave(c) \/ LeaveStale(c)
      PROVE  UNCHANGED <<rooms, destroyed, desc>>
  BY <1>2 DEF Connect, WriterFails, Disconnect, ReaderEnds, Leave, LeaveStale, roomVars
<1>3. ASSUME NEW c \in Conns, NEW t \in Times, NEW to \in Ids,
             Touch(c, t) \/ Signal(c, to, t) \/ SignalDropsTarget(c, to, t)
      PROVE  UNCHANGED <<rooms, destroyed, desc>>
  BY <1>3 DEF Touch, Signal, SignalDropsTarget, roomVars
<1>4. ASSUME NEW c \in Conns, NEW t \in Times, NEW code \in Codes, NEW app \in Apps,
             JoinOrClaim(c, code, app, t)
      PROVE  \/ \E r \in Unused, opts \in CreateOptions : Create(r, code, app, opts, t)
             \/ UNCHANGED <<rooms, destroyed, desc>>
  BY <1>4 DEF JoinOrClaim, JoinResume, JoinFresh, JoinCreate, JoinCreateFails, ClaimFree, ClaimSilent
<1>5. 0 \in Ids
  BY BoundsAssumption DEF Ids
<1> QED
  BY <1>1, <1>2, <1>3, <1>4, <1>5 DEF Next

\* What becomes of the set of live rooms.
LEMMA LiveAfterCollect ==
  ASSUME TypeOK, NEW t, GC(t)
  PROVE  Live' = Live \ Collectable(t)
BY NullAssumption DEF TypeOK, GC, Collect, Live, Collectable

LEMMA LiveAfterCreate ==
  ASSUME TypeOK, NEW r \in Unused, NEW code \in Codes, NEW app, NEW opts, NEW t,
         Create(r, code, app, opts, t)
  PROVE  Live' = (Live \ SweptByJoin(t)) \cup {r}
<1>1. SweptByJoin(t) \subseteq Live
  BY DEF SweptByJoin, Collectable
<1> QED
  BY <1>1, NullAssumption DEF TypeOK, Create, Live, Unused

LEMMA RoomsLinkedStep == TypeOK /\ RoomsLinked /\ [Next]_vars => RoomsLinked'
<1> SUFFICES ASSUME TypeOK, RoomsLinked, [Next]_vars PROVE RoomsLinked'
  OBVIOUS
<1>1. ASSUME NEW t \in Times, GC(t) PROVE RoomsLinked'
  <2>1. Live' = Live \ Collectable(t)
    BY <1>1, LiveAfterCollect
  <2>2. \A q \in Rooms : destroyed'[q] <=> q \in Collectable(t) \/ destroyed[q]
    BY <1>1 DEF GC, Collect, ForgetRoom, TypeOK
  <2>3. \A k \in Codes : rooms'[k] = IF rooms[k] \in Collectable(t) THEN NoRoom ELSE rooms[k]
    BY <1>1 DEF GC, Collect
  <2> QED
    BY <2>1, <2>2, <2>3 DEF RoomsLinked
<1>2. ASSUME NEW t \in Times, NEW r \in Unused, NEW code \in Codes, NEW app \in Apps,
             NEW opts \in CreateOptions, Create(r, code, app, opts, t)
      PROVE  RoomsLinked'
  <2>1. Live' = (Live \ SweptByJoin(t)) \cup {r}
    BY <1>2, LiveAfterCreate
  <2>2. r \in Rooms \ Live /\ SweptByJoin(t) \subseteq Live
    BY DEF Unused, SweptByJoin, Collectable
  <2>3. \A q \in Rooms : destroyed'[q] <=> q # r /\ (q \in SweptByJoin(t) \/ destroyed[q])
    BY <1>2, <2>2 DEF Create, ForgetRoom, TypeOK
  <2>4. \A k \in Codes : rooms'[k] = IF k = code THEN r ELSE IF rooms[k] \in SweptByJoin(t) THEN NoRoom ELSE rooms[k]
    BY <1>2 DEF Create
  <2>5. \A k \in Codes : rooms[k] # r
    BY <2>2 DEF Live
  <2> QED
    BY <2>1, <2>2, <2>3, <2>4, <2>5 DEF RoomsLinked
<1>3. CASE UNCHANGED <<rooms, destroyed, desc>>
  BY <1>3 DEF RoomsLinked, Live
<1> QED
  BY <1>1, <1>2, <1>3, RoomStep

LEMMA RoomsLinkedInit == Init => RoomsLinked
BY NullAssumption DEF Init, RoomsLinked, Live

\* The map is finite and within its limit: a creation adds one room to a map that
\* had place for it after the sweep.
MapBounded == IsFiniteSet(Live) /\ Cardinality(Live) <= MaxRooms

LEMMA MapBoundedStep == TypeOK /\ MapBounded /\ [Next]_vars => MapBounded'
<1> SUFFICES ASSUME TypeOK, MapBounded, [Next]_vars PROVE MapBounded'
  OBVIOUS
<1>1. \A S : S \subseteq Live =>
         IsFiniteSet(S) /\ Cardinality(S) \in Nat /\ Cardinality(S) <= Cardinality(Live)
  BY FS_Subset, FS_CardinalityType DEF MapBounded
<1>2. Cardinality(Live) \in Nat
  BY <1>1
<1>3. ASSUME NEW t \in Times, GC(t) PROVE MapBounded'
  <2>1. Live' = Live \ Collectable(t)
    BY <1>3, LiveAfterCollect
  <2>2. Live \ Collectable(t) \subseteq Live
    OBVIOUS
  <2> QED
    BY <1>1, <1>2, <2>1, <2>2, BoundsAssumption DEF MapBounded
<1>4. ASSUME NEW t \in Times, NEW r \in Unused, NEW code \in Codes, NEW app \in Apps,
             NEW opts \in CreateOptions, Create(r, code, app, opts, t)
      PROVE  MapBounded'
  <2> DEFINE kept == Live \ SweptByJoin(t)
  <2>1. Live' = kept \cup {r}
    BY <1>4, LiveAfterCreate
  <2>2. IsFiniteSet(kept) /\ Cardinality(kept) \in Nat /\ Cardinality(kept) < MaxRooms
    BY <1>1, <1>4 DEF Create, HasCapacity
  <2>3. r \notin kept
    BY DEF Unused
  <2>4. IsFiniteSet(kept \cup {r}) /\ Cardinality(kept \cup {r}) = Cardinality(kept) + 1
    BY <2>2, <2>3, FS_AddElement
  <2> QED
    BY <2>1, <2>2, <2>4, BoundsAssumption DEF MapBounded
<1>5. CASE UNCHANGED <<rooms, destroyed, desc>>
  BY <1>5 DEF MapBounded, Live
<1> QED
  BY <1>3, <1>4, <1>5, RoomStep

LEMMA MapBoundedInit == Init => MapBounded
<1> SUFFICES ASSUME Init PROVE MapBounded
  OBVIOUS
<1>1. Live = {}
  BY NullAssumption DEF Init, Live
<1> QED
  BY <1>1, FS_EmptySet, BoundsAssumption DEF MapBounded

\* The room map is sound at every moment.
THEOREM RoomMapSafe == Spec => []RoomMapSound
<1>1. TypeOK /\ RoomsLinked /\ MapBounded => RoomMapSound
  BY DEF RoomMapSound, MapBounded
<1>2. Init => TypeOK /\ RoomsLinked /\ MapBounded
  BY TypeInit, RoomsLinkedInit, MapBoundedInit
<1>3. TypeOK /\ RoomsLinked /\ MapBounded /\ [Next]_vars => (TypeOK /\ RoomsLinked /\ MapBounded)'
  BY TypeStep, RoomsLinkedStep, MapBoundedStep
<1> QED
  BY <1>1, <1>2, <1>3, PTL DEF Spec

=============================================================================
