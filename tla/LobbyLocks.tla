---------------------------- MODULE LobbyLocks ----------------------------
(***************************************************************************)
(* The locks of lobby.go: Manager.mu and the Room.mu of each room, as the  *)
(* readers of the transports and the ticker take them.  What an operation  *)
(* does to a room is abstracted to who is attached afterwards.  Lobby has  *)
(* one step for each operation; Registry says what that step is, and that  *)
(* the locks make it one is what this module is about.                     *)
(***************************************************************************)
EXTENDS Naturals, FiniteSets

CONSTANTS
  Codes, Rooms,      \* room codes and identities of Room objects
  Readers, Ticker,   \* the goroutines: of the transports, and of lobbyserver.Run
  MaxRooms,          \* lobby.Limits
  NoRoom, Nobody

Threads == Readers \cup {Ticker}

ASSUME LocksAssumption ==
  /\ NoRoom \notin Rooms /\ Ticker \notin Readers /\ Nobody \notin Threads
  /\ MaxRooms \in Nat
  /\ IsFiniteSet(Codes)

VARIABLES
  rooms,        \* Manager.rooms
  destroyed,    \* Room.destroyed
  attached,     \* whose transports the slots of a room hold
  mu, roomMu,   \* who holds Manager.mu, and each Room.mu
  sess,         \* the room of each reader's session
  pc, call,     \* where a goroutine is, and the locals of its call
  todo          \* the rooms that a sweep has still to visit

vars == <<rooms, destroyed, attached, mu, roomMu, sess, pc, call, todo>>

Live == {rooms[k] : k \in Codes} \ {NoRoom}

\* `made` holds of a call that put its room into the map.
NoCall == [op |-> "none", code |-> NoRoom, create |-> FALSE, room |-> NoRoom, made |-> FALSE]

Init ==
  /\ rooms = [k \in Codes |-> NoRoom]
  /\ destroyed = [r \in Rooms |-> TRUE]
  /\ attached = [r \in Rooms |-> {}]
  /\ mu = Nobody /\ roomMu = [r \in Rooms |-> Nobody]
  /\ sess = [t \in Readers |-> NoRoom]
  /\ pc = [t \in Threads |-> "idle"] /\ call = [t \in Threads |-> NoCall]
  /\ todo = {}

Goto(t, label) == pc' = [pc EXCEPT ![t] = label]

\* The call returns.
Return(t) == Goto(t, "idle") /\ call' = [call EXCEPT ![t] = NoCall]

----------------------------------------------------------------------------
(* Calls *)

\* Join, with create options or without, and Claim.
CallEnter(t) ==
  /\ pc[t] = "idle" /\ sess[t] = NoRoom
  /\ \E k \in Codes, create \in BOOLEAN :
       call' = [call EXCEPT ![t] = [@ EXCEPT !.op = "enter", !.code = k, !.create = create]]
  /\ Goto(t, "manager")
  /\ UNCHANGED <<rooms, destroyed, attached, mu, roomMu, sess, todo>>

\* Touch and Signal, Leave and Disconnect, in the room of the session.
CallRoom(t) ==
  /\ pc[t] = "idle" /\ sess[t] # NoRoom
  /\ \E op \in {"stay", "leave"} :
       call' = [call EXCEPT ![t] = [@ EXCEPT !.op = op, !.room = sess[t]]]
  /\ Goto(t, "room")
  /\ UNCHANGED <<rooms, destroyed, attached, mu, roomMu, sess, todo>>

CallGC ==
  /\ pc[Ticker] = "idle"
  /\ call' = [call EXCEPT ![Ticker].op = "gc"]
  /\ Goto(Ticker, "manager")
  /\ UNCHANGED <<rooms, destroyed, attached, mu, roomMu, sess, todo>>

----------------------------------------------------------------------------
(* Under Manager.mu *)

LockManager(t) ==
  /\ pc[t] = "manager" /\ mu = Nobody
  /\ mu' = t /\ Goto(t, "found")
  /\ UNCHANGED <<rooms, destroyed, attached, roomMu, sess, call, todo>>

\* Mutant of HoldsOn: Manager.mu is released before Room.mu is locked.
LetsGo == mu' = Nobody

HoldsOn == mu' = mu

\* The room is in the map: its lock is next.
FindRoom(t) ==
  /\ pc[t] = "found" /\ call[t].op = "enter" /\ rooms[call[t].code] # NoRoom
  /\ call' = [call EXCEPT ![t].room = rooms[call[t].code]]
  /\ Goto(t, "room") /\ HoldsOn
  /\ UNCHANGED <<rooms, destroyed, attached, roomMu, sess, todo>>

\* No such room and no options to create one, or no place for another.
Refuse(t) == mu' = Nobody /\ Return(t)

FindNone(t) ==
  /\ pc[t] = "found" /\ call[t].op = "enter" /\ rooms[call[t].code] = NoRoom
  /\ ~call[t].create
  /\ Refuse(t)
  /\ UNCHANGED <<rooms, destroyed, attached, roomMu, sess, todo>>

\* Rooms that nothing points to stand for new ones.
Unused ==
  {r \in Rooms : /\ r \notin Live \cup todo
                 /\ \A t \in Threads : call[t].room # r
                 /\ \A t \in Readers : sess[t] # r}

\* Mutant of HasPlace: one room too many.
HasPlaceOffByOne == Cardinality(Live) <= MaxRooms

HasPlace == Cardinality(Live) < MaxRooms

CreateRoom(t) ==
  \E r \in Unused :
    /\ rooms' = [rooms EXCEPT ![call[t].code] = r]
    /\ destroyed' = [destroyed EXCEPT ![r] = FALSE]
    /\ call' = [call EXCEPT ![t] = [@ EXCEPT !.room = r, !.made = TRUE]]
    /\ Goto(t, "room") /\ HoldsOn

MakeRoom(t) ==
  /\ pc[t] = "found" /\ call[t].op = "enter" /\ rooms[call[t].code] = NoRoom
  /\ call[t].create /\ HasPlace
  /\ CreateRoom(t)
  /\ UNCHANGED <<attached, roomMu, sess, todo>>

\* gcLocked begins, for the ticker or for a join at the limit.
BeginSweep(t) ==
  /\ pc[t] = "found"
  /\ \/ call[t].op = "gc"
     \/ call[t].op = "enter" /\ rooms[call[t].code] = NoRoom /\ call[t].create /\ ~HasPlace
  /\ todo' = Live /\ Goto(t, "sweep")
  /\ UNCHANGED <<rooms, destroyed, attached, mu, roomMu, sess, call>>

\* The next room in the order of a Go map, which is any; then its lock.
NextRoom(t) ==
  /\ pc[t] = "sweep"
  /\ \E r \in todo :
       /\ call' = [call EXCEPT ![t].room = r]
       /\ todo' = todo \ {r}
  /\ Goto(t, "visit")
  /\ UNCHANGED <<rooms, destroyed, attached, mu, roomMu, sess>>

LockVisited(t) ==
  /\ pc[t] = "visit" /\ roomMu[call[t].room] = Nobody
  /\ roomMu' = [roomMu EXCEPT ![call[t].room] = t]
  /\ Goto(t, "collect")
  /\ UNCHANGED <<rooms, destroyed, attached, mu, sess, call, todo>>

\* The room expired, or was empty too long; or neither.
Collect(t) ==
  LET r == call[t].room IN
  /\ pc[t] = "collect"
  /\ \/ /\ rooms' = [k \in Codes |-> IF rooms[k] = r THEN NoRoom ELSE rooms[k]]
        /\ destroyed' = [destroyed EXCEPT ![r] = TRUE]
        /\ attached' = [attached EXCEPT ![r] = {}]
     \/ UNCHANGED <<rooms, destroyed, attached>>
  /\ roomMu' = [roomMu EXCEPT ![r] = Nobody]
  /\ call' = [call EXCEPT ![t].room = NoRoom]
  /\ Goto(t, "sweep")
  /\ UNCHANGED <<mu, sess, todo>>

\* Mutant of CountsAfter: the rooms are counted before GC gives the lock back.
CountsWithin == Goto(Ticker, "count") /\ UNCHANGED <<mu, call>>

\* GC returns; RoomCount locks again.
CountsAfter == Goto(Ticker, "count") /\ mu' = Nobody /\ UNCHANGED call

EndSweep(t) ==
  /\ pc[t] = "sweep" /\ todo = {}
  /\ \/ call[t].op = "gc" /\ (CountsAfter \/ Refuse(t)) /\ UNCHANGED <<rooms, destroyed>>
     \/ call[t].op = "enter" /\ HasPlace /\ CreateRoom(t)
     \/ call[t].op = "enter" /\ ~HasPlace /\ Refuse(t) /\ UNCHANGED <<rooms, destroyed>>
  /\ UNCHANGED <<attached, roomMu, sess, todo>>

RoomCount(t) ==
  /\ pc[t] = "count" /\ mu = Nobody
  /\ Return(t)
  /\ UNCHANGED <<rooms, destroyed, attached, mu, roomMu, sess, todo>>

----------------------------------------------------------------------------
(* Under Room.mu *)

LockRoom(t) ==
  /\ pc[t] = "room" /\ roomMu[call[t].room] = Nobody
  /\ roomMu' = [roomMu EXCEPT ![call[t].room] = t]
  /\ Goto(t, IF call[t].op = "enter" THEN "release" ELSE "in")
  /\ UNCHANGED <<rooms, destroyed, attached, mu, sess, call, todo>>

ReleaseManager(t) ==
  /\ pc[t] = "release"
  /\ mu' = Nobody /\ Goto(t, "in")
  /\ UNCHANGED <<rooms, destroyed, attached, roomMu, sess, call, todo>>

\* The operation on the room ends, and frees it.
Finish(t) ==
  /\ roomMu' = [roomMu EXCEPT ![call[t].room] = Nobody]
  /\ Return(t)
  /\ UNCHANGED <<rooms, destroyed, mu, todo>>

\* The join is refused: destroyed, another application, started, full; or no
\* token can be made for it.
Enters(t) ==
  /\ pc[t] = "in" /\ call[t].op = "enter"
  /\ \/ UNCHANGED <<attached, sess>>
     \/ /\ ~destroyed[call[t].room]
        /\ \E S \in SUBSET (attached[call[t].room] \cup {t}) :
             attached' = [attached EXCEPT ![call[t].room] = S]
        /\ sess' = [sess EXCEPT ![t] = call[t].room]
  /\ Finish(t)

\* Touch, Signal: whoever cannot take what it is sent is detached.
Stays(t) ==
  LET r == call[t].room IN
  /\ pc[t] = "in" /\ call[t].op = "stay"
  /\ \/ ~destroyed[r] /\ t \in attached[r]
        /\ \E S \in SUBSET attached[r] : attached' = [attached EXCEPT ![r] = S]
     \/ (destroyed[r] \/ t \notin attached[r]) /\ UNCHANGED attached
  /\ Finish(t)
  /\ UNCHANGED sess

\* Leave, Disconnect: the session ends, stale or not.
Leaves(t) ==
  LET r == call[t].room IN
  /\ pc[t] = "in" /\ call[t].op = "leave"
  /\ \/ ~destroyed[r] /\ t \in attached[r]
        /\ \E S \in SUBSET (attached[r] \ {t}) : attached' = [attached EXCEPT ![r] = S]
     \/ (destroyed[r] \/ t \notin attached[r]) /\ UNCHANGED attached
  /\ sess' = [sess EXCEPT ![t] = NoRoom]
  /\ Finish(t)

----------------------------------------------------------------------------

Step(t) ==
  \/ LockManager(t) \/ FindRoom(t) \/ FindNone(t) \/ MakeRoom(t)
  \/ BeginSweep(t) \/ NextRoom(t) \/ LockVisited(t) \/ Collect(t) \/ EndSweep(t) \/ RoomCount(t)
  \/ LockRoom(t) \/ ReleaseManager(t) \/ Enters(t) \/ Stays(t) \/ Leaves(t)

Next ==
  \/ \E t \in Readers : CallEnter(t) \/ CallRoom(t)
  \/ CallGC
  \/ \E t \in Threads : Step(t)

Spec == Init /\ [][Next]_vars

\* A goroutine runs on, and Go's mutexes do not starve one that waits.  Nobody
\* need make a call.
LiveSpec == Spec /\ \A t \in Threads : SF_vars(Step(t))

----------------------------------------------------------------------------
(* Properties *)

Labels == {"idle", "manager", "found", "sweep", "visit", "collect", "count",
           "room", "release", "in"}
Calls == [op : {"none", "enter", "stay", "leave", "gc"}, code : Codes \cup {NoRoom},
          create : BOOLEAN, room : Rooms \cup {NoRoom}, made : BOOLEAN]

\* Every variable is of its kind, and a call is where its operation may be.
TypeOK ==
  /\ rooms \in [Codes -> Rooms \cup {NoRoom}] /\ destroyed \in [Rooms -> BOOLEAN]
  /\ attached \in [Rooms -> SUBSET Readers]
  /\ mu \in Threads \cup {Nobody} /\ roomMu \in [Rooms -> Threads \cup {Nobody}]
  /\ sess \in [Readers -> Rooms \cup {NoRoom}]
  /\ pc \in [Threads -> Labels] /\ call \in [Threads -> Calls]
  /\ todo \subseteq Rooms

\* What Join and Claim find under the lock of a room that they looked up is never
\* a destroyed room: the test for it at the start of both is never true.
EnterFindsLive ==
  \A t \in Threads :
    pc[t] = "in" /\ call[t].op = "enter" => ~destroyed[call[t].room]

\* Every call to the lobby returns, whoever else holds or waits for a lock.
CallsReturn == \A t \in Threads : pc[t] # "idle" ~> pc[t] = "idle"

\* A room whose maker has not entered it yet is not there.
Fresh(r) == \E t \in Threads : call[t].made /\ call[t].room = r

RoomsInUse == [k \in Codes |-> IF Fresh(rooms[k]) THEN NoRoom ELSE rooms[k]]

Atomic == INSTANCE Registry WITH rooms <- RoomsInUse

\* Each operation is one step of the lobby: a room appears with its maker in it,
\* within the limit, and nobody acts on a room that is gone.
OperationsAtomic == Atomic!Spec
=============================================================================
