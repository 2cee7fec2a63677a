-------------------------- MODULE LobbyLocksProofs --------------------------
(***************************************************************************)
(* Proofs about LobbyLocks, for any number of goroutines, codes and rooms: *)
(* its types, that a join finds no destroyed room, and that the locks make *)
(* each operation one step of Registry.                                    *)
(***************************************************************************)
EXTENDS LobbyLocks, FiniteSetTheorems, TLAPS

\* Who holds which lock is read off where the goroutines are.
HoldsManager(t) ==
  \/ pc[t] \in {"found", "sweep", "visit", "collect", "release"}
  \/ pc[t] = "room" /\ call[t].op = "enter"

HoldsRoom(t) == pc[t] \in {"collect", "release", "in"}

LockInv ==
  \A t \in Threads :
    /\ mu = t <=> HoldsManager(t)
    /\ \A r \in Rooms : roomMu[r] = t <=> HoldsRoom(t) /\ call[t].room = r

\* The room of a call is in the map from its lookup to the end of an operation
\* that enters it, and while a sweep visits it.
InRoom(t) == pc[t] \in {"room", "release", "in"}
Visits(t) == pc[t] \in {"visit", "collect"}

Placed(t) ==
  /\ InRoom(t) => call[t].room \in Rooms /\ call[t].op \in {"enter", "stay", "leave"}
  /\ pc[t] = "release" => call[t].op = "enter"
  /\ Visits(t) => call[t].room \in Live \ todo
  /\ ~InRoom(t) /\ ~Visits(t) => call[t].room = NoRoom
  /\ call[t].op \in {"enter", "stay", "leave"} => t \in Readers
  /\ call[t].op = "gc" => t = Ticker
  /\ call[t].op = "enter" =>
       /\ call[t].code \in Codes
       /\ InRoom(t) => rooms[call[t].code] = call[t].room
       /\ pc[t] \in {"sweep", "visit", "collect"} => rooms[call[t].code] = NoRoom
  /\ call[t].op \in {"stay", "leave"} => InRoom(t)

CallInv == \A t \in Threads : Placed(t)

MapInv ==
  /\ \A k, l \in Codes : rooms[k] = rooms[l] /\ rooms[k] # NoRoom => k = l
  /\ \A r \in Rooms : destroyed[r] <=> r \notin Live
  /\ \A r \in Rooms : attached[r] # {} => r \in Live
  /\ todo \subseteq Live

\* A room that its maker has not entered is known to nobody else while the map
\* is locked, and to nobody's session.
Untouched(t) ==
  /\ InRoom(t) /\ call[t].op = "enter" /\ attached[call[t].room] = {}
  /\ \A u \in Threads \ {t} :
       /\ ~(call[u].made /\ call[u].room = call[t].room)
       /\ pc[t] = "room" => call[u].room # call[t].room
  /\ \A u \in Readers : sess[u] # call[t].room

FreshInv == \A t \in Threads : call[t].made => Untouched(t)

LimitInv == Cardinality(Live) <= MaxRooms

IInv == TypeOK /\ LockInv /\ CallInv /\ MapInv /\ FreshInv /\ LimitInv


----------------------------------------------------------------------------
(* The limit *)

LEMMA LiveFinite == TypeOK => IsFiniteSet(Live)
<1> SUFFICES ASSUME TypeOK  PROVE IsFiniteSet(Live)
  OBVIOUS
<1> DEFINE T == {rooms[k] : k \in Codes}
<1>1. rooms \in Surjection(Codes, T)
  BY DEF TypeOK, Surjection
<1>2. IsFiniteSet(T)
  BY <1>1, LocksAssumption, FS_Surjection
<1>3. Live \subseteq T
  BY DEF Live
<1> QED
  BY <1>2, <1>3, FS_Subset

LEMMA LimitKept ==
  ASSUME TypeOK, LimitInv, Live' \subseteq Live
  PROVE  LimitInv'
<1>1. Cardinality(Live') <= Cardinality(Live)
  BY LiveFinite, FS_Subset
<1>2. Cardinality(Live) \in Nat /\ Cardinality(Live') \in Nat
  BY LiveFinite, FS_CardinalityType, FS_Subset
<1> QED
  BY <1>1, <1>2, LocksAssumption DEF LimitInv

LEMMA CallUpdates ==
  ASSUME NEW c \in Calls
  PROVE  /\ \A r \in Rooms \cup {NoRoom} : [c EXCEPT !.room = r] \in Calls
         /\ \A r \in Rooms : [c EXCEPT !.room = r, !.made = TRUE] \in Calls
         /\ \A k \in Codes, b \in BOOLEAN :
              [c EXCEPT !.op = "enter", !.code = k, !.create = b] \in Calls
         /\ \A op \in {"stay", "leave"}, r \in Rooms \cup {NoRoom} :
              [c EXCEPT !.op = op, !.room = r] \in Calls
         /\ [c EXCEPT !.op = "gc"] \in Calls
BY DEF Calls

LEMMA NoCallTyped == NoCall \in Calls
BY DEF NoCall, Calls

LEMMA LimitRaised ==
  ASSUME TypeOK, LimitInv, HasPlace, NEW r, r \notin Live, Live' = Live \cup {r}
  PROVE  LimitInv'
<1>1. Cardinality(Live') = Cardinality(Live) + 1 /\ Cardinality(Live) \in Nat
  BY LiveFinite, FS_AddElement, FS_CardinalityType
<1> QED
  BY <1>1, LocksAssumption DEF LimitInv, HasPlace

----------------------------------------------------------------------------
(* The steps *)

\* A room is made under Manager.mu, for a code that has none.
LEMMA CreateRoomKeeps ==
  ASSUME IInv, NEW t \in Threads, CreateRoom(t), HasPlace,
         pc[t] = "found" \/ (pc[t] = "sweep" /\ todo = {}),
         call[t].op = "enter", rooms[call[t].code] = NoRoom,
         UNCHANGED <<attached, roomMu, sess, todo>>
  PROVE  IInv'
<1> USE LocksAssumption DEF IInv, TypeOK, Labels, LockInv, CallInv, Placed, InRoom, Visits,
             HoldsManager, HoldsRoom, MapInv, FreshInv, Untouched, Live, Threads
<1>0. PICK r \in Unused :
        /\ rooms' = [rooms EXCEPT ![call[t].code] = r]
        /\ destroyed' = [destroyed EXCEPT ![r] = FALSE]
        /\ call' = [call EXCEPT ![t] = [call[t] EXCEPT !.room = r, !.made = TRUE]]
        /\ pc' = [pc EXCEPT ![t] = "room"] /\ mu' = mu
  BY DEF CreateRoom, Goto, HoldsOn
<1>a. /\ r \in Rooms /\ r \notin Live \cup todo
      /\ \A u \in Threads : call[u].room # r
      /\ \A u \in Readers : sess[u] # r
  BY DEF Unused
<1>b. [call[t] EXCEPT !.room = r, !.made = TRUE] \in Calls
  BY <1>a, CallUpdates
<1>1. TypeOK'
  BY <1>0, <1>a, <1>b
<1>2. LockInv'
  BY <1>0, <1>a
<1>3. CallInv'
  BY <1>0, <1>a
<1>4. MapInv'
  BY <1>0, <1>a
<1>5. FreshInv'
  BY <1>0, <1>a
<1>6. LimitInv'
  <2>1. Live' = Live \cup {r}
    BY <1>0, <1>a
  <2> QED
    BY <1>a, <2>1, LimitRaised
<1> QED
  BY <1>1, <1>2, <1>3, <1>4, <1>5, <1>6

LEMMA MakeRoomKeeps ==
  ASSUME IInv, NEW t \in Threads, MakeRoom(t)
  PROVE  IInv'
BY CreateRoomKeeps DEF MakeRoom

LEMMA CallEnterKeeps ==
  ASSUME IInv, NEW t \in Readers, CallEnter(t)
  PROVE  IInv'
<1> USE LocksAssumption DEF IInv, TypeOK, Labels, LockInv, CallInv, Placed, InRoom, Visits,
             HoldsManager, HoldsRoom, MapInv, FreshInv, Untouched, Live, Threads,
             CallEnter, Goto
<1>0. PICK k \in Codes, create \in BOOLEAN :
        call' = [call EXCEPT ![t] = [call[t] EXCEPT !.op = "enter", !.code = k,
                                                    !.create = create]]
  OBVIOUS
<1>a. [call[t] EXCEPT !.op = "enter", !.code = k, !.create = create] \in Calls
  BY CallUpdates
<1>1. TypeOK'
  BY <1>0, <1>a
<1>2. LockInv'
  OBVIOUS
<1>3. CallInv'
  OBVIOUS
<1>4. MapInv'
  OBVIOUS
<1>5. FreshInv'
  OBVIOUS
<1>6. LimitInv'
  BY LimitKept
<1> QED
  BY <1>1, <1>2, <1>3, <1>4, <1>5, <1>6

LEMMA CallRoomKeeps ==
  ASSUME IInv, NEW t \in Readers, CallRoom(t)
  PROVE  IInv'
<1> USE LocksAssumption DEF IInv, TypeOK, Labels, LockInv, CallInv, Placed, InRoom, Visits,
             HoldsManager, HoldsRoom, MapInv, FreshInv, Untouched, Live, Threads,
             CallRoom, Goto
<1>0. PICK op \in {"stay", "leave"} :
        call' = [call EXCEPT ![t] = [call[t] EXCEPT !.op = op, !.room = sess[t]]]
  OBVIOUS
<1>a. [call[t] EXCEPT !.op = op, !.room = sess[t]] \in Calls
  BY CallUpdates
<1>1. TypeOK'
  BY <1>0, <1>a
<1>2. LockInv'
  OBVIOUS
<1>3. CallInv'
  OBVIOUS
<1>4. MapInv'
  OBVIOUS
<1>5. FreshInv'
  OBVIOUS
<1>6. LimitInv'
  BY LimitKept
<1> QED
  BY <1>1, <1>2, <1>3, <1>4, <1>5, <1>6

LEMMA CallGCKeeps ==
  ASSUME IInv, CallGC
  PROVE  IInv'
<1> USE LocksAssumption DEF IInv, TypeOK, Labels, LockInv, CallInv, Placed, InRoom, Visits,
             HoldsManager, HoldsRoom, MapInv, FreshInv, Untouched, Live, Threads,
             CallGC, Goto
<1>a. [call[Ticker] EXCEPT !.op = "gc"] \in Calls
  BY CallUpdates
<1>1. TypeOK'
  BY <1>a
<1>2. LockInv'
  OBVIOUS
<1>3. CallInv'
  OBVIOUS
<1>4. MapInv'
  BY DEF MapInv, Live
<1>5. FreshInv'
  OBVIOUS
<1>6. LimitInv'
  BY LimitKept
<1> QED
  BY <1>1, <1>2, <1>3, <1>4, <1>5, <1>6

LEMMA LockManagerKeeps ==
  ASSUME IInv, NEW t \in Threads, LockManager(t)
  PROVE  IInv'
<1> USE LocksAssumption DEF IInv, TypeOK, Labels, LockInv, CallInv, Placed, InRoom, Visits,
             HoldsManager, HoldsRoom, MapInv, FreshInv, Untouched, Live, Threads,
             LockManager, Goto
<1>1. TypeOK'
  OBVIOUS
<1>2. LockInv'
  OBVIOUS
<1>3. CallInv'
  OBVIOUS
<1>4. MapInv'
  OBVIOUS
<1>5. FreshInv'
  OBVIOUS
<1>6. LimitInv'
  BY LimitKept
<1> QED
  BY <1>1, <1>2, <1>3, <1>4, <1>5, <1>6

LEMMA FindRoomKeeps ==
  ASSUME IInv, NEW t \in Threads, FindRoom(t)
  PROVE  IInv'
<1> USE LocksAssumption DEF IInv, TypeOK, Labels, LockInv, CallInv, Placed, InRoom, Visits,
             HoldsManager, HoldsRoom, MapInv, FreshInv, Untouched, Live, Threads,
             FindRoom, Goto, HoldsOn
<1>a. [call[t] EXCEPT !.room = rooms[call[t].code]] \in Calls
  <2>1. call[t] \in Calls /\ rooms[call[t].code] \in Rooms \cup {NoRoom}
    OBVIOUS
  <2> QED
    BY <2>1, CallUpdates
<1>1. TypeOK'
  BY <1>a
<1>2. LockInv'
  OBVIOUS
<1>3. CallInv'
  OBVIOUS
<1>4. MapInv'
  OBVIOUS
<1>5. FreshInv'
  OBVIOUS
<1>6. LimitInv'
  BY LimitKept
<1> QED
  BY <1>1, <1>2, <1>3, <1>4, <1>5, <1>6

LEMMA FindNoneKeeps ==
  ASSUME IInv, NEW t \in Threads, FindNone(t)
  PROVE  IInv'
<1> USE LocksAssumption DEF IInv, TypeOK, Labels, LockInv, CallInv, Placed, InRoom, Visits,
             HoldsManager, HoldsRoom, MapInv, FreshInv, Untouched, Live, Threads,
             FindNone, Refuse, Return, Goto, NoCall
<1>1. TypeOK'
  BY NoCallTyped
<1>2. LockInv'
  OBVIOUS
<1>3. CallInv'
  OBVIOUS
<1>4. MapInv'
  OBVIOUS
<1>5. FreshInv'
  OBVIOUS
<1>6. LimitInv'
  BY LimitKept
<1> QED
  BY <1>1, <1>2, <1>3, <1>4, <1>5, <1>6

LEMMA BeginSweepKeeps ==
  ASSUME IInv, NEW t \in Threads, BeginSweep(t)
  PROVE  IInv'
<1> USE LocksAssumption DEF IInv, TypeOK, Labels, LockInv, CallInv, Placed, InRoom, Visits,
             HoldsManager, HoldsRoom, MapInv, FreshInv, Untouched, Live, Threads,
             BeginSweep, Goto
<1>1. TypeOK'
  OBVIOUS
<1>2. LockInv'
  OBVIOUS
<1>3. CallInv'
  OBVIOUS
<1>4. MapInv'
  OBVIOUS
<1>5. FreshInv'
  OBVIOUS
<1>6. LimitInv'
  BY LimitKept
<1> QED
  BY <1>1, <1>2, <1>3, <1>4, <1>5, <1>6

LEMMA NextRoomKeeps ==
  ASSUME IInv, NEW t \in Threads, NextRoom(t)
  PROVE  IInv'
<1> USE LocksAssumption DEF IInv, TypeOK, Labels, LockInv, CallInv, Placed, InRoom, Visits,
             HoldsManager, HoldsRoom, MapInv, FreshInv, Untouched, Live, Threads,
             NextRoom, Goto
<1>a. ASSUME NEW r \in todo  PROVE [call[t] EXCEPT !.room = r] \in Calls
  BY CallUpdates
<1>1. TypeOK'
  BY <1>a
<1>2. LockInv'
  OBVIOUS
<1>3. CallInv'
  OBVIOUS
<1>4. MapInv'
  OBVIOUS
<1>5. FreshInv'
  OBVIOUS
<1>6. LimitInv'
  BY LimitKept
<1> QED
  BY <1>1, <1>2, <1>3, <1>4, <1>5, <1>6

LEMMA LockVisitedKeeps ==
  ASSUME IInv, NEW t \in Threads, LockVisited(t)
  PROVE  IInv'
<1> USE LocksAssumption DEF IInv, TypeOK, Labels, LockInv, CallInv, Placed, InRoom, Visits,
             HoldsManager, HoldsRoom, MapInv, FreshInv, Untouched, Live, Threads,
             LockVisited, Goto
<1>1. TypeOK'
  OBVIOUS
<1>2. LockInv'
  OBVIOUS
<1>3. CallInv'
  OBVIOUS
<1>4. MapInv'
  OBVIOUS
<1>5. FreshInv'
  OBVIOUS
<1>6. LimitInv'
  BY LimitKept
<1> QED
  BY <1>1, <1>2, <1>3, <1>4, <1>5, <1>6

LEMMA CollectTypes ==
  ASSUME TypeOK, NEW t \in Threads, Collect(t)
  PROVE  /\ rooms' \in [Codes -> Rooms \cup {NoRoom}] /\ destroyed' \in [Rooms -> BOOLEAN]
         /\ attached' \in [Rooms -> SUBSET Readers]
<1>1. CASE UNCHANGED <<rooms, destroyed, attached>>
  BY <1>1 DEF TypeOK
<1>2. CASE /\ rooms' = [k \in Codes |-> IF rooms[k] = call[t].room THEN NoRoom ELSE rooms[k]]
           /\ destroyed' = [destroyed EXCEPT ![call[t].room] = TRUE]
           /\ attached' = [attached EXCEPT ![call[t].room] = {}]
  BY <1>2 DEF TypeOK
<1> QED
  BY <1>1, <1>2 DEF Collect

\* Whoever holds the lock of a room that it entered keeps the room from being
\* collected, and whoever makes one holds the one lock or the other.
LEMMA CollectKeeps ==
  ASSUME IInv, NEW t \in Threads, Collect(t)
  PROVE  IInv'
<1> USE LocksAssumption DEF IInv, TypeOK, Labels, LockInv, CallInv, Placed, InRoom, Visits,
             HoldsManager, HoldsRoom, MapInv, FreshInv, Untouched, Live, Threads,
             Collect, Goto
<1>a. [call[t] EXCEPT !.room = NoRoom] \in Calls
  BY CallUpdates
<1>b. /\ rooms' \in [Codes -> Rooms \cup {NoRoom}] /\ destroyed' \in [Rooms -> BOOLEAN]
      /\ attached' \in [Rooms -> SUBSET Readers]
  BY CollectTypes
<1>1. TypeOK'
  BY <1>a, <1>b
<1>2. LockInv'
  OBVIOUS
<1>3. CallInv'
  OBVIOUS
<1>4. MapInv'
  OBVIOUS
<1>5. FreshInv'
  OBVIOUS
<1>6. LimitInv'
  BY LimitKept
<1> QED
  BY <1>1, <1>2, <1>3, <1>4, <1>5, <1>6

\* A sweep ends.
LEMMA SweepReturns ==
  ASSUME IInv, NEW t \in Threads, pc[t] = "sweep", todo = {},
         (t = Ticker /\ call[t].op = "gc" /\ CountsAfter) \/ Refuse(t),
         UNCHANGED <<rooms, destroyed, attached, roomMu, sess, todo>>
  PROVE  IInv'
<1> USE LocksAssumption DEF IInv, TypeOK, Labels, LockInv, CallInv, Placed, InRoom, Visits,
             HoldsManager, HoldsRoom, MapInv, FreshInv, Untouched, Live, Threads,
             CountsAfter, Refuse, Return, Goto
<1>1. TypeOK'
  BY NoCallTyped
<1> USE DEF NoCall
<1>2. LockInv'
  OBVIOUS
<1>3. CallInv'
  OBVIOUS
<1>4. MapInv'
  OBVIOUS
<1>5. FreshInv'
  OBVIOUS
<1>6. LimitInv'
  BY LimitKept
<1> QED
  BY <1>1, <1>2, <1>3, <1>4, <1>5, <1>6

LEMMA EndSweepKeeps ==
  ASSUME IInv, NEW t \in Threads, EndSweep(t)
  PROVE  IInv'
<1>1. CASE call[t].op = "enter" /\ HasPlace /\ CreateRoom(t)
  <2>1. rooms[call[t].code] = NoRoom
    BY <1>1 DEF EndSweep, IInv, CallInv, Placed
  <2> QED
    BY <1>1, <2>1, CreateRoomKeeps DEF EndSweep
<1>2. CASE UNCHANGED <<rooms, destroyed>> /\ Refuse(t)
  BY <1>2, SweepReturns DEF EndSweep
<1>3. CASE UNCHANGED <<rooms, destroyed>> /\ call[t].op = "gc" /\ CountsAfter
  <2>1. t = Ticker
    BY <1>3 DEF EndSweep, CountsAfter, Goto, IInv, CallInv, Placed
  <2> QED
    BY <1>3, <2>1, SweepReturns DEF EndSweep
<1> QED
  BY <1>1, <1>2, <1>3 DEF EndSweep

LEMMA RoomCountKeeps ==
  ASSUME IInv, NEW t \in Threads, RoomCount(t)
  PROVE  IInv'
<1> USE LocksAssumption DEF IInv, TypeOK, Labels, LockInv, CallInv, Placed, InRoom, Visits,
             HoldsManager, HoldsRoom, MapInv, FreshInv, Untouched, Live, Threads,
             RoomCount, Return, Goto, NoCall
<1>1. TypeOK'
  BY NoCallTyped
<1>2. LockInv'
  OBVIOUS
<1>3. CallInv'
  OBVIOUS
<1>4. MapInv'
  OBVIOUS
<1>5. FreshInv'
  OBVIOUS
<1>6. LimitInv'
  BY LimitKept
<1> QED
  BY <1>1, <1>2, <1>3, <1>4, <1>5, <1>6

LEMMA LockRoomKeeps ==
  ASSUME IInv, NEW t \in Threads, LockRoom(t)
  PROVE  IInv'
<1> USE LocksAssumption DEF IInv, TypeOK, Labels, LockInv, CallInv, Placed, InRoom, Visits,
             HoldsManager, HoldsRoom, MapInv, FreshInv, Untouched, Live, Threads,
             LockRoom, Goto
<1>1. TypeOK'
  OBVIOUS
<1>2. LockInv'
  OBVIOUS
<1>3. CallInv'
  OBVIOUS
<1>4. MapInv'
  OBVIOUS
<1>5. FreshInv'
  OBVIOUS
<1>6. LimitInv'
  BY LimitKept
<1> QED
  BY <1>1, <1>2, <1>3, <1>4, <1>5, <1>6

LEMMA ReleaseManagerKeeps ==
  ASSUME IInv, NEW t \in Threads, ReleaseManager(t)
  PROVE  IInv'
<1> USE LocksAssumption DEF IInv, TypeOK, Labels, LockInv, CallInv, Placed, InRoom, Visits,
             HoldsManager, HoldsRoom, MapInv, FreshInv, Untouched, Live, Threads,
             ReleaseManager, Goto
<1>1. TypeOK'
  OBVIOUS
<1>2. LockInv'
  OBVIOUS
<1>3. CallInv'
  OBVIOUS
<1>4. MapInv'
  OBVIOUS
<1>5. FreshInv'
  OBVIOUS
<1>6. LimitInv'
  BY LimitKept
<1> QED
  BY <1>1, <1>2, <1>3, <1>4, <1>5, <1>6

LEMMA EntersKeeps ==
  ASSUME IInv, NEW t \in Threads, Enters(t)
  PROVE  IInv'
<1> USE LocksAssumption DEF IInv, TypeOK, Labels, LockInv, CallInv, Placed, InRoom, Visits,
             HoldsManager, HoldsRoom, MapInv, FreshInv, Untouched, Live, Threads,
             Enters, Finish, Return, Goto, NoCall
<1>1. TypeOK'
  BY NoCallTyped
<1>2. LockInv'
  OBVIOUS
<1>3. CallInv'
  OBVIOUS
<1>4. MapInv'
  OBVIOUS
<1>5. FreshInv'
  OBVIOUS
<1>6. LimitInv'
  BY LimitKept
<1> QED
  BY <1>1, <1>2, <1>3, <1>4, <1>5, <1>6

LEMMA StaysKeeps ==
  ASSUME IInv, NEW t \in Threads, Stays(t)
  PROVE  IInv'
<1> USE LocksAssumption DEF IInv, TypeOK, Labels, LockInv, CallInv, Placed, InRoom, Visits,
             HoldsManager, HoldsRoom, MapInv, FreshInv, Untouched, Live, Threads,
             Stays, Finish, Return, Goto, NoCall
<1>1. TypeOK'
  BY NoCallTyped
<1>2. LockInv'
  OBVIOUS
<1>3. CallInv'
  OBVIOUS
<1>4. MapInv'
  OBVIOUS
<1>5. FreshInv'
  OBVIOUS
<1>6. LimitInv'
  BY LimitKept
<1> QED
  BY <1>1, <1>2, <1>3, <1>4, <1>5, <1>6

LEMMA LeavesKeeps ==
  ASSUME IInv, NEW t \in Threads, Leaves(t)
  PROVE  IInv'
<1> USE LocksAssumption DEF IInv, TypeOK, Labels, LockInv, CallInv, Placed, InRoom, Visits,
             HoldsManager, HoldsRoom, MapInv, FreshInv, Untouched, Live, Threads,
             Leaves, Finish, Return, Goto, NoCall
<1>1. TypeOK'
  BY NoCallTyped, SMTT(30)
<1>2. LockInv'
  OBVIOUS
<1>3. CallInv'
  OBVIOUS
<1>4. MapInv'
  OBVIOUS
<1>5. FreshInv'
  OBVIOUS
<1>6. LimitInv'
  BY LimitKept
<1> QED
  BY <1>1, <1>2, <1>3, <1>4, <1>5, <1>6

LEMMA NextKeeps == IInv /\ [Next]_vars => IInv'
<1> SUFFICES ASSUME IInv, [Next]_vars  PROVE IInv'
  OBVIOUS
<1>1. ASSUME NEW t \in Readers, CallEnter(t) \/ CallRoom(t)  PROVE IInv'
  BY <1>1, CallEnterKeeps, CallRoomKeeps
<1>2. CASE CallGC
  BY <1>2, CallGCKeeps
<1>3. ASSUME NEW t \in Threads, Step(t)  PROVE IInv'
  BY <1>3, LockManagerKeeps, FindRoomKeeps, FindNoneKeeps, MakeRoomKeeps,
     BeginSweepKeeps, NextRoomKeeps, LockVisitedKeeps, CollectKeeps, EndSweepKeeps,
     RoomCountKeeps, LockRoomKeeps, ReleaseManagerKeeps, EntersKeeps, StaysKeeps,
     LeavesKeeps DEF Step
<1>4. CASE UNCHANGED vars
  BY <1>4 DEF vars, IInv, TypeOK, LockInv, HoldsManager, HoldsRoom, CallInv, Placed, InRoom,
     Visits, MapInv, FreshInv, Untouched, LimitInv, Live
<1> QED
  BY <1>1, <1>2, <1>3, <1>4 DEF Next

LEMMA InitSound == Init => IInv
<1> SUFFICES ASSUME Init  PROVE IInv
  OBVIOUS
<1>1. Live = {}
  BY DEF Init, Live
<1>2. LimitInv
  BY <1>1, FS_EmptySet, LocksAssumption DEF LimitInv
<1>3. TypeOK
  BY NoCallTyped DEF Init, TypeOK, Labels, Threads
<1>4. LockInv /\ CallInv /\ MapInv /\ FreshInv
  BY <1>1, LocksAssumption DEF Init, NoCall, LockInv, HoldsManager, HoldsRoom, CallInv, Placed,
     InRoom, Visits, MapInv, FreshInv
<1> QED
  BY <1>2, <1>3, <1>4 DEF IInv

LEMMA Invariant == Spec => []IInv
BY InitSound, NextKeeps, PTL DEF Spec

\* Every reachable state of the locks, the calls and the rooms is well typed.
THEOREM TypeCorrect == Spec => []TypeOK
BY Invariant, PTL DEF IInv

\* A room that Join or Claim found in the map is not destroyed by the time they
\* hold its lock.
THEOREM EntersLiveRooms == Spec => []EnterFindsLive
<1>1. IInv => EnterFindsLive
  <2> SUFFICES ASSUME IInv, NEW t \in Threads, pc[t] = "in", call[t].op = "enter"
               PROVE  ~destroyed[call[t].room]
    BY DEF EnterFindsLive
  <2>1. call[t].room \in Live /\ call[t].room \in Rooms
    BY LocksAssumption DEF IInv, CallInv, Placed, InRoom, Live
  <2> QED
    BY <2>1 DEF IInv, MapInv
<1> QED
  BY <1>1, Invariant, PTL

----------------------------------------------------------------------------
(* The locks make the operations atomic *)

AtomicVars == <<RoomsInUse, attached>>

\* A room changes for Registry only when somebody makes, enters or collects one.
LEMMA QuietStep ==
  ASSUME IInv, rooms' = rooms, attached' = attached,
         \A u \in Threads : /\ call'[u].made = call[u].made
                            /\ call[u].made => call'[u].room = call[u].room
  PROVE  UNCHANGED AtomicVars
<1>1. \A r : Fresh(r)' <=> Fresh(r)
  BY DEF Fresh
<1> QED
  BY <1>1 DEF AtomicVars, RoomsInUse

\* A room in the map is fresh as long as its maker has not entered it; nobody
\* else can be in it.
LEMMA NobodyElse ==
  ASSUME IInv, NEW t \in Threads, call[t].room \in Rooms, ~call[t].made,
         pc[t] = "collect" \/ (pc[t] = "in")
  PROVE  ~Fresh(call[t].room)
<1> SUFFICES ASSUME NEW u \in Threads, call[u].made, call[u].room = call[t].room
             PROVE  FALSE
  BY DEF Fresh
<1>1. Untouched(u) /\ u # t
  BY DEF IInv, FreshInv
<1>2. pc[u] \in {"release", "in"}
  BY <1>1 DEF Untouched, InRoom
<1>3. roomMu[call[t].room] = t /\ roomMu[call[t].room] = u
  BY <1>2 DEF IInv, LockInv, HoldsRoom
<1> QED
  BY <1>1, <1>3

LEMMA MakingIsQuiet ==
  ASSUME IInv, NEW t \in Threads, CreateRoom(t), pc[t] \in {"found", "sweep"},
         call[t].op = "enter", rooms[call[t].code] = NoRoom, attached' = attached
  PROVE  UNCHANGED AtomicVars
<1>1. PICK r \in Unused :
        /\ rooms' = [rooms EXCEPT ![call[t].code] = r]
        /\ call' = [call EXCEPT ![t] = [call[t] EXCEPT !.room = r, !.made = TRUE]]
  BY DEF CreateRoom
<1>2. /\ call[t] \in Calls /\ r \in Rooms /\ r \notin Live /\ ~call[t].made
      /\ call[t].code \in Codes
  BY DEF IInv, TypeOK, Unused, FreshInv, Untouched, InRoom, CallInv, Placed
<1>3. call'[t].made /\ call'[t].room = r /\ \A u \in Threads \ {t} : call'[u] = call[u]
  BY <1>1, <1>2 DEF Calls, IInv, TypeOK
<1>4. \A s : Fresh(s)' <=> Fresh(s) \/ s = r
  BY <1>2, <1>3 DEF Fresh
<1>5. ~Fresh(NoRoom)
  BY LocksAssumption DEF Fresh, IInv, FreshInv, Untouched, CallInv, Placed
<1>6. ASSUME NEW k \in Codes  PROVE RoomsInUse'[k] = RoomsInUse[k]
  <2>1. CASE k = call[t].code
    BY <1>1, <1>4, <1>5, <2>1 DEF RoomsInUse, IInv, TypeOK
  <2>2. CASE k # call[t].code
    <3>1. rooms'[k] = rooms[k] /\ rooms[k] # r
      BY <1>1, <1>2, <2>2, LocksAssumption DEF Live, IInv, TypeOK
    <3> QED
      BY <1>4, <3>1 DEF RoomsInUse
  <2> QED
    BY <2>1, <2>2
<1>7. RoomsInUse' = RoomsInUse
  BY <1>6 DEF RoomsInUse
<1> QED
  BY <1>7 DEF AtomicVars

\* The visible rooms are those of the map without the fresh ones.
LEMMA VisibleRooms ==
  ASSUME IInv, NEW r \in Live, Fresh(r)
  PROVE  r \notin Atomic!Live /\ Cardinality(Atomic!Live) < MaxRooms
<1>1. Atomic!Live \subseteq Live \ {r}
  BY DEF Atomic!Live, RoomsInUse, Live
<1>2. /\ IsFiniteSet(Live) /\ Cardinality(Live) \in Nat
      /\ IsFiniteSet(Live \ {r}) /\ Cardinality(Live \ {r}) = Cardinality(Live) - 1
  BY LiveFinite, FS_CardinalityType, FS_RemoveElement DEF IInv
<1>3. Cardinality(Atomic!Live) \in Nat /\ Cardinality(Atomic!Live) <= Cardinality(Live \ {r})
  BY <1>1, <1>2, FS_Subset, FS_CardinalityType
<1> QED
  BY <1>1, <1>2, <1>3, LocksAssumption DEF IInv, LimitInv

LEMMA CollectAtomic ==
  ASSUME IInv, NEW t \in Threads, Collect(t)
  PROVE  Atomic!Next \/ UNCHANGED AtomicVars
<1> DEFINE r == call[t].room
<1>1. /\ r \in Rooms /\ r \in Live /\ ~call[t].made
  <2>1. Visits(t) /\ ~InRoom(t)
    BY DEF Collect, Visits, InRoom
  <2>2. r \in Live
    BY <2>1 DEF IInv, CallInv, Placed
  <2>3. Live \subseteq Rooms
    BY DEF Live, IInv, TypeOK
  <2> QED
    BY <2>1, <2>2, <2>3 DEF IInv, FreshInv, Untouched
<1>2. ~Fresh(r)
  BY <1>1, NobodyElse DEF Collect
<1>3. call' = [call EXCEPT ![t] = [call[t] EXCEPT !.room = NoRoom]]
  BY DEF Collect
<1>4. \A u \in Threads : /\ call'[u].made = call[u].made
                         /\ call[u].made => call'[u].room = call[u].room
  BY <1>1, <1>3 DEF IInv, TypeOK, Calls
<1>5. \A s : Fresh(s)' <=> Fresh(s)
  BY <1>4 DEF Fresh
<1>6. CASE UNCHANGED <<rooms, destroyed, attached>>
  BY <1>4, <1>6, QuietStep
<1>7. CASE /\ rooms' = [k \in Codes |-> IF rooms[k] = r THEN NoRoom ELSE rooms[k]]
           /\ attached' = [attached EXCEPT ![r] = {}]
  <2>1. PICK k \in Codes : rooms[k] = r
    BY <1>1 DEF Live
  <2>2. RoomsInUse[k] = r /\ r # NoRoom
    BY <1>1, <1>2, <2>1, LocksAssumption DEF RoomsInUse
  <2>3. ~Fresh(NoRoom)
    BY LocksAssumption DEF Fresh, IInv, FreshInv, Untouched, CallInv, Placed
  <2>4. ASSUME NEW l \in Codes
        PROVE  RoomsInUse'[l] = IF l = k THEN NoRoom ELSE RoomsInUse[l]
    BY <1>2, <1>5, <1>7, <2>1, <2>2, <2>3 DEF RoomsInUse, IInv, MapInv
  <2>5. RoomsInUse' = [RoomsInUse EXCEPT ![k] = NoRoom]
    BY <2>4 DEF RoomsInUse
  <2>6. Atomic!Destroy(k)
    BY <1>7, <2>2, <2>5 DEF Atomic!Destroy
  <2> QED
    BY <2>6 DEF Atomic!Next
<1> QED
  BY <1>6, <1>7 DEF Collect

LEMMA EntersAtomic ==
  ASSUME IInv, NEW t \in Threads, Enters(t)
  PROVE  Atomic!Next \/ UNCHANGED AtomicVars
<1> DEFINE r == call[t].room
           k == call[t].code
<1>1. /\ t \in Readers /\ k \in Codes /\ r \in Rooms /\ rooms[k] = r /\ r \in Live
      /\ r # NoRoom
  BY LocksAssumption DEF Enters, IInv, CallInv, Placed, InRoom, Live
<1>2. /\ rooms' = rooms
      /\ call' = [call EXCEPT ![t] = NoCall]
      /\ \E S \in SUBSET (attached[r] \cup {t}) : attached' = [attached EXCEPT ![r] = S]
  <2>1. attached[r] \in SUBSET (attached[r] \cup {t})
    OBVIOUS
  <2>2. attached = [attached EXCEPT ![r] = attached[r]]
    BY <1>1 DEF IInv, TypeOK
  <2> QED
    BY <2>1, <2>2 DEF Enters, Finish, Return
<1>3. ~call'[t].made /\ \A u \in Threads \ {t} : call'[u] = call[u]
  BY <1>2 DEF NoCall, IInv, TypeOK
<1>4. CASE call[t].made
  <2>1. Fresh(r)
    BY <1>4 DEF Fresh
  <2>2. \A s : Fresh(s)' <=> Fresh(s) /\ s # r
    BY <1>3, <1>4 DEF Fresh, IInv, FreshInv, Untouched
  <2>3. RoomsInUse[k] = NoRoom /\ r \notin Atomic!Live /\ Cardinality(Atomic!Live) < MaxRooms
    BY <1>1, <2>1, VisibleRooms DEF RoomsInUse
  <2>4. ASSUME NEW l \in Codes
        PROVE  RoomsInUse'[l] = IF l = k THEN r ELSE RoomsInUse[l]
    BY <1>1, <1>2, <2>2 DEF RoomsInUse, IInv, MapInv
  <2>5. RoomsInUse' = [RoomsInUse EXCEPT ![k] = r]
    BY <2>4 DEF RoomsInUse
  <2>6. attached[r] = {}
    BY <1>4 DEF IInv, FreshInv, Untouched
  <2>7. \E S \in SUBSET {t} : attached' = [attached EXCEPT ![r] = S]
    BY <1>2, <2>6
  <2>8. Atomic!Open(t, k, r)
    <3>1. Atomic!Cardinality(Atomic!Live) = Cardinality(Atomic!Live)
      BY DEF Atomic!Cardinality, Cardinality
    <3> QED
      BY <2>3, <2>5, <2>7, <3>1 DEF Atomic!Open
  <2> QED
    BY <1>1, <2>8 DEF Atomic!Next
<1>5. CASE ~call[t].made
  <2>1. ~Fresh(r)
    BY <1>1, <1>5, NobodyElse DEF Enters
  <2>2. \A s : Fresh(s)' <=> Fresh(s)
    BY <1>3, <1>5 DEF Fresh
  <2>3. RoomsInUse' = RoomsInUse /\ RoomsInUse[k] = r
    BY <1>1, <1>2, <2>1, <2>2 DEF RoomsInUse
  <2>4. Atomic!Enter(t, k)
    BY <1>1, <1>2, <2>3 DEF Atomic!Enter
  <2> QED
    BY <1>1, <2>4 DEF Atomic!Next
<1> QED
  BY <1>4, <1>5

LEMMA RoomCallAtomic ==
  ASSUME IInv, NEW t \in Threads, Stays(t) \/ Leaves(t)
  PROVE  Atomic!Next \/ UNCHANGED AtomicVars
<1> DEFINE r == call[t].room
<1>1. t \in Readers /\ r \in Rooms /\ ~call[t].made /\ pc[t] = "in"
  BY DEF Stays, Leaves, IInv, CallInv, Placed, InRoom, FreshInv, Untouched
<1>2. rooms' = rooms /\ call' = [call EXCEPT ![t] = NoCall]
  BY DEF Stays, Leaves, Finish, Return
<1>3. \A u \in Threads : /\ call'[u].made = call[u].made
                         /\ call[u].made => call'[u].room = call[u].room
  BY <1>1, <1>2 DEF NoCall, IInv, TypeOK, Calls
<1>4. CASE attached' = attached
  BY <1>2, <1>3, <1>4, QuietStep
<1>5. CASE /\ ~destroyed[r] /\ t \in attached[r]
           /\ \E S \in SUBSET attached[r] : attached' = [attached EXCEPT ![r] = S]
  <2>1. ~Fresh(r)
    BY <1>1, NobodyElse
  <2>2. r \in Atomic!Live
    <3>1. PICK k \in Codes : rooms[k] = r /\ r # NoRoom
      BY <1>1, <1>5 DEF IInv, MapInv, Live
    <3> QED
      BY <2>1, <3>1 DEF Atomic!Live, RoomsInUse
  <2>3. RoomsInUse' = RoomsInUse
    <3>1. \A s : Fresh(s)' <=> Fresh(s)
      BY <1>3 DEF Fresh
    <3> QED
      BY <1>2, <3>1 DEF RoomsInUse
  <2>4. Atomic!Act(t, r)
    BY <1>5, <2>2, <2>3 DEF Atomic!Act
  <2> QED
    BY <1>1, <2>4 DEF Atomic!Next
<1> QED
  <2>1. \A S \in SUBSET (attached[r] \ {t}) : S \in SUBSET attached[r]
    OBVIOUS
  <2> QED
    BY <1>4, <1>5, <2>1 DEF Stays, Leaves

LEMMA EndSweepAtomic ==
  ASSUME IInv, NEW t \in Threads, EndSweep(t)
  PROVE  UNCHANGED AtomicVars
<1>1. CASE call[t].op = "enter" /\ CreateRoom(t)
  <2>1. rooms[call[t].code] = NoRoom
    BY <1>1 DEF EndSweep, IInv, CallInv, Placed
  <2> QED
    BY <1>1, <2>1, MakingIsQuiet DEF EndSweep
<1>2. CASE rooms' = rooms /\ (CountsAfter \/ Refuse(t))
  <2>1. ~call[t].made
    BY DEF EndSweep, IInv, FreshInv, Untouched, InRoom
  <2>2. call' = call \/ call' = [call EXCEPT ![t] = NoCall]
    BY <1>2 DEF CountsAfter, Refuse, Return
  <2>3. \A u \in Threads : /\ call'[u].made = call[u].made
                           /\ call[u].made => call'[u].room = call[u].room
    <3>1. CASE call' = call
      BY <3>1
    <3>2. CASE call' = [call EXCEPT ![t] = NoCall]
      BY <2>1, <3>2 DEF NoCall, IInv, TypeOK, Calls
    <3> QED
      BY <2>2, <3>1, <3>2
  <2> QED
    BY <1>2, <2>3, QuietStep DEF EndSweep
<1> QED
  BY <1>1, <1>2 DEF EndSweep

LEMMA MadeKept ==
  ASSUME NEW c \in Calls
  PROVE  /\ \A s : [c EXCEPT !.room = s].made = c.made
         /\ [c EXCEPT !.op = "gc"].made = c.made
         /\ \A k, b : [c EXCEPT !.op = "enter", !.code = k, !.create = b].made = c.made
         /\ \A op, s : [c EXCEPT !.op = op, !.room = s].made = c.made
BY DEF Calls

\* The ticker begins a call.
LEMMA GCCallQuiet == IInv /\ CallGC => UNCHANGED AtomicVars
<1> SUFFICES ASSUME IInv, CallGC  PROVE UNCHANGED AtomicVars
  OBVIOUS
<1>1. /\ rooms' = rooms /\ attached' = attached
      /\ call' = [call EXCEPT ![Ticker] = [call[Ticker] EXCEPT !.op = "gc"]]
  BY DEF CallGC
<1>2. Ticker \in Threads /\ call \in [Threads -> Calls]
  BY DEF Threads, IInv, TypeOK
<1>3. ~call[Ticker].made
  BY <1>2 DEF CallGC, InRoom, IInv, FreshInv, Untouched
<1>4. \A u \in Threads : /\ call'[u].made = call[u].made
                         /\ call[u].made => call'[u].room = call[u].room
  BY <1>1, <1>2, <1>3, MadeKept
<1> QED
  BY <1>1, <1>4, QuietStep

\* What is left moves from lock to lock.
LEMMA MoveAtomic ==
  ASSUME IInv, NEW t \in Threads,
         \/ LockManager(t) \/ FindRoom(t) \/ FindNone(t) \/ BeginSweep(t) \/ NextRoom(t)
         \/ LockVisited(t) \/ RoomCount(t) \/ LockRoom(t) \/ ReleaseManager(t)
         \/ t \in Readers /\ (CallEnter(t) \/ CallRoom(t))
  PROVE  UNCHANGED AtomicVars
<1>1. rooms' = rooms /\ attached' = attached
  BY DEF LockManager, FindRoom, FindNone, BeginSweep, NextRoom, LockVisited, RoomCount,
     LockRoom, ReleaseManager, CallEnter, CallRoom
<1>2. \A u \in Threads : ~InRoom(u) => ~call[u].made
  BY DEF IInv, FreshInv, Untouched
<1>3. CASE call' = call
  BY <1>1, <1>3, QuietStep
<1>4. CASE \E u \in Threads : ~InRoom(u) /\ \E c \in Calls : ~c.made /\ call' = [call EXCEPT ![u] = c]
  <2>1. \A u \in Threads : /\ call'[u].made = call[u].made
                           /\ call[u].made => call'[u].room = call[u].room
    BY <1>2, <1>4 DEF IInv, TypeOK, Calls
  <2> QED
    BY <1>1, <2>1, QuietStep
<1>5. call' = call \/ \E u \in Threads : ~InRoom(u) /\ \E c \in Calls : ~c.made /\ call' = [call EXCEPT ![u] = c]
  <2> DEFINE Moves(u) == ~InRoom(u) /\ \E c \in Calls : ~c.made /\ call' = [call EXCEPT ![u] = c]
  <2>0. call \in [Threads -> Calls] /\ t \in Threads /\ Ticker \in Threads
    BY DEF IInv, TypeOK, Threads
  <2>1. CASE LockManager(t) \/ BeginSweep(t) \/ LockVisited(t) \/ LockRoom(t) \/ ReleaseManager(t)
    BY <2>1 DEF LockManager, BeginSweep, LockVisited, LockRoom, ReleaseManager
  <2>2. CASE FindNone(t) \/ RoomCount(t)
    <3>1. NoCall \in Calls /\ ~NoCall.made
      BY NoCallTyped DEF NoCall
    <3>2. ~InRoom(t) /\ call' = [call EXCEPT ![t] = NoCall]
      BY <2>2 DEF FindNone, RoomCount, Refuse, Return, InRoom
    <3> QED
      BY <3>1, <3>2
  <2>3. CASE FindRoom(t) \/ NextRoom(t)
    <3>1. ~InRoom(t) /\ ~call[t].made
      BY <1>2, <2>3 DEF FindRoom, NextRoom, InRoom
    <3>2. PICK s \in Rooms \cup {NoRoom} : call' = [call EXCEPT ![t] = [call[t] EXCEPT !.room = s]]
      BY <2>3 DEF FindRoom, NextRoom, IInv, TypeOK, CallInv, Placed
    <3>3. [call[t] EXCEPT !.room = s] \in Calls /\ ~[call[t] EXCEPT !.room = s].made
      BY <2>0, <3>1, CallUpdates, MadeKept
    <3> QED
      BY <3>1, <3>2, <3>3
  <2>4. CASE CallEnter(t)
    <3>1. ~InRoom(t) /\ ~call[t].made
      BY <1>2, <2>4 DEF CallEnter, InRoom
    <3>2. PICK k \in Codes, b \in BOOLEAN :
            call' = [call EXCEPT ![t] = [call[t] EXCEPT !.op = "enter", !.code = k, !.create = b]]
      BY <2>4 DEF CallEnter
    <3> DEFINE c == [call[t] EXCEPT !.op = "enter", !.code = k, !.create = b]
    <3>3. c \in Calls /\ ~c.made
      <4>1. call[t] \in Calls
        BY <2>0
      <4> QED
        BY <3>1, <4>1 DEF Calls
    <3> QED
      BY <3>1, <3>2, <3>3
  <2>5. CASE t \in Readers /\ CallRoom(t)
    <3>1. ~InRoom(t) /\ ~call[t].made
      BY <1>2, <2>5 DEF CallRoom, InRoom
    <3>2. PICK op \in {"stay", "leave"} :
            call' = [call EXCEPT ![t] = [call[t] EXCEPT !.op = op, !.room = sess[t]]]
      BY <2>5 DEF CallRoom
    <3>3. sess[t] \in Rooms \cup {NoRoom}
      BY <2>5 DEF IInv, TypeOK
    <3> DEFINE c == [call[t] EXCEPT !.op = op, !.room = sess[t]]
    <3>4. c \in Calls /\ ~c.made
      <4>1. call[t] \in Calls
        BY <2>0
      <4> QED
        BY <3>1, <3>3, <4>1 DEF Calls
    <3> QED
      BY <3>1, <3>2, <3>4
  <2> QED
    BY <2>1, <2>2, <2>3, <2>4, <2>5
<1> QED
  BY <1>3, <1>4, <1>5

LEMMA StepAtomic ==
  ASSUME IInv, [Next]_vars
  PROVE  Atomic!Next \/ UNCHANGED AtomicVars
<1>1. ASSUME NEW t \in Readers, CallEnter(t) \/ CallRoom(t)  PROVE UNCHANGED AtomicVars
  BY <1>1, MoveAtomic DEF Threads
<1>2. CASE CallGC
  BY <1>2, GCCallQuiet
<1>3. ASSUME NEW t \in Threads, Step(t)  PROVE Atomic!Next \/ UNCHANGED AtomicVars
  <2>1. CASE MakeRoom(t)
    BY <2>1, MakingIsQuiet DEF MakeRoom
  <2>2. CASE EndSweep(t)
    BY <2>2, EndSweepAtomic
  <2>3. CASE Collect(t)
    BY <2>3, CollectAtomic
  <2>4. CASE Enters(t)
    BY <2>4, EntersAtomic
  <2>5. CASE Stays(t) \/ Leaves(t)
    BY <2>5, RoomCallAtomic
  <2> QED
    BY <1>3, <2>1, <2>2, <2>3, <2>4, <2>5, MoveAtomic DEF Step
<1>4. CASE UNCHANGED vars
  BY <1>4 DEF vars, AtomicVars, RoomsInUse, Fresh
<1> QED
  BY <1>1, <1>2, <1>3, <1>4 DEF Next

LEMMA InitAtomic == Init => Atomic!Init
<1> SUFFICES ASSUME Init  PROVE Atomic!Init
  OBVIOUS
<1>1. \A r : ~Fresh(r)
  BY DEF Init, NoCall, Fresh
<1> QED
  BY <1>1 DEF Init, Atomic!Init, RoomsInUse

\* Whatever the goroutines interleave, an operation takes effect at one moment, a
\* room appears with its maker in it and the limit is kept.
THEOREM LocksMakeAtomic == Spec => OperationsAtomic
BY InitAtomic, StepAtomic, Invariant, PTL DEF Spec, OperationsAtomic, Atomic!Spec, AtomicVars
=============================================================================
