------------------------------ MODULE Registry ------------------------------
(***************************************************************************)
(* The lobby as Lobby sees it, each operation one step: rooms under codes, *)
(* and the transports attached to each room.                               *)
(***************************************************************************)
EXTENDS Naturals, FiniteSets

CONSTANTS Codes, Rooms, Readers, MaxRooms, NoRoom

VARIABLES
  rooms,      \* the room of each code
  attached    \* the transports of each room

Live == {rooms[k] : k \in Codes} \ {NoRoom}

Init ==
  /\ rooms = [k \in Codes |-> NoRoom]
  /\ attached = [r \in Rooms |-> {}]

\* A join finds no room: it makes one, with nobody else in it.
Open(t, k, r) ==
  /\ rooms[k] = NoRoom /\ r \notin Live /\ Cardinality(Live) < MaxRooms
  /\ rooms' = [rooms EXCEPT ![k] = r]
  /\ \E S \in SUBSET {t} : attached' = [attached EXCEPT ![r] = S]

\* A join or a claim enters the room of the code; it may cost others their place.
Enter(t, k) ==
  /\ rooms[k] # NoRoom
  /\ \E S \in SUBSET (attached[rooms[k]] \cup {t}) :
       attached' = [attached EXCEPT ![rooms[k]] = S]
  /\ UNCHANGED rooms

\* One of those attached does something; some may lose their place by it.
Act(t, r) ==
  /\ t \in attached[r] /\ r \in Live
  /\ \E S \in SUBSET attached[r] : attached' = [attached EXCEPT ![r] = S]
  /\ UNCHANGED rooms

\* A room is destroyed.
Destroy(k) ==
  /\ rooms[k] # NoRoom
  /\ attached' = [attached EXCEPT ![rooms[k]] = {}]
  /\ rooms' = [rooms EXCEPT ![k] = NoRoom]

Next ==
  \/ \E t \in Readers, k \in Codes : Enter(t, k) \/ \E r \in Rooms : Open(t, k, r)
  \/ \E t \in Readers, r \in Rooms : Act(t, r)
  \/ \E k \in Codes : Destroy(k)

Spec == Init /\ [][Next]_<<rooms, attached>>
=============================================================================
