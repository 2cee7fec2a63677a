-------------------------- MODULE LobbySlotProofs --------------------------
(***************************************************************************)
(* Proofs about the slots of Lobby, through every join, claim, leave,      *)
(* disconnect, slow consumer and collection:                               *)
(*   - slots and the sessions of the transports agree (SlotInv), and what  *)
(*     follows for the collection of rooms;                                *)
(*   - rooms start when they are due, tokens lead back to one slot, late   *)
(*     joins are refused and claims wait for silence (LedgerInv);          *)
(*   - what attached clients are told of their room is true (RosterSound). *)
(***************************************************************************)
EXTENDS LobbyProofs

\* broadcastLocked on room r leaves the slots `remain` of `hold` attached, and has
\* shut the transports of the others.
Leaves(r, hold, w, since, swept, remain) ==
  /\ \A i \in Ids : conn'[r][i] = IF i \in remain THEN hold[i] ELSE NoConn
  /\ \A q \in Rooms, i \in Ids :
       q # r => conn'[q][i] = IF q \in swept THEN NoConn ELSE conn[q][i]
  /\ \A c \in Conns : wire'[c] = w[c] \/ (w[c] = "open" /\ wire'[c] = "slow-consumer")
  /\ \A i \in Up(hold) \ remain : wire'[hold[i]] # "open"
  /\ emptySince'[r] = UpdateEmpty(since, remain, clock)
  /\ vacantAt'[r] = IF remain = {} THEN clock ELSE 0
  /\ \A q \in Rooms : q # r => emptySince'[q] = IF q \in swept THEN NoTime ELSE emptySince[q]
  /\ \A q \in Rooms : q # r => vacantAt'[q] = IF q \in swept THEN 0 ELSE vacantAt[q]

\* What broadcastLocked does to the attached transports: those that remain in
\* room r are among the ones it started from.
LEMMA BroadcastEffect ==
  ASSUME TypeOK, NEW r \in Rooms, NEW hold \in Holding, NEW w \in Wires,
         NEW since, NEW first, NEW told, NEW swept,
         Broadcast(r, hold, w, since, first, told, swept)
  PROVE  \E remain \in SUBSET Up(hold) : Leaves(r, hold, w, since, swept, remain)
<1>1. PICK D \in Drops(hold, w, first) : BroadcastLosing(D, r, hold, w, since, told, swept)
  BY DEF Broadcast
<1> DEFINE remain == Up(hold) \ D
<1>2. remain \in SUBSET Up(hold) /\ D \subseteq Up(hold) /\ Up(hold) \ remain = D
  BY DEF Drops
<1>3. /\ \A i \in Ids : conn'[r][i] = IF i \in remain THEN hold[i] ELSE NoConn
      /\ \A q \in Rooms, i \in Ids : q # r => conn'[q][i] = IF q \in swept THEN NoConn ELSE conn[q][i]
  BY <1>1 DEF BroadcastLosing
<1>4. /\ \A c \in Conns : wire'[c] = w[c] \/ (w[c] = "open" /\ wire'[c] = "slow-consumer")
      /\ \A i \in D : wire'[hold[i]] # "open"
  BY <1>1, <1>2 DEF BroadcastLosing, Up, Holding
<1>5. /\ emptySince'[r] = UpdateEmpty(since, remain, clock)
      /\ \A q \in Rooms : q # r => emptySince'[q] = IF q \in swept THEN NoTime ELSE emptySince[q]
  BY <1>1 DEF BroadcastLosing
<1>6. /\ vacantAt'[r] = IF remain = {} THEN clock ELSE 0
      /\ \A q \in Rooms : q # r => vacantAt'[q] = IF q \in swept THEN 0 ELSE vacantAt[q]
  BY <1>1 DEF BroadcastLosing
<1> QED
  BY <1>2, <1>3, <1>4, <1>5, <1>6 DEF Leaves

\* emptySince is not earlier, by more than the age of clock readings, than the
\* moment the room's last transport was detached.
VacancyDated ==
  \A r \in Rooms : ~destroyed[r] /\ emptySince[r] # NoTime => emptySince[r] >= vacantAt[r] - MaxLag

\* The inductive invariant, next to the typing and the linking of the rooms: the
\* sessions and transports of the slots, and the dates of their vacancy.
SlotInv == AttachedBySession /\ NoZombie /\ EmptySinceExact /\ VacancyDated

\* A transport whose reader holds no session is attached nowhere, and one that is
\* attached is its session's current transport.
LEMMA AttachmentKnown ==
  ASSUME TypeOK, AttachedBySession
  PROVE  /\ \A c \in Conns : sess[c] = NoSession => \A r \in Rooms, i \in Ids : conn[r][i] # c
         /\ \A r \in Rooms, i \in Ids : conn[r][i] # NoConn => IsCurrent(conn[r][i])
<1>1. \A r \in Rooms, i \in Ids : [room |-> r, id |-> i] # NoSession
  BY NullAssumption
<1>2. \A r \in Rooms, i \in Ids : conn[r][i] # NoConn => conn[r][i] \in Conns
  BY DEF TypeOK
<1>3. ASSUME NEW c \in Conns, sess[c] = NoSession, NEW r \in Rooms, NEW i \in Ids, conn[r][i] = c
      PROVE  FALSE
  <2>1. c # NoConn
    BY NullAssumption
  <2>2. sess[conn[r][i]] = [room |-> r, id |-> i]
    BY <1>3, <2>1 DEF AttachedBySession
  <2> QED
    BY <1>1, <1>3, <2>2
<1>4. ASSUME NEW r \in Rooms, NEW i \in Ids, conn[r][i] # NoConn
      PROVE  IsCurrent(conn[r][i])
  <2>1. /\ ~destroyed[r] /\ occupied[r][i]
        /\ sess[conn[r][i]] = [room |-> r, id |-> i]
    BY <1>4 DEF AttachedBySession
  <2>2. sess[conn[r][i]].room = r /\ sess[conn[r][i]].id = i /\ sess[conn[r][i]] # NoSession
    BY <1>1, <2>1
  <2> QED
    BY <2>1, <2>2 DEF IsCurrent
<1> QED
  BY <1>3, <1>4

\* The kicks of Attach shut the transports they are for and no other change.
LEMMA AfterKicksEffect ==
  ASSUME TypeOK, NEW r \in Rooms, NEW i \in Ids, NEW c \in Conns, NEW delivered \in BOOLEAN,
         NEW reason \in KickReasons, NEW swept
  PROVE  LET w == AfterKicks(r, i, c, delivered, reason, swept)
         IN /\ \A d \in Conns : w[d] = wire[d] \/ (wire[d] = "open" /\ w[d] \in KickReasons)
            /\ \A d \in AttachedTo(swept) : w[d] # "open"
            /\ conn[r][i] \in Conns => w[conn[r][i]] # "open"
            /\ ~delivered => w[c] # "open"
BY DEF AfterKicks, Kicked, KickReasons, AttachedTo, TypeOK

\* Taking a slot preserves the invariant.
LEMMA AttachSafe ==
  ASSUME TypeOK, SlotInv,
         NEW r \in Rooms, NEW i \in Ids, NEW c \in Conns, NEW t \in Times,
         NEW occ \in [Ids -> BOOLEAN], NEW st \in BOOLEAN,
         NEW reason \in KickReasons, NEW note, NEW swept,
         sess[c] = NoSession, wire[c] # "off",
         \A j \in Ids : j = i \/ occupied[r][j] => occ[j],
         ~destroyed'[r], r \notin swept,
         \A q \in Rooms \ {r} : destroyed'[q] <=> destroyed[q] \/ q \in swept,
         clock' = clock,
         Attach(r, i, c, t, occ, st, reason, note, swept)
  PROVE  SlotInv'
<1>1. PICK delivered \in BOOLEAN : Deliver(delivered, r, i, c, t, occ, st, reason, note, swept)
  BY DEF Attach
<1> DEFINE hold == Seated(r, i, c, delivered)
           w == AfterKicks(r, i, c, delivered, reason, swept)
           since == UpdateEmpty(NoTime, Up(hold), t)
<1>2. hold \in Holding /\ hold = [conn[r] EXCEPT ![i] = IF delivered THEN c ELSE NoConn]
  BY DEF Seated, TypeOK, Holding
<1>3. w \in Wires
  BY KickedType DEF AfterKicks, TypeOK, Wires, WireStates, KickReasons
<1>4. t \in Time /\ clock \in Time /\ t >= clock - MaxLag
  BY BoundsAssumption DEF Times, TypeOK, Time
<1>4a. Broadcast(r, hold, w, since, Up(hold) \ {i}, Told(r, i, c, hold, occ, st, note), swept)
  BY <1>1 DEF Deliver
<1>4b. PICK remain \in SUBSET Up(hold) : Leaves(r, hold, w, since, swept, remain)
  <2> HIDE DEF hold, w, since
  <2> QED
    BY <1>4a, <1>2, <1>3, BroadcastEffect
<1>5. /\ \A j \in Ids : conn'[r][j] = IF j \in remain THEN hold[j] ELSE NoConn
      /\ \A q \in Rooms, j \in Ids : q # r => conn'[q][j] = IF q \in swept THEN NoConn ELSE conn[q][j]
      /\ \A d \in Conns : wire'[d] = w[d] \/ (w[d] = "open" /\ wire'[d] = "slow-consumer")
      /\ \A j \in Up(hold) \ remain : wire'[hold[j]] # "open"
      /\ emptySince'[r] = UpdateEmpty(since, remain, clock)
      /\ vacantAt'[r] = IF remain = {} THEN clock ELSE 0
      /\ \A q \in Rooms : q # r => emptySince'[q] = IF q \in swept THEN NoTime ELSE emptySince[q]
      /\ \A q \in Rooms : q # r => vacantAt'[q] = IF q \in swept THEN 0 ELSE vacantAt[q]
  <2> HIDE DEF hold, w, since
  <2> QED
    BY <1>4b DEF Leaves
<1>6. /\ \A q \in Rooms, j \in Ids : occupied'[q][j] =
            IF q = r THEN occ[j] ELSE IF q \in swept THEN FALSE ELSE occupied[q][j]
      /\ sess' = [sess EXCEPT ![c] = [room |-> r, id |-> i]]
  <2>1. Forget(occupied, swept, FALSE) = [q \in Rooms |-> IF q \in swept THEN [j \in Ids |-> FALSE] ELSE occupied[q]]
    BY DEF Forget, ForgetRoom
  <2>2. occupied' = [Forget(occupied, swept, FALSE) EXCEPT ![r] = occ]
    BY DEF Attach
  <2>3. sess' = [sess EXCEPT ![c] = [room |-> r, id |-> i]]
    BY DEF Attach
  <2>4. \A q \in Rooms : occupied'[q] = IF q = r THEN occ ELSE IF q \in swept THEN [j \in Ids |-> FALSE] ELSE occupied[q]
    BY <2>1, <2>2
  <2>5. \A q \in Rooms, j \in Ids : occupied'[q][j] =
          IF q = r THEN occ[j] ELSE IF q \in swept THEN FALSE ELSE occupied[q][j]
    BY ONLY <2>4
  <2> QED
    BY <2>3, <2>5
<1>7. \A q \in Rooms, j \in Ids : conn[q][j] # c
  BY AttachmentKnown DEF SlotInv
<1>8. \A d \in Conns : wire[d] # "off" => w[d] # "off" /\ wire'[d] # "off"
  BY <1>5, AfterKicksEffect, SMTT(30) DEF KickReasons
<1>9. AttachedBySession'
  <2> SUFFICES ASSUME NEW q \in Rooms, NEW j \in Ids, conn'[q][j] # NoConn
               PROVE  /\ ~destroyed'[q] /\ occupied'[q][j]
                      /\ sess'[conn'[q][j]] = [room |-> q, id |-> j]
                      /\ wire'[conn'[q][j]] # "off"
    BY DEF AttachedBySession
  <2>1. CASE q = r /\ j = i
    <3>1. conn'[q][j] = c
      BY <1>2, <1>5, <2>1 DEF TypeOK
    <3> QED
      BY <1>6, <1>8, <2>1, <3>1 DEF TypeOK
  <2>2. CASE ~(q = r /\ j = i)
    <3>1. conn'[q][j] = conn[q][j] /\ q \notin swept
      BY <1>2, <1>5, <2>2 DEF TypeOK
    <3>2. conn[q][j] \in Conns /\ conn[q][j] # c
      BY <1>7, <2>2, <3>1 DEF TypeOK
    <3>3. ~destroyed[q] /\ occupied[q][j] /\ sess[conn[q][j]] = [room |-> q, id |-> j] /\ wire[conn[q][j]] # "off"
      BY <3>1 DEF SlotInv, AttachedBySession
    <3> QED
      BY <1>6, <1>8, <3>1, <3>2, <3>3, ZenonT(30) DEF TypeOK
  <2> QED
    BY <2>1, <2>2
<1>10. NoZombie'
  <2> SUFFICES ASSUME NEW d \in Conns, sess'[d] # NoSession, ~IsCurrent(d)'
               PROVE  wire'[d] \notin {"off", "open"}
    BY DEF NoZombie, Shut
  <2>1. CASE d = c
    <3>1. sess'[c] = [room |-> r, id |-> i] /\ occupied'[r][i] /\ conn'[r][i] # c
      BY <1>6, <2>1 DEF IsCurrent, TypeOK
    <3>2. wire'[c] # "open"
      <4>1. CASE delivered
        <5>1. hold[i] = c /\ i \in Up(hold)
          BY <1>2, <4>1, NullAssumption DEF Up, TypeOK
        <5> QED
          BY <1>5, <3>1, <5>1
      <4>2. CASE ~delivered
        BY <1>5, <4>2, AfterKicksEffect
      <4> QED
        BY <4>1, <4>2
    <3> QED
      BY <1>8, <2>1, <3>2
  <2>2. CASE d # c /\ ~IsCurrent(d)
    <3>1. Shut(d)
      BY <1>6, <2>2 DEF SlotInv, NoZombie, TypeOK
    <3> QED
      BY <1>5, <3>1, AfterKicksEffect DEF Shut
  <2>3. CASE d # c /\ IsCurrent(d)
    <3>1. PICK q \in Rooms, j \in Ids :
            /\ sess[d] # NoSession /\ sess[d].room = q /\ sess[d].id = j
            /\ ~destroyed[q] /\ occupied[q][j] /\ conn[q][j] = d
      <4>1. sess[d].room \in Rooms /\ sess[d].id \in Ids
        BY <2>3, CurrentType
      <4> QED
        BY <2>3, <4>1 DEF IsCurrent
    <3>2. wire[d] # "off" /\ sess'[d] = sess[d]
      <4>1. conn[q][j] # NoConn
        BY <3>1, NullAssumption
      <4>2. wire[conn[q][j]] # "off"
        BY <4>1 DEF SlotInv, AttachedBySession
      <4> QED
        BY <1>6, <2>3, <3>1, <4>2 DEF TypeOK
    <3>3. wire'[d] # "open"
      <4>1. CASE q \in swept
        <5>1. d \in AttachedTo(swept)
          BY <3>1, <4>1 DEF AttachedTo
        <5>2. w[d] # "open"
          BY <5>1, AfterKicksEffect
        <5> QED
          BY <1>5, <5>2
      <4>2. CASE q = r /\ j = i
        BY <1>5, <3>1, <4>2, AfterKicksEffect
      <4>3. CASE q \notin swept /\ q # r
        <5>1. conn'[q][j] = d
          BY <1>5, <3>1, <4>3
        <5>3. occupied'[q][j]
          <6>1. occupied'[q][j] = occupied[q][j]
            BY <1>6, <4>3
          <6> QED
            BY <3>1, <6>1
        <5>2. ~destroyed'[q]
          BY <3>1, <4>3
        <5> QED
          BY <3>1, <3>2, <5>1, <5>2, <5>3 DEF IsCurrent
      <4>4. CASE q = r /\ j # i
        <5>1. hold[j] = d /\ j \in Up(hold)
          BY <1>2, <3>1, <4>4, NullAssumption DEF Up, TypeOK
        <5>2. occupied'[r][j] /\ (j \in remain => conn'[r][j] = d)
          BY <1>5, <1>6, <3>1, <4>4, <5>1
        <5>3. j \notin remain
          BY <3>1, <3>2, <4>4, <5>2 DEF IsCurrent
        <5> QED
          BY <1>5, <5>1, <5>3
      <4> QED
        BY <4>1, <4>2, <4>3, <4>4
    <3> QED
      BY <1>8, <3>2, <3>3
  <2> QED
    BY <2>1, <2>2, <2>3
<1>11. Up(conn'[r]) = remain /\ \A q \in Rooms : q # r /\ q \notin swept => Up(conn'[q]) = Up(conn[q])
  <2>1. Up(conn'[r]) = remain
    BY <1>5 DEF Up
  <2> QED
    BY <1>5, <2>1 DEF Up
<1>12. /\ emptySince'[r] = NoTime <=> remain # {}
       /\ remain = {} => emptySince'[r] \in {t, clock}
  BY <1>4, <1>5 DEF UpdateEmpty, NoTime, Time
<1>13. EmptySinceExact'
  BY <1>5, <1>11, <1>12 DEF SlotInv, EmptySinceExact
<1>14. VacancyDated'
  <2> SUFFICES ASSUME NEW q \in Rooms, ~destroyed'[q], emptySince'[q] # NoTime
               PROVE  emptySince'[q] >= vacantAt'[q] - MaxLag
    BY DEF VacancyDated
  <2>1. CASE q = r
    BY <1>4, <1>5, <1>12, <2>1, BoundsAssumption DEF Time
  <2>2. CASE q # r
    BY <1>5, <2>2 DEF SlotInv, VacancyDated
  <2> QED
    BY <2>1, <2>2
<1> QED
  BY <1>9, <1>10, <1>13, <1>14 DEF SlotInv

\* A slot's transport goes: it leaves, is disconnected, or cannot take a signal;
\* its reader forgets the session, or it is shut.
LEMMA DetachSafe ==
  ASSUME TypeOK, SlotInv,
         NEW r \in Rooms, NEW i \in Ids, NEW c \in Conns, conn[r][i] = c,
         NEW w \in Wires, \A d \in Conns : d # c => w[d] = wire[d],
         \/ sess' = [sess EXCEPT ![c] = NoSession]
         \/ sess' = sess /\ w[c] \notin {"off", "open"},
         \A q \in Rooms, j \in Ids : (q = r /\ j = i) \/ (occupied'[q][j] <=> occupied[q][j]),
         destroyed' = destroyed, clock' = clock,
         NEW first, NEW told,
         Broadcast(r, [conn[r] EXCEPT ![i] = NoConn], w, emptySince[r], first, told, {})
  PROVE  SlotInv'
<1> DEFINE hold == [conn[r] EXCEPT ![i] = NoConn]
<1>1. /\ hold \in Holding
      /\ \A j \in Ids : hold[j] = IF j = i THEN NoConn ELSE conn[r][j]
  BY DEF TypeOK, Holding
<1>2. PICK remain \in SUBSET Up(hold) : Leaves(r, hold, w, emptySince[r], {}, remain)
  <2> HIDE DEF hold
  <2> QED
    BY <1>1, BroadcastEffect DEF hold
<1>3. /\ \A j \in Ids : conn'[r][j] = IF j \in remain THEN hold[j] ELSE NoConn
      /\ \A q \in Rooms, j \in Ids : q # r => conn'[q][j] = conn[q][j]
      /\ \A d \in Conns : wire'[d] = w[d] \/ (w[d] = "open" /\ wire'[d] = "slow-consumer")
      /\ \A j \in Up(hold) \ remain : wire'[hold[j]] # "open"
      /\ emptySince'[r] = UpdateEmpty(emptySince[r], remain, clock)
      /\ vacantAt'[r] = IF remain = {} THEN clock ELSE 0
      /\ \A q \in Rooms : q # r => emptySince'[q] = emptySince[q] /\ vacantAt'[q] = vacantAt[q]
  BY <1>2 DEF Leaves
<1>4. c # NoConn /\ ~destroyed[r] /\ sess[c] = [room |-> r, id |-> i]
  BY NullAssumption DEF SlotInv, AttachedBySession
<1>5. \A q \in Rooms, j \in Ids : conn[q][j] = c => q = r /\ j = i
  <2> SUFFICES ASSUME NEW q \in Rooms, NEW j \in Ids, conn[q][j] = c PROVE q = r /\ j = i
    OBVIOUS
  <2>1. sess[c] = [room |-> q, id |-> j]
    BY <1>4 DEF SlotInv, AttachedBySession
  <2>2. sess[c].room = q /\ sess[c].id = j
    BY <2>1
  <2>3. sess[c].room = r /\ sess[c].id = i
    BY <1>4
  <2> QED
    BY <2>2, <2>3
<1>6. \A d \in Conns : d # c => sess'[d] = sess[d]
  BY DEF TypeOK
<1>7. AttachedBySession'
  <2> SUFFICES ASSUME NEW q \in Rooms, NEW j \in Ids, conn'[q][j] # NoConn
               PROVE  /\ ~destroyed'[q] /\ occupied'[q][j]
                      /\ sess'[conn'[q][j]] = [room |-> q, id |-> j]
                      /\ wire'[conn'[q][j]] # "off"
    BY DEF AttachedBySession
  <2>1. conn'[q][j] = conn[q][j] /\ ~(q = r /\ j = i)
    BY <1>1, <1>3
  <2>2. conn[q][j] \in Conns /\ conn[q][j] # c
    BY <1>5, <2>1 DEF TypeOK
  <2>3. ~destroyed[q] /\ occupied[q][j] /\ sess[conn[q][j]] = [room |-> q, id |-> j] /\ wire[conn[q][j]] # "off"
    BY <2>1 DEF SlotInv, AttachedBySession
  <2>4. wire'[conn[q][j]] # "off"
    BY <1>3, <2>2, <2>3
  <2>5. occupied'[q][j] /\ ~destroyed'[q]
    BY <2>1, <2>3
  <2>6. sess'[conn[q][j]] = [room |-> q, id |-> j]
    BY <1>6, <2>2, <2>3
  <2> QED
    BY <2>1, <2>4, <2>5, <2>6
<1>8. NoZombie'
  <2> SUFFICES ASSUME NEW d \in Conns, sess'[d] # NoSession, ~IsCurrent(d)'
               PROVE  wire'[d] \notin {"off", "open"}
    BY DEF NoZombie, Shut
  <2>1. CASE d = c
    BY <1>3, <2>1 DEF TypeOK
  <2>2. CASE d # c /\ ~IsCurrent(d)
    <3>1. Shut(d)
      BY <1>6, <2>2 DEF SlotInv, NoZombie
    <3> QED
      BY <1>3, <2>2, <3>1 DEF Shut
  <2>3. CASE d # c /\ IsCurrent(d)
    <3>1. PICK q \in Rooms, j \in Ids :
            /\ sess[d] # NoSession /\ sess[d].room = q /\ sess[d].id = j
            /\ ~destroyed[q] /\ occupied[q][j] /\ conn[q][j] = d
      BY <2>3, CurrentType DEF IsCurrent
    <3>2. ~(q = r /\ j = i)
      BY <2>3, <3>1
    <3>3. conn[q][j] # NoConn
      BY <3>1, NullAssumption
    <3>4. wire[d] # "off"
      <4>1. wire[conn[q][j]] # "off"
        BY <3>3 DEF SlotInv, AttachedBySession
      <4> QED
        BY <3>1, <4>1
    <3>5. occupied'[q][j] /\ ~destroyed'[q]
      BY <3>1, <3>2
    <3>6. conn'[q][j] # d
      BY <1>6, <2>3, <3>1, <3>5 DEF IsCurrent
    <3>7. q = r /\ j \in Up(hold) \ remain /\ hold[j] = d
      BY <1>1, <1>3, <3>1, <3>2, <3>3, <3>6 DEF Up
    <3> QED
      BY <1>3, <2>3, <3>4, <3>7
  <2> QED
    BY <2>1, <2>2, <2>3
<1>9. Up(conn'[r]) = remain /\ \A q \in Rooms : q # r => Up(conn'[q]) = Up(conn[q])
  BY <1>3 DEF Up
<1>10. emptySince[r] = NoTime
  BY <1>4 DEF SlotInv, EmptySinceExact, Up
<1>11. clock \in Time /\ emptySince'[r] = IF remain = {} THEN clock ELSE NoTime
  BY <1>3, <1>10 DEF UpdateEmpty, TypeOK, Time
<1>12. EmptySinceExact'
  <2> SUFFICES ASSUME NEW q \in Rooms, ~destroyed'[q]
               PROVE  emptySince'[q] = NoTime <=> Up(conn'[q]) # {}
    BY DEF EmptySinceExact
  <2>1. CASE q = r
    <3>1. clock # NoTime
      BY <1>11 DEF Time, NoTime
    <3> QED
      BY <1>9, <1>11, <2>1, <3>1
  <2>2. CASE q # r
    BY <1>3, <1>9, <2>2 DEF SlotInv, EmptySinceExact
  <2> QED
    BY <2>1, <2>2
<1>13. VacancyDated'
  BY <1>3, <1>11, BoundsAssumption DEF SlotInv, VacancyDated, Time
<1> QED
  BY <1>7, <1>8, <1>12, <1>13 DEF SlotInv

\* Destroying rooms detaches their transports and shuts them.
LEMMA SweepSafe ==
  ASSUME TypeOK, SlotInv, NEW S,
         conn' = Forget(conn, S, NoConn),
         wire' = Kicked(wire, AttachedTo(S), "room-expired"),
         sess' = sess,
         \A q \in Rooms \ S, j \in Ids : occupied'[q][j] <=> occupied[q][j],
         \A q \in Rooms \ S : ~destroyed[q] => ~destroyed'[q]
  PROVE  /\ AttachedBySession' /\ NoZombie'
         /\ \A q \in Rooms : Up(conn'[q]) = IF q \in S THEN {} ELSE Up(conn[q])
<1>1. \A q \in Rooms, j \in Ids : conn'[q][j] = IF q \in S THEN NoConn ELSE conn[q][j]
  BY DEF Forget, ForgetRoom
<1>2. /\ \A d \in Conns : wire'[d] = wire[d] \/ (wire[d] = "open" /\ wire'[d] = "room-expired")
      /\ \A d \in AttachedTo(S) : wire'[d] # "open"
  BY DEF Kicked, AttachedTo
<1>3. AttachedBySession'
  <2> SUFFICES ASSUME NEW q \in Rooms, NEW j \in Ids, conn'[q][j] # NoConn
               PROVE  /\ ~destroyed'[q] /\ occupied'[q][j]
                      /\ sess'[conn'[q][j]] = [room |-> q, id |-> j]
                      /\ wire'[conn'[q][j]] # "off"
    BY DEF AttachedBySession
  <2>1. q \notin S /\ conn'[q][j] = conn[q][j] /\ conn[q][j] \in Conns
    BY <1>1 DEF TypeOK
  <2>2. ~destroyed[q] /\ occupied[q][j] /\ sess[conn[q][j]] = [room |-> q, id |-> j] /\ wire[conn[q][j]] # "off"
    BY <2>1 DEF SlotInv, AttachedBySession
  <2>3. wire'[conn[q][j]] # "off"
    BY <1>2, <2>1, <2>2
  <2>4. occupied'[q][j] /\ ~destroyed'[q]
    BY <2>1, <2>2
  <2> QED
    BY <2>1, <2>2, <2>3, <2>4
<1>4. NoZombie'
  <2> SUFFICES ASSUME NEW d \in Conns, sess[d] # NoSession, ~IsCurrent(d)'
               PROVE  wire'[d] \notin {"off", "open"}
    BY DEF NoZombie, Shut
  <2>1. CASE ~IsCurrent(d)
    <3>1. Shut(d)
      BY <2>1 DEF SlotInv, NoZombie
    <3> QED
      BY <1>2, <3>1 DEF Shut
  <2>2. CASE IsCurrent(d)
    <3>1. PICK q \in Rooms, j \in Ids :
            /\ sess[d].room = q /\ sess[d].id = j
            /\ ~destroyed[q] /\ occupied[q][j] /\ conn[q][j] = d
      BY <2>2, CurrentType DEF IsCurrent
    <3>2. wire[d] # "off"
      <4>1. conn[q][j] # NoConn
        BY <3>1, NullAssumption
      <4>2. wire[conn[q][j]] # "off"
        BY <4>1 DEF SlotInv, AttachedBySession
      <4> QED
        BY <3>1, <4>2
    <3>3. CASE q \in S
      <4>1. d \in AttachedTo(S)
        BY <3>1, <3>3 DEF AttachedTo
      <4> QED
        BY <1>2, <3>2, <4>1
    <3>4. CASE q \notin S
      <4>1. occupied'[q][j] /\ ~destroyed'[q]
        BY <3>1, <3>4
      <4>2. conn'[q][j] = d
        BY <1>1, <3>1, <3>4
      <4> QED
        BY <3>1, <4>1, <4>2 DEF IsCurrent
    <3> QED
      BY <3>3, <3>4
  <2> QED
    BY <2>1, <2>2
<1> QED
  BY <1>1, <1>3, <1>4 DEF Up

\* gcLocked preserves the invariant.
LEMMA CollectSafe ==
  ASSUME TypeOK, SlotInv, NEW t, GC(t)
  PROVE  SlotInv'
<1> DEFINE S == Collectable(t)
<1>1. /\ conn' = Forget(conn, S, NoConn)
      /\ wire' = Kicked(wire, AttachedTo(S), "room-expired")
      /\ sess' = sess
  BY DEF GC, Collect
<1>2. /\ \A q \in Rooms : destroyed'[q] <=> q \in S \/ destroyed[q]
      /\ \A q \in Rooms : q \notin S => emptySince'[q] = emptySince[q] /\ vacantAt'[q] = vacantAt[q]
      /\ \A q \in Rooms \ S : occupied'[q] = occupied[q]
  BY DEF GC, Collect, ForgetRoom, Forget
<1>3. /\ AttachedBySession' /\ NoZombie'
      /\ \A q \in Rooms : Up(conn'[q]) = IF q \in S THEN {} ELSE Up(conn[q])
  <2> HIDE DEF S
  <2> QED
    BY <1>1, <1>2, SweepSafe
<1>4. EmptySinceExact' /\ VacancyDated'
  BY <1>2, <1>3 DEF SlotInv, EmptySinceExact, VacancyDated
<1> QED
  BY <1>3, <1>4 DEF SlotInv

\* A created room was destroyed or never used, so no transport is attached to it
\* and no session is for it.
LEMMA CreatedRoom ==
  ASSUME TypeOK, RoomsLinked, SlotInv, NEW r \in Unused, NEW code \in Codes,
         NEW app, NEW opts, NEW t, Create(r, code, app, opts, t)
  PROVE  /\ r \in Rooms /\ destroyed[r] /\ ~destroyed'[r] /\ r \notin SweptByJoin(t)
         /\ \A i \in Ids : conn[r][i] = NoConn
         /\ \A q \in Rooms \ {r} : destroyed'[q] <=> destroyed[q] \/ q \in SweptByJoin(t)
<1>1. r \in Rooms /\ r \notin Live /\ r \notin SweptByJoin(t)
  BY DEF Unused, SweptByJoin, Collectable
<1>2. destroyed[r]
  BY <1>1 DEF RoomsLinked
<1>3. \A i \in Ids : conn[r][i] = NoConn
  BY <1>1, <1>2 DEF SlotInv, AttachedBySession
<1>4. ~destroyed'[r] /\ \A q \in Rooms \ {r} : destroyed'[q] <=> destroyed[q] \/ q \in SweptByJoin(t)
  BY <1>1 DEF Create, ForgetRoom, TypeOK
<1> QED
  BY <1>1, <1>2, <1>3, <1>4

\* A creation that fails preserves the invariant: the room it leaves is empty
\* since its creation.
LEMMA CreateFailsSafe ==
  ASSUME TypeOK, RoomsLinked, SlotInv, NEW c \in Conns, NEW code \in Codes, NEW app \in Apps,
         NEW opts \in CreateOptions, NEW t \in Times, JoinCreateFails(c, code, app, opts, t)
  PROVE  SlotInv'
<1> DEFINE S == SweptByJoin(t)
<1>1. PICK r \in Unused : Create(r, code, app, opts, t) /\ Abandon(r, t, S)
  BY DEF JoinCreateFails
<1>2. /\ r \in Rooms /\ destroyed[r] /\ ~destroyed'[r] /\ r \notin S
      /\ \A i \in Ids : conn[r][i] = NoConn
      /\ \A q \in Rooms \ {r} : destroyed'[q] <=> destroyed[q] \/ q \in S
  BY <1>1, CreatedRoom
<1>3. /\ conn' = Forget(conn, S, NoConn)
      /\ wire' = Kicked(wire, AttachedTo(S), "room-expired")
      /\ sess' = sess
  BY <1>1 DEF Abandon, JoinCreateFails
<1>4. /\ emptySince'[r] = t /\ vacantAt'[r] = clock
      /\ \A q \in Rooms \ {r} : q \notin S => emptySince'[q] = emptySince[q] /\ vacantAt'[q] = vacantAt[q]
      /\ \A q \in Rooms \ S : occupied'[q] = occupied[q]
  BY <1>1, <1>2 DEF Abandon, ForgetRoom, Forget, TypeOK
<1>5. t \in Time /\ clock \in Time /\ t >= clock - MaxLag
  BY BoundsAssumption DEF Times, TypeOK, Time
<1>6. /\ AttachedBySession' /\ NoZombie'
      /\ \A q \in Rooms : Up(conn'[q]) = IF q \in S THEN {} ELSE Up(conn[q])
  <2> HIDE DEF S
  <2> QED
    BY <1>2, <1>3, <1>4, SweepSafe
<1>7. Up(conn'[r]) = {} /\ t # NoTime
  BY <1>2, <1>5, <1>6 DEF Up, Time, NoTime
<1>8. EmptySinceExact'
  BY <1>2, <1>4, <1>6, <1>7 DEF SlotInv, EmptySinceExact
<1>9. VacancyDated'
  BY <1>2, <1>4, <1>5 DEF SlotInv, VacancyDated
<1> QED
  BY <1>6, <1>8, <1>9 DEF SlotInv

\* Taking a slot of a room that exists, by a transport whose reader has no session.
LEMMA SameRoomAttachSafe ==
  ASSUME TypeOK, SlotInv, NEW c \in Conns, NEW code \in Codes, NEW app, NEW t \in Times,
         NEW i \in Ids, NEW occ \in [Ids -> BOOLEAN], NEW st \in BOOLEAN,
         NEW reason \in KickReasons, NEW note,
         MayEnter(c, code, app), UNCHANGED <<rooms, destroyed, desc, clock>>,
         \A j \in Ids : j = i \/ occupied[rooms[code]][j] => occ[j],
         Attach(rooms[code], i, c, t, occ, st, reason, note, {})
  PROVE  SlotInv'
<1>1. rooms[code] \in Rooms /\ ~destroyed[rooms[code]] /\ sess[c] = NoSession /\ wire[c] # "off"
  BY DEF MayEnter, TypeOK
<1>2. ~destroyed'[rooms[code]] /\ clock' = clock
  BY <1>1
<1>3. \A q \in Rooms \ {rooms[code]} : destroyed'[q] <=> destroyed[q] \/ q \in {}
  OBVIOUS
<1> QED
  BY <1>1, <1>2, <1>3, AttachSafe

\* Occupying slot i adds it to the occupied ones.
LEMMA OccupyAttaches ==
  ASSUME TypeOK, NEW r \in Rooms, NEW i \in Ids, NEW c \in Conns, NEW t,
         NEW opts \in RoomOptions, NEW swept, Occupy(r, i, c, t, opts, swept)
  PROVE  \E occ \in [Ids -> BOOLEAN], st \in BOOLEAN :
           /\ \A j \in Ids : j = i \/ occupied[r][j] => occ[j]
           /\ Attach(r, i, c, t, occ, st, "session-superseded", "player-joined", swept)
<1> DEFINE occ == [occupied[r] EXCEPT ![i] = TRUE]
           st == Starts(r, occ, opts)
<1>1. occ \in [Ids -> BOOLEAN] /\ \A j \in Ids : j = i \/ occupied[r][j] => occ[j]
  BY DEF TypeOK
<1>2. st \in BOOLEAN
  BY DEF Starts, TypeOK
<1>3. Attach(r, i, c, t, occ, st, "session-superseded", "player-joined", swept)
  BY DEF Occupy
<1> HIDE DEF occ, st
<1> QED
  BY <1>1, <1>2, <1>3

\* Every join and claim preserves the invariant.
LEMMA JoinOrClaimSafe ==
  ASSUME TypeOK, RoomsLinked, SlotInv, NEW c \in Conns, NEW code \in Codes, NEW app \in Apps,
         NEW t \in Times, JoinOrClaim(c, code, app, t)
  PROVE  SlotInv'
<1> DEFINE r == rooms[code]
<1>1. {"session-superseded", "replaced"} \subseteq KickReasons
  BY DEF KickReasons
<1>2. MayEnter(c, code, app) => /\ r \in Rooms /\ Opts(r) \in RoomOptions /\ Slots(r) \subseteq Ids
                                /\ occupied[r] \in [Ids -> BOOLEAN] /\ started[r] \in BOOLEAN
  BY OptionsType, BoundsAssumption DEF MayEnter, TypeOK
<1>3. ASSUME NEW i \in Ids, MayEnter(c, code, app), Occupy(r, i, c, t, Opts(r), {}),
             UNCHANGED <<rooms, destroyed, desc, clock>>
      PROVE  SlotInv'
  <2>1. PICK occ \in [Ids -> BOOLEAN], st \in BOOLEAN :
          /\ \A j \in Ids : j = i \/ occupied[r][j] => occ[j]
          /\ Attach(r, i, c, t, occ, st, "session-superseded", "player-joined", {})
    BY <1>2, <1>3, OccupyAttaches
  <2> QED
    BY <1>1, <1>3, <2>1, SameRoomAttachSafe, SMTT(30)
<1>4. ASSUME NEW i \in Ids, NEW reason \in {"session-superseded", "replaced"}, MayEnter(c, code, app), occupied[r][i],
             Attach(r, i, c, t, occupied[r], started[r], reason, "player-rejoined", {}),
             UNCHANGED <<rooms, destroyed, desc, clock>>
      PROVE  SlotInv'
  <2>1. \A j \in Ids : j = i \/ occupied[r][j] => occupied[r][j]
    BY <1>4
  <2>2. reason \in KickReasons /\ occupied[r] \in [Ids -> BOOLEAN] /\ started[r] \in BOOLEAN
    BY <1>1, <1>2, <1>4
  <2>3. PICK occ \in [Ids -> BOOLEAN], st \in BOOLEAN :
          /\ \A j \in Ids : j = i \/ occupied[r][j] => occ[j]
          /\ Attach(r, i, c, t, occ, st, reason, "player-rejoined", {})
    BY <1>4, <2>1, <2>2
  <2> QED
    BY <1>4, <2>2, <2>3, SameRoomAttachSafe
<1>5. CASE \E resume \in known : JoinResume(c, code, app, resume, t)
  <2>1. MayEnter(c, code, app) /\ UNCHANGED <<rooms, destroyed, desc, clock>>
    BY <1>5 DEF JoinResume
  <2>2. PICK resume \in known : \E i \in Matching(r, resume) :
          Attach(r, i, c, t, occupied[r], started[r], "session-superseded", "player-rejoined", {})
    BY <1>5 DEF JoinResume
  <2>3. PICK i \in Ids : occupied[r][i] /\ Attach(r, i, c, t, occupied[r], started[r], "session-superseded", "player-rejoined", {})
    BY <2>2 DEF Matching
  <2> QED
    BY <1>4, <2>1, <2>3
<1>6. CASE \E resume \in known \cup {NoToken} : JoinFresh(c, code, app, resume, t)
  <2>1. MayEnter(c, code, app) /\ UNCHANGED <<rooms, destroyed, desc, clock>>
    BY <1>6 DEF JoinFresh
  <2>2. PICK i \in Slots(r) : Occupy(r, i, c, t, Opts(r), {})
    BY <1>6 DEF JoinFresh
  <2> QED
    BY <1>2, <1>3, <2>1, <2>2
<1>7. CASE \E opts \in CreateOptions : JoinCreate(c, code, app, opts, t)
  <2>1. PICK opts \in CreateOptions, q \in Unused :
          Create(q, code, app, opts, t) /\ Occupy(q, 0, c, t, opts, SweptByJoin(t))
    BY <1>7 DEF JoinCreate
  <2>2. 0 \in Ids /\ opts \in RoomOptions /\ clock' = clock /\ sess[c] = NoSession /\ wire[c] # "off"
    BY <1>7, BoundsAssumption DEF Ids, JoinCreate
  <2>3. /\ q \in Rooms /\ ~destroyed'[q] /\ q \notin SweptByJoin(t)
        /\ \A p \in Rooms \ {q} : destroyed'[p] <=> destroyed[p] \/ p \in SweptByJoin(t)
    BY <2>1, CreatedRoom
  <2>4. PICK occ \in [Ids -> BOOLEAN], st \in BOOLEAN :
          /\ \A j \in Ids : j = 0 \/ occupied[q][j] => occ[j]
          /\ Attach(q, 0, c, t, occ, st, "session-superseded", "player-joined", SweptByJoin(t))
    BY <2>1, <2>2, <2>3, OccupyAttaches
  <2> QED
    BY <1>1, <2>2, <2>3, <2>4, AttachSafe
<1>8. CASE \E opts \in CreateOptions : JoinCreateFails(c, code, app, opts, t)
  BY <1>8, CreateFailsSafe
<1>9. CASE \E i \in Ids : ClaimFree(c, code, app, i, t)
  BY <1>3, <1>9 DEF ClaimFree, MayClaim
<1>10. CASE \E i \in Ids : ClaimSilent(c, code, app, i, t)
  BY <1>4, <1>10 DEF ClaimSilent, MayClaim
<1> QED
  BY <1>5, <1>6, <1>7, <1>8, <1>9, <1>10 DEF JoinOrClaim

\* A leave, a disconnect and a signal that its target cannot take preserve it.
LEMMA DepartureSafe ==
  ASSUME TypeOK, SlotInv, NEW c \in Conns, Leave(c) \/ Disconnect(c)
  PROVE  SlotInv'
<1> DEFINE r == sess[c].room
           i == sess[c].id
<1>1. r \in Rooms /\ i \in Ids /\ conn[r][i] = c
  BY CurrentType DEF Leave, Disconnect
<1>2. CASE Leave(c)
  <2>1. Broadcast(r, [conn[r] EXCEPT ![i] = NoConn], wire, emptySince[r], Up([conn[r] EXCEPT ![i] = NoConn]),
                  [d \in Conns |-> [view[d] EXCEPT !.roster[i] = "free"]], {})
    BY <1>2 DEF Leave
  <2>2. /\ sess' = [sess EXCEPT ![c] = NoSession] /\ destroyed' = destroyed /\ clock' = clock
        /\ \A q \in Rooms, j \in Ids : (q = r /\ j = i) \/ (occupied'[q][j] <=> occupied[q][j])
    BY <1>1, <1>2 DEF Leave, TypeOK
  <2>3. wire \in Wires
    BY DEF TypeOK, Wires
  <2> QED
    BY <1>1, <2>1, <2>2, <2>3, DetachSafe
<1>3. CASE Disconnect(c)
  <2> DEFINE w == [wire EXCEPT ![c] = "off"]
  <2>1. Broadcast(r, [conn[r] EXCEPT ![i] = NoConn], w, emptySince[r], Up([conn[r] EXCEPT ![i] = NoConn]),
                  [d \in Conns |-> [view[d] EXCEPT !.roster = Disconnected(@, {i})]], {})
    BY <1>3 DEF Disconnect
  <2>2. /\ sess' = [sess EXCEPT ![c] = NoSession] /\ destroyed' = destroyed /\ clock' = clock
        /\ \A q \in Rooms, j \in Ids : (q = r /\ j = i) \/ (occupied'[q][j] <=> occupied[q][j])
    BY <1>3 DEF Disconnect
  <2>3. w \in Wires /\ \A d \in Conns : d # c => w[d] = wire[d]
    BY DEF TypeOK, Wires, WireStates
  <2> HIDE DEF w
  <2> QED
    BY <1>1, <2>1, <2>2, <2>3, DetachSafe
<1> QED
  BY <1>2, <1>3

LEMMA SignalDropsSafe ==
  ASSUME TypeOK, SlotInv, NEW c \in Conns, NEW to \in Ids, NEW t \in Times, SignalDropsTarget(c, to, t)
  PROVE  SlotInv'
<1> DEFINE r == sess[c].room
           w == Kicked(wire, {conn[r][to]}, "slow-consumer")
<1>1. r \in Rooms /\ conn[r][to] \in Conns /\ conn[r][to] # NoConn
  BY CurrentType DEF SignalDropsTarget, Signalable, TypeOK
<1>2. Broadcast(r, [conn[r] EXCEPT ![to] = NoConn], w, emptySince[r], Up([conn[r] EXCEPT ![to] = NoConn]),
                [d \in Conns |-> [view[d] EXCEPT !.roster = Disconnected(@, {to})]], {})
  BY DEF SignalDropsTarget
<1>3. /\ sess' = sess /\ destroyed' = destroyed /\ clock' = clock
      /\ \A q \in Rooms, j \in Ids : (q = r /\ j = to) \/ (occupied'[q][j] <=> occupied[q][j])
  BY DEF SignalDropsTarget
<1>4. wire[conn[r][to]] # "off"
  BY <1>1 DEF SlotInv, AttachedBySession
<1>5. /\ w \in Wires /\ \A d \in Conns : d # conn[r][to] => w[d] = wire[d]
      /\ w[conn[r][to]] \notin {"off", "open"}
  BY <1>1, <1>4 DEF Kicked, TypeOK, Wires, WireStates, KickReasons
<1> HIDE DEF w
<1> QED
  BY <1>1, <1>2, <1>3, <1>5, DetachSafe

\* A reader without a current slot may forget its session, and end.
LEMMA StaleReaderSafe ==
  ASSUME TypeOK, SlotInv, NEW c \in Conns, LeaveStale(c) \/ ReaderEnds(c)
  PROVE  SlotInv'
<1>1. ~IsCurrent(c) /\ UNCHANGED <<destroyed, occupied, conn, emptySince, vacantAt>>
  BY DEF LeaveStale, ReaderEnds, roomVars, slotVars, ghostVars
<1>2. \A d \in Conns \ {c} : sess'[d] = sess[d] /\ wire'[d] = wire[d]
  BY DEF LeaveStale, ReaderEnds, TypeOK
<1>3. sess'[c] = NoSession
  BY DEF LeaveStale, ReaderEnds, TypeOK
<1>4. \A r \in Rooms, i \in Ids : conn[r][i] # NoConn => conn[r][i] \in Conns \ {c}
  BY <1>1, AttachmentKnown DEF SlotInv, TypeOK
<1>5. AttachedBySession'
  BY <1>1, <1>2, <1>4 DEF SlotInv, AttachedBySession
<1>6. NoZombie'
  <2> SUFFICES ASSUME NEW d \in Conns, sess'[d] # NoSession, ~IsCurrent(d)'
               PROVE  Shut(d)'
    BY DEF NoZombie
  <2>1. d # c /\ sess[d] # NoSession /\ ~IsCurrent(d)
    BY <1>1, <1>2, <1>3 DEF IsCurrent
  <2> QED
    BY <1>2, <2>1 DEF SlotInv, NoZombie, Shut
<1>7. EmptySinceExact' /\ VacancyDated'
  BY <1>1 DEF SlotInv, EmptySinceExact, VacancyDated, Up
<1> QED
  BY <1>5, <1>6, <1>7 DEF SlotInv

\* Every step preserves the invariant.
LEMMA SlotInvStep == TypeOK /\ RoomsLinked /\ SlotInv /\ [Next]_vars => SlotInv'
<1> SUFFICES ASSUME TypeOK, RoomsLinked, SlotInv, [Next]_vars PROVE SlotInv'
  OBVIOUS
<1>1. ASSUME NEW t \in Times, GC(t) PROVE SlotInv'
  BY <1>1, CollectSafe
<1>2. ASSUME NEW c \in Conns, NEW code \in Codes, NEW app \in Apps, NEW t \in Times,
             JoinOrClaim(c, code, app, t)
      PROVE  SlotInv'
  BY <1>2, JoinOrClaimSafe
<1>3. ASSUME NEW c \in Conns, Leave(c) \/ Disconnect(c) PROVE SlotInv'
  BY <1>3, DepartureSafe
<1>4. ASSUME NEW c \in Conns, NEW to \in Ids, NEW t \in Times, SignalDropsTarget(c, to, t) PROVE SlotInv'
  BY <1>4, SignalDropsSafe
<1>5. ASSUME NEW c \in Conns, LeaveStale(c) \/ ReaderEnds(c) PROVE SlotInv'
  BY <1>5, StaleReaderSafe
<1>6. ASSUME UNCHANGED <<destroyed, occupied, conn, sess, emptySince, vacantAt>>,
             \A d \in Conns : wire'[d] = wire[d] \/ (wire'[d] # "off" /\ ~Shut(d))
      PROVE  SlotInv'
  <2>1. \A d \in Conns : /\ wire[d] # "off" => wire'[d] # "off"
                         /\ Shut(d) => Shut(d)'
                         /\ IsCurrent(d)' <=> IsCurrent(d)
    BY <1>6 DEF Shut, IsCurrent
  <2>2. AttachedBySession'
    BY <1>6, <2>1 DEF SlotInv, AttachedBySession, TypeOK
  <2>3. NoZombie'
    BY <1>6, <2>1 DEF SlotInv, NoZombie
  <2>4. EmptySinceExact' /\ VacancyDated'
    BY <1>6 DEF SlotInv, EmptySinceExact, VacancyDated, Up
  <2> QED
    BY <2>2, <2>3, <2>4 DEF SlotInv
<1>7. ASSUME NEW c \in Conns, Connect(c) \/ WriterFails(c) PROVE SlotInv'
  <2>1. UNCHANGED <<destroyed, occupied, conn, sess, emptySince, vacantAt>>
    BY <1>7 DEF Connect, WriterFails, roomVars, slotVars, ghostVars
  <2>2. \A d \in Conns : wire'[d] = wire[d] \/ (wire'[d] # "off" /\ ~Shut(d))
    BY <1>7 DEF Connect, WriterFails, Shut, TypeOK
  <2> QED
    BY <1>6, <2>1, <2>2
<1>8. ASSUME NEW c \in Conns, NEW t \in Times, NEW to \in Ids, Touch(c, t) \/ Signal(c, to, t)
      PROVE  SlotInv'
  <2>1. UNCHANGED <<destroyed, occupied, conn, sess, emptySince, vacantAt, wire>>
    BY <1>8 DEF Touch, Signal, roomVars, connVars
  <2> QED
    BY <1>6, <2>1
<1>9. CASE Tick \/ UNCHANGED vars
  <2>1. UNCHANGED <<destroyed, occupied, conn, sess, emptySince, vacantAt, wire>>
    BY <1>9 DEF Tick, vars, roomVars, slotVars, connVars, ghostVars
  <2> QED
    BY <1>6, <2>1
<1>10. 0 \in Ids
  BY BoundsAssumption DEF Ids
<1> QED
  BY <1>1, <1>2, <1>3, <1>4, <1>5, <1>7, <1>8, <1>9, <1>10 DEF Next

LEMMA SlotInvInit == Init => SlotInv
BY NullAssumption DEF Init, SlotInv, AttachedBySession, NoZombie, EmptySinceExact, VacancyDated

LEMMA SlotsAgree == Spec => [](TypeOK /\ RoomsLinked /\ SlotInv)
<1>1. Init => TypeOK /\ RoomsLinked /\ SlotInv
  BY TypeInit, RoomsLinkedInit, SlotInvInit
<1>2. TypeOK /\ RoomsLinked /\ SlotInv /\ [Next]_vars => (TypeOK /\ RoomsLinked /\ SlotInv)'
  BY TypeStep, RoomsLinkedStep, SlotInvStep
<1> QED
  BY <1>1, <1>2, PTL DEF Spec

\* A transport is attached to one slot at most, that of its reader's session.
THEOREM AttachmentSafe == Spec => []AttachedBySession
<1>1. SlotInv => AttachedBySession
  BY DEF SlotInv
<1> QED
  BY <1>1, SlotsAgree, PTL

\* A reader that lost its slot is on a transport that has been shut.
THEOREM ZombieFree == Spec => []NoZombie
<1>1. SlotInv => NoZombie
  BY DEF SlotInv
<1> QED
  BY <1>1, SlotsAgree, PTL

\* A room's emptySince is zero exactly while a transport is attached.
THEOREM EmptySinceSafe == Spec => []EmptySinceExact
<1>1. SlotInv => EmptySinceExact
  BY DEF SlotInv
<1> QED
  BY <1>1, SlotsAgree, PTL

\* A room that is destroyed had reached its age, or had been empty for long enough.
THEOREM CollectedInTime == Spec => NotCollectedEarly
<1> DEFINE Due(r) == \/ clock - desc[r].createdAt >= MaxTTL
                     \/ Up(conn[r]) = {} /\ clock - vacantAt[r] >= EmptyTTL - MaxLag
<1>1. ASSUME TypeOK, SlotInv, NEW t \in Times, NEW r \in Collectable(t), ~destroyed[r]
      PROVE  Due(r)
  <2>1. r \in Rooms /\ t \in Time /\ t <= clock /\ clock \in Time
    BY <1>1, BoundsAssumption DEF Collectable, Live, Times, TypeOK, Time
  <2>2. CASE t - desc[r].createdAt >= MaxTTL
    <3>1. desc[r].createdAt \in Time
      BY <1>1, <2>1 DEF TypeOK, RoomDesc, Time
    <3> QED
      BY <2>1, <2>2, <3>1, BoundsAssumption DEF Time
  <2>3. CASE emptySince[r] # NoTime /\ t - emptySince[r] >= EmptyTTL
    <3>1. Up(conn[r]) = {}
      BY <1>1, <2>1, <2>3 DEF SlotInv, EmptySinceExact
    <3>2. emptySince[r] >= vacantAt[r] - MaxLag /\ emptySince[r] \in Time /\ vacantAt[r] \in Time
      BY <1>1, <2>1, <2>3 DEF SlotInv, VacancyDated, TypeOK, Time
    <3> QED
      BY <2>1, <2>3, <3>1, <3>2, BoundsAssumption DEF Time
  <2> QED
    BY <1>1, <2>2, <2>3 DEF Collectable
<1>2. ASSUME TypeOK, RoomsLinked, SlotInv, [Next]_vars, NEW r \in Rooms, ~destroyed[r], destroyed'[r]
      PROVE  \E t \in Times : r \in Collectable(t)
  <2>1. ASSUME NEW t \in Times, GC(t) PROVE r \in Collectable(t)
    BY <1>2, <2>1 DEF GC, Collect, ForgetRoom
  <2>2. ASSUME NEW t \in Times, NEW q \in Unused, NEW code \in Codes, NEW app \in Apps,
               NEW opts \in CreateOptions, Create(q, code, app, opts, t)
        PROVE  r \in Collectable(t)
    BY <1>2, <2>2, CreatedRoom DEF SweptByJoin
  <2> QED
    BY <1>2, <2>1, <2>2, RoomStep
<1>3. TypeOK /\ RoomsLinked /\ SlotInv /\ [Next]_vars =>
        [\A r \in Rooms : ~destroyed[r] /\ destroyed'[r] => Due(r)]_vars
  BY <1>1, <1>2
<1> QED
  BY <1>3, SlotsAgree, PTL DEF Spec, NotCollectedEarly

-----------------------------------------------------------------------------
(* What a step does to the slots, case by case *)

\* Transport c, whose reader holds no session, takes slot i of room r: a free one
\* as a new player, or an occupied one by resuming or by claiming it; `swept` are
\* the rooms collected by the same call, when it creates r.
Enters(r, i, c, t, occ, st, reason, note, swept) ==
  /\ r \in Rooms /\ i \in Ids /\ t \in Times /\ r \notin swept
  /\ occ \in [Ids -> BOOLEAN] /\ st \in BOOLEAN /\ reason \in KickReasons
  /\ sess[c] = NoSession /\ wire[c] # "off"
  /\ \A j \in Ids : occ[j] <=> j = i \/ occupied[r][j]
  /\ ~destroyed'[r] /\ desc'[r].opts \in RoomOptions /\ clock' = clock
  /\ \A q \in Rooms \ {r} : destroyed'[q] <=> destroyed[q] \/ q \in swept
  /\ \A q \in Rooms \ {r} : ~destroyed'[q] => desc'[q] = desc[q]
  /\ ~destroyed[r] => swept = {} /\ desc' = desc
  /\ \/ /\ note = "player-joined"
        /\ st <=> started[r] \/ ~desc'[r].opts.waitUntilFull
                  \/ \A j \in 0 .. desc'[r].opts.maxPlayers - 1 : occ[j]
        /\ ~destroyed[r] => /\ ~occupied[r][i]
                            /\ NotTooLate(r) \/ (Opts(r).allowReplacement /\ Opts(r).policyAllowsClaim)
     \/ /\ note = "player-rejoined" /\ ~destroyed[r] /\ occupied[r][i]
        /\ occ = occupied[r] /\ st = started[r]
        /\ \/ reason = "session-superseded" /\ Opts(r).allowReconnect
           \/ /\ reason = "replaced" /\ Opts(r).allowReplacement /\ Opts(r).policyAllowsClaim
              /\ t - lastSeenAt[r][i] >= Opts(r).claimAfter
  /\ Attach(r, i, c, t, occ, st, reason, note, swept)

\* Occupying slot i adds it, and nothing else, to the occupied ones, and starts the
\* room as its options ask.
LEMMA OccupyEffect ==
  ASSUME TypeOK, NEW r \in Rooms, NEW i \in Ids, NEW c \in Conns, NEW t,
         NEW opts \in RoomOptions, NEW swept, Occupy(r, i, c, t, opts, swept)
  PROVE  LET occ == [occupied[r] EXCEPT ![i] = TRUE]
             st == Starts(r, occ, opts)
         IN /\ occ \in [Ids -> BOOLEAN] /\ st \in BOOLEAN
            /\ \A j \in Ids : occ[j] <=> j = i \/ occupied[r][j]
            /\ st <=> started[r] \/ ~opts.waitUntilFull \/ \A j \in 0 .. opts.maxPlayers - 1 : occ[j]
            /\ Attach(r, i, c, t, occ, st, "session-superseded", "player-joined", swept)
<1> DEFINE occ == [occupied[r] EXCEPT ![i] = TRUE]
           st == Starts(r, occ, opts)
<1>1. occ \in [Ids -> BOOLEAN] /\ \A j \in Ids : occ[j] <=> j = i \/ occupied[r][j]
  BY DEF TypeOK
<1>2. st \in BOOLEAN
  BY DEF Starts, TypeOK
<1>3. st <=> started[r] \/ ~opts.waitUntilFull \/ \A j \in 0 .. opts.maxPlayers - 1 : occ[j]
  BY DEF Starts
<1>4. Attach(r, i, c, t, occ, st, "session-superseded", "player-joined", swept)
  BY DEF Occupy
<1> HIDE DEF occ, st
<1>5. /\ occ \in [Ids -> BOOLEAN] /\ st \in BOOLEAN
      /\ \A j \in Ids : occ[j] <=> j = i \/ occupied[r][j]
      /\ st <=> started[r] \/ ~opts.waitUntilFull \/ \A j \in 0 .. opts.maxPlayers - 1 : occ[j]
      /\ Attach(r, i, c, t, occ, st, "session-superseded", "player-joined", swept)
  BY <1>1, <1>2, <1>3, <1>4
<1> QED
  BY ONLY <1>5 DEF occ, st

\* Every join or claim takes a slot, unless it fails after creating a room.
LEMMA JoinOrClaimEnters ==
  ASSUME TypeOK, RoomsLinked, SlotInv, NEW c \in Conns, NEW code \in Codes, NEW app \in Apps,
         NEW t \in Times, JoinOrClaim(c, code, app, t)
  PROVE  \/ \E r \in Rooms, i \in Ids, occ \in [Ids -> BOOLEAN], st \in BOOLEAN,
               reason \in KickReasons, note \in {"player-joined", "player-rejoined"},
               swept \in SUBSET Rooms :
              Enters(r, i, c, t, occ, st, reason, note, swept)
         \/ \E opts \in CreateOptions : JoinCreateFails(c, code, app, opts, t)
<1> DEFINE r == rooms[code]
           Goal == \E q \in Rooms, i \in Ids, occ \in [Ids -> BOOLEAN], st \in BOOLEAN,
                      reason \in KickReasons, note \in {"player-joined", "player-rejoined"},
                      swept \in SUBSET Rooms :
                     Enters(q, i, c, t, occ, st, reason, note, swept)
<1>1. "session-superseded" \in KickReasons /\ "replaced" \in KickReasons
  BY DEF KickReasons
<1>2. MayEnter(c, code, app) => /\ r \in Rooms /\ ~destroyed[r] /\ sess[c] = NoSession /\ wire[c] # "off"
                                /\ Opts(r) \in RoomOptions /\ Slots(r) \subseteq Ids
                                /\ occupied[r] \in [Ids -> BOOLEAN] /\ started[r] \in BOOLEAN
  BY OptionsType, BoundsAssumption DEF MayEnter, TypeOK
<1>3. ASSUME NEW i \in Ids, MayEnter(c, code, app), Occupy(r, i, c, t, Opts(r), {}), ~occupied[r][i],
             NotTooLate(r) \/ (Opts(r).allowReplacement /\ Opts(r).policyAllowsClaim),
             UNCHANGED <<rooms, destroyed, desc, clock>>
      PROVE  Goal
  <2> DEFINE occ == [occupied[r] EXCEPT ![i] = TRUE]
             st == Starts(r, occ, Opts(r))
  <2>1. /\ occ \in [Ids -> BOOLEAN] /\ st \in BOOLEAN
        /\ \A j \in Ids : occ[j] <=> j = i \/ occupied[r][j]
        /\ st <=> started[r] \/ ~Opts(r).waitUntilFull \/ \A j \in 0 .. Opts(r).maxPlayers - 1 : occ[j]
        /\ Attach(r, i, c, t, occ, st, "session-superseded", "player-joined", {})
    BY <1>2, <1>3, OccupyEffect
  <2> HIDE DEF occ, st
  <2>2. ~destroyed'[r] /\ desc'[r].opts = Opts(r) /\ desc'[r].opts \in RoomOptions
    BY <1>2, <1>3 DEF Opts
  <2>3. Enters(r, i, c, t, occ, st, "session-superseded", "player-joined", {})
    BY <1>1, <1>2, <1>3, <2>1, <2>2 DEF Enters
  <2> QED
    BY <1>1, <1>2, <1>3, <2>1, <2>3
<1>4. ASSUME NEW i \in Ids, NEW reason \in KickReasons, MayEnter(c, code, app), occupied[r][i],
             \/ reason = "session-superseded" /\ Opts(r).allowReconnect
             \/ /\ reason = "replaced" /\ Opts(r).allowReplacement /\ Opts(r).policyAllowsClaim
                /\ t - lastSeenAt[r][i] >= Opts(r).claimAfter,
             Attach(r, i, c, t, occupied[r], started[r], reason, "player-rejoined", {}),
             UNCHANGED <<rooms, destroyed, desc, clock>>
      PROVE  Goal
  <2>1. desc'[r].opts \in RoomOptions
    BY <1>2, <1>4 DEF Opts
  <2>2. Enters(r, i, c, t, occupied[r], started[r], reason, "player-rejoined", {})
    BY <1>2, <1>4, <2>1 DEF Enters
  <2> QED
    BY <1>2, <1>4, <2>2
<1>5. CASE \E resume \in known : JoinResume(c, code, app, resume, t)
  <2>1. MayEnter(c, code, app) /\ UNCHANGED <<rooms, destroyed, desc, clock>>
    BY <1>5 DEF JoinResume
  <2>2. PICK resume \in known : \E i \in Matching(r, resume) :
          Attach(r, i, c, t, occupied[r], started[r], "session-superseded", "player-rejoined", {})
    BY <1>5 DEF JoinResume
  <2>3. PICK i \in Ids : /\ occupied[r][i] /\ Opts(r).allowReconnect
                         /\ Attach(r, i, c, t, occupied[r], started[r], "session-superseded", "player-rejoined", {})
    BY <2>2 DEF Matching
  <2> QED
    BY <1>1, <1>4, <2>1, <2>3
<1>6. CASE \E resume \in known \cup {NoToken} : JoinFresh(c, code, app, resume, t)
  <2>1. MayEnter(c, code, app) /\ NotTooLate(r) /\ UNCHANGED <<rooms, destroyed, desc, clock>>
    BY <1>6 DEF JoinFresh
  <2>2. PICK i \in Slots(r) : ~occupied[r][i] /\ Occupy(r, i, c, t, Opts(r), {})
    BY <1>6 DEF JoinFresh
  <2> QED
    BY <1>2, <1>3, <2>1, <2>2
<1>7. CASE \E opts \in CreateOptions : JoinCreate(c, code, app, opts, t)
  <2> DEFINE S == SweptByJoin(t)
  <2>1. PICK opts \in CreateOptions, q \in Unused :
          Create(q, code, app, opts, t) /\ Occupy(q, 0, c, t, opts, S)
    BY <1>7 DEF JoinCreate
  <2>2. 0 \in Ids /\ opts \in RoomOptions /\ clock' = clock /\ sess[c] = NoSession /\ wire[c] # "off"
    BY <1>7, BoundsAssumption DEF Ids, JoinCreate
  <2>3. /\ q \in Rooms /\ destroyed[q] /\ ~destroyed'[q] /\ q \notin S
        /\ \A p \in Rooms \ {q} : destroyed'[p] <=> destroyed[p] \/ p \in S
    BY <2>1, CreatedRoom
  <2>4. desc'[q].opts = opts /\ \A p \in Rooms \ {q} : p \notin S => desc'[p] = desc[p]
    <3>1. desc' = [[p \in Rooms |-> IF p \in S THEN NoDesc ELSE desc[p]] EXCEPT
                     ![q] = [appID |-> app, opts |-> opts, createdAt |-> t]]
      BY <2>1 DEF Create, ForgetRoom
    <3> QED
      BY <2>3, <3>1
  <2>5. S \in SUBSET Rooms
    BY DEF SweptByJoin, Collectable, Live
  <2> HIDE DEF S
  <2> DEFINE occ == [occupied[q] EXCEPT ![0] = TRUE]
             st == Starts(q, occ, opts)
  <2>6. /\ occ \in [Ids -> BOOLEAN] /\ st \in BOOLEAN
        /\ \A j \in Ids : occ[j] <=> j = 0 \/ occupied[q][j]
        /\ st <=> started[q] \/ ~opts.waitUntilFull \/ \A j \in 0 .. opts.maxPlayers - 1 : occ[j]
        /\ Attach(q, 0, c, t, occ, st, "session-superseded", "player-joined", S)
    BY <2>1, <2>2, <2>3, OccupyEffect
  <2> HIDE DEF occ, st
  <2>7. Enters(q, 0, c, t, occ, st, "session-superseded", "player-joined", S)
    BY <1>1, <2>2, <2>3, <2>4, <2>6 DEF Enters
  <2> QED
    BY <1>1, <2>2, <2>3, <2>5, <2>6, <2>7
<1>8. CASE \E opts \in CreateOptions : JoinCreateFails(c, code, app, opts, t)
  BY <1>8
<1>9. CASE \E i \in Ids : ClaimFree(c, code, app, i, t)
  BY <1>3, <1>9 DEF ClaimFree, MayClaim
<1>10. CASE \E i \in Ids : ClaimSilent(c, code, app, i, t)
  BY <1>1, <1>4, <1>10 DEF ClaimSilent, MayClaim
<1> HIDE DEF Goal
<1> QED
  BY <1>5, <1>6, <1>7, <1>8, <1>9, <1>10 DEF JoinOrClaim, Goal

\* The fields of the rooms and slots after a slot is taken.
LEMMA EntersEffect ==
  ASSUME TypeOK, NEW r \in Rooms, NEW i \in Ids, NEW c \in Conns, NEW t,
         NEW occ, NEW st, NEW reason, NEW note, NEW swept,
         Enters(r, i, c, t, occ, st, reason, note, swept)
  PROVE  /\ \A q \in Rooms, j \in Ids : occupied'[q][j] <=>
               IF q = r THEN occ[j] ELSE q \notin swept /\ occupied[q][j]
         /\ \A q \in Rooms : started'[q] <=>
               IF q = r THEN st ELSE q \notin swept /\ started[q]
         /\ \A q \in Rooms, j \in Ids : token'[q][j] =
               IF q = r /\ j = i THEN NewToken ELSE IF q \in swept THEN NoToken ELSE token[q][j]
         /\ \A q \in Rooms, j \in Ids : lastSeenAt'[q][j] =
               IF q = r /\ j = i THEN t ELSE IF q \in swept THEN 0 ELSE lastSeenAt[q][j]
         /\ \A q \in Rooms, j \in Ids : heard'[q][j] =
               IF q = r /\ j = i THEN clock ELSE IF q \in swept THEN 0 ELSE heard[q][j]
         /\ issued' = issued + 1
<1>1. r \notin swept /\ Attach(r, i, c, t, occ, st, reason, note, swept)
  BY DEF Enters
<1> DEFINE occupied_ == Forget(occupied, swept, FALSE)
           token_ == Forget(token, swept, NoToken)
           lastSeenAt_ == Forget(lastSeenAt, swept, 0)
           heard_ == Forget(heard, swept, 0)
<1>2. NoToken \in 0 .. MaxTokens /\ 0 \in Time
  BY BoundsAssumption DEF NoToken, Time
<1>2a. /\ occupied_ \in [Rooms -> [Ids -> BOOLEAN]]
       /\ \A q \in Rooms, j \in Ids : occupied_[q][j] <=> q \notin swept /\ occupied[q][j]
  <2>1. occupied_ \in [Rooms -> [Ids -> BOOLEAN]]
    BY ForgetType DEF TypeOK
  <2>2. \A q \in Rooms, j \in Ids : occupied_[q][j] <=> q \notin swept /\ occupied[q][j]
    BY DEF Forget, ForgetRoom
  <2> QED
    BY <2>1, <2>2
<1>2b. /\ token_ \in [Rooms -> [Ids -> 0 .. MaxTokens]]
       /\ \A q \in Rooms, j \in Ids : token_[q][j] = IF q \in swept THEN NoToken ELSE token[q][j]
  <2>1. token_ \in [Rooms -> [Ids -> 0 .. MaxTokens]]
    BY <1>2, ForgetType DEF TypeOK
  <2>2. \A q \in Rooms, j \in Ids : token_[q][j] = IF q \in swept THEN NoToken ELSE token[q][j]
    BY DEF Forget, ForgetRoom
  <2> QED
    BY <2>1, <2>2
<1>2c. /\ lastSeenAt_ \in [Rooms -> [Ids -> Time]]
       /\ \A q \in Rooms, j \in Ids : lastSeenAt_[q][j] = IF q \in swept THEN 0 ELSE lastSeenAt[q][j]
  <2>1. lastSeenAt_ \in [Rooms -> [Ids -> Time]]
    BY <1>2, ForgetType DEF TypeOK, Time
  <2>2. \A q \in Rooms, j \in Ids : lastSeenAt_[q][j] = IF q \in swept THEN 0 ELSE lastSeenAt[q][j]
    BY DEF Forget, ForgetRoom
  <2> QED
    BY <2>1, <2>2
<1>2d. /\ heard_ \in [Rooms -> [Ids -> Time]]
       /\ \A q \in Rooms, j \in Ids : heard_[q][j] = IF q \in swept THEN 0 ELSE heard[q][j]
  <2>1. heard_ \in [Rooms -> [Ids -> Time]]
    BY <1>2, ForgetType DEF TypeOK, Time
  <2>2. \A q \in Rooms, j \in Ids : heard_[q][j] = IF q \in swept THEN 0 ELSE heard[q][j]
    BY DEF Forget, ForgetRoom
  <2> QED
    BY <2>1, <2>2
<1>3. /\ occupied' = [occupied_ EXCEPT ![r] = occ]
      /\ token' = [token_ EXCEPT ![r][i] = NewToken]
      /\ lastSeenAt' = [lastSeenAt_ EXCEPT ![r][i] = t]
      /\ heard' = [heard_ EXCEPT ![r][i] = clock]
      /\ issued' = issued + 1
  BY <1>1 DEF Attach
<1>4. \A q \in Rooms : started'[q] <=> IF q = r THEN st ELSE q \notin swept /\ started[q]
  BY <1>1 DEF Attach, ForgetRoom
<1> HIDE DEF occupied_, token_, lastSeenAt_, heard_
<1>5. \A q \in Rooms, j \in Ids : occupied'[q][j] <=>
        IF q = r THEN occ[j] ELSE q \notin swept /\ occupied[q][j]
  BY <1>2a, <1>3
<1>6. \A q \in Rooms, j \in Ids : token'[q][j] =
        IF q = r /\ j = i THEN NewToken ELSE IF q \in swept THEN NoToken ELSE token[q][j]
  BY <1>2b, <1>3
<1>7. \A q \in Rooms, j \in Ids : lastSeenAt'[q][j] =
        IF q = r /\ j = i THEN t ELSE IF q \in swept THEN 0 ELSE lastSeenAt[q][j]
  BY <1>2c, <1>3
<1>8. \A q \in Rooms, j \in Ids : heard'[q][j] =
        IF q = r /\ j = i THEN clock ELSE IF q \in swept THEN 0 ELSE heard[q][j]
  BY <1>2d, <1>3
<1> QED
  BY <1>3, <1>4, <1>5, <1>6, <1>7, <1>8

\* Every field of the rooms S is forgotten.
Swept(S) ==
  /\ \A q \in Rooms, j \in Ids :
       /\ occupied'[q][j] <=> q \notin S /\ occupied[q][j]
       /\ conn'[q][j] = IF q \in S THEN NoConn ELSE conn[q][j]
       /\ token'[q][j] = IF q \in S THEN NoToken ELSE token[q][j]
       /\ lastSeenAt'[q][j] = IF q \in S THEN 0 ELSE lastSeenAt[q][j]
       /\ heard'[q][j] = IF q \in S THEN 0 ELSE heard[q][j]
  /\ \A q \in Rooms : started'[q] <=> q \notin S /\ started[q]
  /\ view' = [c \in Conns |-> IF c \in AttachedTo(S) THEN NoView ELSE view[c]]
  /\ issued' = issued /\ known' = known

\* A collection, and a creation that fails, forget the rooms they destroy; the room
\* left by the latter was destroyed before.
LEMMA SweepEffect ==
  ASSUME TypeOK, RoomsLinked, SlotInv, NEW t,
         \/ GC(t)
         \/ \E c \in Conns, code \in Codes, app \in Apps, opts \in CreateOptions :
              JoinCreateFails(c, code, app, opts, t)
  PROVE  \E S \in SUBSET Rooms :
           /\ Swept(S)
           /\ \A q \in Rooms : destroyed'[q] => q \in S \/ destroyed[q]
           /\ \A q \in Rooms : ~destroyed'[q] => destroyed[q] \/ (q \notin S /\ desc'[q] = desc[q])
<1>1. ASSUME NEW S,
             /\ occupied' = Forget(occupied, S, FALSE)
             /\ conn' = Forget(conn, S, NoConn)
             /\ token' = Forget(token, S, NoToken)
             /\ lastSeenAt' = Forget(lastSeenAt, S, 0)
             /\ heard' = Forget(heard, S, 0)
             /\ started' = ForgetRoom(started, S, FALSE)
             /\ view' = [c \in Conns |-> IF c \in AttachedTo(S) THEN NoView ELSE view[c]]
             /\ UNCHANGED <<issued, known>>
      PROVE  Swept(S)
  <2>1. \A q \in Rooms, j \in Ids :
          /\ occupied'[q][j] <=> q \notin S /\ occupied[q][j]
          /\ conn'[q][j] = IF q \in S THEN NoConn ELSE conn[q][j]
    BY <1>1 DEF Forget, ForgetRoom
  <2>2. \A q \in Rooms, j \in Ids :
          /\ token'[q][j] = IF q \in S THEN NoToken ELSE token[q][j]
          /\ lastSeenAt'[q][j] = IF q \in S THEN 0 ELSE lastSeenAt[q][j]
          /\ heard'[q][j] = IF q \in S THEN 0 ELSE heard[q][j]
    BY <1>1 DEF Forget, ForgetRoom
  <2>3. \A q \in Rooms : started'[q] <=> q \notin S /\ started[q]
    BY <1>1 DEF ForgetRoom
  <2> QED
    BY <1>1, <2>1, <2>2, <2>3 DEF Swept
<1>2. CASE GC(t)
  <2> DEFINE S == Collectable(t)
  <2>1. S \in SUBSET Rooms
    BY DEF Collectable, Live
  <2>2. Swept(S)
    <3> HIDE DEF S
    <3> QED
      BY <1>1, <1>2 DEF GC, Collect, S
  <2>3. /\ \A q \in Rooms : destroyed'[q] <=> q \in S \/ destroyed[q]
        /\ \A q \in Rooms : q \notin S => desc'[q] = desc[q]
    BY <1>2 DEF GC, Collect, ForgetRoom
  <2> HIDE DEF S
  <2> QED
    BY <2>1, <2>2, <2>3
<1>3. ASSUME NEW c \in Conns, NEW code \in Codes, NEW app \in Apps, NEW opts \in CreateOptions,
             JoinCreateFails(c, code, app, opts, t)
      PROVE  \E S \in SUBSET Rooms :
               /\ Swept(S)
               /\ \A q \in Rooms : destroyed'[q] => q \in S \/ destroyed[q]
               /\ \A q \in Rooms : ~destroyed'[q] => destroyed[q] \/ (q \notin S /\ desc'[q] = desc[q])
  <2> DEFINE S == SweptByJoin(t)
  <2>1. PICK r \in Unused : Create(r, code, app, opts, t) /\ Abandon(r, t, S)
    BY <1>3 DEF JoinCreateFails
  <2>2. /\ r \in Rooms /\ destroyed[r] /\ ~destroyed'[r]
        /\ \A q \in Rooms \ {r} : destroyed'[q] <=> destroyed[q] \/ q \in S
    BY <2>1, CreatedRoom
  <2>3. \A q \in Rooms \ {r} : q \notin S => desc'[q] = desc[q]
    BY <2>1, <2>2 DEF Create, ForgetRoom
  <2>4. S \in SUBSET Rooms
    BY DEF SweptByJoin, Collectable, Live
  <2>5. UNCHANGED <<issued, known>>
    BY <1>3 DEF JoinCreateFails
  <2> HIDE DEF S
  <2>6. Swept(S)
    BY <1>1, <2>1, <2>5 DEF Abandon
  <2> QED
    BY <2>2, <2>3, <2>4, <2>6
<1> QED
  BY <1>2, <1>3

\* What a join or claim does to the transports of the slots and to the tokens known.
LEMMA EntersAttaches ==
  ASSUME TypeOK, NEW r \in Rooms, NEW i \in Ids, NEW c \in Conns, NEW t,
         NEW occ, NEW st, NEW reason, NEW note, NEW swept,
         Enters(r, i, c, t, occ, st, reason, note, swept)
  PROVE  /\ known \subseteq known'
         /\ conn'[r][i] # NoConn => conn'[r][i] = c /\ NewToken \in known'
         /\ \A j \in Ids \ {i} : conn'[r][j] # NoConn => conn'[r][j] = conn[r][j]
         /\ \A q \in Rooms \ {r}, j \in Ids : conn'[q][j] = IF q \in swept THEN NoConn ELSE conn[q][j]
         /\ \A d \in Conns : wire'[d] = "replaced" => wire[d] = "replaced" \/ reason = "replaced"
<1>1. /\ occ \in [Ids -> BOOLEAN] /\ st \in BOOLEAN /\ reason \in KickReasons
      /\ Attach(r, i, c, t, occ, st, reason, note, swept)
  BY DEF Enters
<1>2. PICK delivered \in BOOLEAN : Deliver(delivered, r, i, c, t, occ, st, reason, note, swept)
  BY <1>1 DEF Attach
<1> DEFINE hold == Seated(r, i, c, delivered)
           w == AfterKicks(r, i, c, delivered, reason, swept)
           since == UpdateEmpty(NoTime, Up(hold), t)
<1>3. hold \in Holding /\ \A j \in Ids : hold[j] = IF j # i THEN conn[r][j] ELSE IF delivered THEN c ELSE NoConn
  BY DEF Seated, TypeOK, Holding
<1>4. w \in Wires
  BY <1>1, KickedType DEF AfterKicks, TypeOK, Wires, WireStates, KickReasons
<1>5. \A d \in Conns : w[d] = "replaced" => wire[d] = "replaced" \/ reason = "replaced"
  BY DEF AfterKicks, Kicked
<1>6. /\ known' = IF delivered THEN known \cup {NewToken} ELSE known
      /\ Broadcast(r, hold, w, since, Up(hold) \ {i}, Told(r, i, c, hold, occ, st, note), swept)
  BY <1>2 DEF Deliver
<1> HIDE DEF hold, w, since
<1>7. PICK remain \in SUBSET Up(hold) : Leaves(r, hold, w, since, swept, remain)
  BY <1>3, <1>4, <1>6, BroadcastEffect
<1>8. /\ \A j \in Ids : conn'[r][j] = IF j \in remain THEN hold[j] ELSE NoConn
      /\ \A q \in Rooms, j \in Ids : q # r => conn'[q][j] = IF q \in swept THEN NoConn ELSE conn[q][j]
      /\ \A d \in Conns : wire'[d] = w[d] \/ (w[d] = "open" /\ wire'[d] = "slow-consumer")
  BY <1>7 DEF Leaves
<1>9. conn'[r][i] # NoConn => delivered /\ conn'[r][i] = c
  BY <1>3, <1>8
<1>10. \A d \in Conns : wire'[d] = "replaced" => wire[d] = "replaced" \/ reason = "replaced"
  BY <1>5, <1>8
<1> QED
  BY <1>3, <1>6, <1>8, <1>9, <1>10

\* Rooms and slots after a step that neither gives a slot nor destroys a room: a
\* leave gives its slot and token up, a broadcast may detach transports, and a
\* message of a slot's player dates the slot.
Stays ==
  /\ UNCHANGED <<destroyed, desc, started, issued, known>>
  /\ \A q \in Rooms, j \in Ids :
       /\ occupied'[q][j] => occupied[q][j] /\ token'[q][j] = token[q][j]
       /\ token'[q][j] \in {token[q][j], NoToken}
       /\ conn'[q][j] # NoConn => conn'[q][j] = conn[q][j] /\ token'[q][j] = token[q][j]
       /\ \/ lastSeenAt'[q][j] = lastSeenAt[q][j] /\ heard'[q][j] = heard[q][j]
          \/ lastSeenAt'[q][j] \in Times /\ heard'[q][j] = clock

\* A broadcast that follows a detachment only detaches more transports.
LEMMA DetachEffect ==
  ASSUME TypeOK, NEW r \in Rooms, NEW i \in Ids, NEW w \in Wires, NEW since, NEW first, NEW told,
         Broadcast(r, [conn[r] EXCEPT ![i] = NoConn], w, since, first, told, {})
  PROVE  /\ conn'[r][i] = NoConn
         /\ \A q \in Rooms, j \in Ids : conn'[q][j] # NoConn => conn'[q][j] = conn[q][j]
<1> DEFINE hold == [conn[r] EXCEPT ![i] = NoConn]
<1>1. hold \in Holding /\ \A j \in Ids : hold[j] = IF j = i THEN NoConn ELSE conn[r][j]
  BY DEF TypeOK, Holding
<1> HIDE DEF hold
<1>2. PICK remain \in SUBSET Up(hold) : Leaves(r, hold, w, since, {}, remain)
  BY <1>1, BroadcastEffect DEF hold
<1> QED
  BY <1>1, <1>2 DEF Leaves

\* The steps of sessions and transports.
LEMMA DepartureStays ==
  ASSUME TypeOK, NEW c \in Conns, Leave(c) \/ Disconnect(c)
  PROVE  Stays
<1> DEFINE r == sess[c].room
           i == sess[c].id
           hold == [conn[r] EXCEPT ![i] = NoConn]
<1>1. r \in Rooms /\ i \in Ids
  BY CurrentType DEF Leave, Disconnect
<1>2. \E w \in Wires : \E first, told : Broadcast(r, hold, w, emptySince[r], first, told, {})
  <2>1. wire \in Wires /\ [wire EXCEPT ![c] = "off"] \in Wires
    BY DEF TypeOK, Wires, WireStates
  <2> QED
    BY <2>1 DEF Leave, Disconnect
<1>3. conn'[r][i] = NoConn /\ \A q \in Rooms, j \in Ids : conn'[q][j] # NoConn => conn'[q][j] = conn[q][j]
  BY <1>1, <1>2, DetachEffect
<1>4. UNCHANGED <<destroyed, desc, started, issued, known, lastSeenAt, heard>>
  BY DEF Leave, Disconnect
<1>5. \A q \in Rooms, j \in Ids :
        \/ occupied'[q][j] = occupied[q][j] /\ token'[q][j] = token[q][j]
        \/ q = r /\ j = i /\ ~occupied'[q][j] /\ token'[q][j] = NoToken
  BY <1>1 DEF Leave, Disconnect, TypeOK
<1> HIDE DEF r, i, hold
<1> QED
  BY <1>3, <1>4, <1>5 DEF Stays

\* A signal whose target is dropped detaches it, and dates the sender's slot.
LEMMA SignalDropsStays ==
  ASSUME TypeOK, NEW c \in Conns, NEW to \in Ids, NEW t \in Times, SignalDropsTarget(c, to, t)
  PROVE  Stays
<1> DEFINE r == sess[c].room
           w == Kicked(wire, {conn[r][to]}, "slow-consumer")
<1>1. r \in Rooms /\ w \in Wires
  BY CurrentType, KickedType DEF SignalDropsTarget, TypeOK, Wires, WireStates, KickReasons
<1>2. Broadcast(r, [conn[r] EXCEPT ![to] = NoConn], w, emptySince[r], Up([conn[r] EXCEPT ![to] = NoConn]),
                [d \in Conns |-> [view[d] EXCEPT !.roster = Disconnected(@, {to})]], {})
  BY DEF SignalDropsTarget
<1>3. \A q \in Rooms, j \in Ids : conn'[q][j] # NoConn => conn'[q][j] = conn[q][j]
  <2> HIDE DEF r, w
  <2> QED
    BY <1>1, <1>2, DetachEffect
<1>4. UNCHANGED <<destroyed, desc, started, issued, known, occupied, token>>
  BY DEF SignalDropsTarget
<1>5. \A q \in Rooms, j \in Ids :
        \/ lastSeenAt'[q][j] = lastSeenAt[q][j] /\ heard'[q][j] = heard[q][j]
        \/ lastSeenAt'[q][j] = t /\ heard'[q][j] = clock
  BY CurrentType DEF SignalDropsTarget, Seen, TypeOK
<1> HIDE DEF r, w
<1> QED
  BY <1>3, <1>4, <1>5 DEF Stays

\* A message that counts as activity only dates the sender's slot.
LEMMA SeenStays ==
  ASSUME TypeOK, NEW c \in Conns, NEW t \in Times, NEW to \in Ids, Touch(c, t) \/ Signal(c, to, t)
  PROVE  Stays
<1>1. UNCHANGED <<destroyed, desc, started, issued, known, occupied, token, conn>>
  BY DEF Touch, Signal, roomVars
<1>2. \A q \in Rooms, j \in Ids :
        \/ lastSeenAt'[q][j] = lastSeenAt[q][j] /\ heard'[q][j] = heard[q][j]
        \/ lastSeenAt'[q][j] = t /\ heard'[q][j] = clock
  <2>1. IsCurrent(c) /\ Seen(c, t)
    BY DEF Touch, Signal
  <2> QED
    BY <2>1, CurrentType DEF Seen, TypeOK
<1> QED
  BY <1>1, <1>2 DEF Stays

\* The kinds of step: a slot is taken; rooms are forgotten; rooms and slots stay.
LEMMA StepKinds ==
  ASSUME TypeOK, RoomsLinked, SlotInv, [Next]_vars
  PROVE  \/ \E c \in Conns, t \in Times, r \in Rooms, i \in Ids, occ \in [Ids -> BOOLEAN],
               st \in BOOLEAN, reason \in KickReasons,
               note \in {"player-joined", "player-rejoined"}, swept \in SUBSET Rooms :
              Enters(r, i, c, t, occ, st, reason, note, swept)
         \/ \E S \in SUBSET Rooms :
              /\ Swept(S)
              /\ \A q \in Rooms : destroyed'[q] => q \in S \/ destroyed[q]
              /\ \A q \in Rooms : ~destroyed'[q] => destroyed[q] \/ (q \notin S /\ desc'[q] = desc[q])
         \/ Stays
<1> DEFINE Entered == \E c \in Conns, t \in Times, r \in Rooms, i \in Ids, occ \in [Ids -> BOOLEAN],
                        st \in BOOLEAN, reason \in KickReasons,
                        note \in {"player-joined", "player-rejoined"}, swept \in SUBSET Rooms :
                        Enters(r, i, c, t, occ, st, reason, note, swept)
           Forgotten == \E S \in SUBSET Rooms :
              /\ Swept(S)
              /\ \A q \in Rooms : destroyed'[q] => q \in S \/ destroyed[q]
              /\ \A q \in Rooms : ~destroyed'[q] => destroyed[q] \/ (q \notin S /\ desc'[q] = desc[q])
<1>1. ASSUME NEW c \in Conns, NEW code \in Codes, NEW app \in Apps, NEW t \in Times,
             JoinOrClaim(c, code, app, t)
      PROVE  Entered \/ Forgotten
  <2>1. CASE \E opts \in CreateOptions : JoinCreateFails(c, code, app, opts, t)
    BY <2>1, SweepEffect
  <2>2. CASE \E r \in Rooms, i \in Ids, occ \in [Ids -> BOOLEAN], st \in BOOLEAN,
               reason \in KickReasons, note \in {"player-joined", "player-rejoined"},
               swept \in SUBSET Rooms :
              Enters(r, i, c, t, occ, st, reason, note, swept)
    BY <2>2
  <2> QED
    BY <1>1, <2>1, <2>2, JoinOrClaimEnters
<1>2. ASSUME NEW t \in Times, GC(t) PROVE Forgotten
  BY <1>2, SweepEffect
<1>3. ASSUME NEW c \in Conns, Leave(c) \/ Disconnect(c) PROVE Stays
  BY <1>3, DepartureStays
<1>4. ASSUME NEW c \in Conns, NEW to \in Ids, NEW t \in Times, SignalDropsTarget(c, to, t) PROVE Stays
  BY <1>4, SignalDropsStays
<1>5. ASSUME NEW c \in Conns, NEW t \in Times, NEW to \in Ids, Touch(c, t) \/ Signal(c, to, t)
      PROVE  Stays
  BY <1>5, SeenStays
<1>6. ASSUME NEW c \in Conns, Connect(c) \/ WriterFails(c) \/ ReaderEnds(c) \/ LeaveStale(c)
      PROVE  Stays
  <2>1. UNCHANGED <<roomVars, slotVars, issued, known, ghostVars>>
    BY <1>6 DEF Connect, WriterFails, ReaderEnds, LeaveStale
  <2> QED
    BY <2>1 DEF Stays, roomVars, slotVars, ghostVars
<1>7. ASSUME Tick \/ UNCHANGED vars PROVE Stays
  <2>1. UNCHANGED <<roomVars, slotVars, issued, known, ghostVars>>
    BY <1>7 DEF Tick, vars
  <2> QED
    BY <2>1 DEF Stays, roomVars, slotVars, ghostVars
<1>8. 0 \in Ids
  BY BoundsAssumption DEF Ids
<1> HIDE DEF Entered, Forgotten
<1>9. Entered \/ Forgotten \/ Stays
  BY <1>1, <1>2, <1>3, <1>4, <1>5, <1>6, <1>7, <1>8 DEF Next
<1> QED
  BY <1>9 DEF Entered, Forgotten

-----------------------------------------------------------------------------
(* Starting, tokens and activity *)

\* A destroyed room has no player, and has not started.
DestroyedBlank == \A r \in Rooms : destroyed[r] => ~started[r] /\ \A i \in Ids : ~occupied[r][i]

\* No slot has a token that is still to be issued.
TokensIssued == \A r \in Rooms, i \in Ids : token[r][i] <= issued

\* A slot is dated no earlier, by more than the age of clock readings, than the
\* moment its player was last heard.
HeardIsDated == \A r \in Rooms, i \in Ids : lastSeenAt[r][i] >= heard[r][i] - MaxLag

\* What is known of starting, tokens and dates: the part of the properties below
\* that is inductive together with the slots' invariant.
LedgerInv == DestroyedBlank /\ StartedWhenDue /\ TokensIssued /\ ResumeRoutes /\ HeardIsDated

\* A clock reading is at most MaxLag old.
LEMMA TimesLag == TypeOK => /\ clock \in Time
                            /\ \A t \in Times : t \in Time /\ t <= clock /\ t >= clock - MaxLag
BY BoundsAssumption DEF TypeOK, Times, Time

\* Taking a slot keeps the ledger: the joiner is counted before the room is tested
\* for being full, its token is new, and it is dated by its own reading.
LEMMA EntersLedger ==
  ASSUME TypeOK, LedgerInv, NEW r \in Rooms, NEW i \in Ids, NEW c \in Conns, NEW t \in Times,
         NEW occ \in [Ids -> BOOLEAN], NEW st \in BOOLEAN, NEW reason, NEW note, NEW swept,
         Enters(r, i, c, t, occ, st, reason, note, swept)
  PROVE  LedgerInv'
<1>1. /\ r \notin swept /\ ~destroyed'[r] /\ desc'[r].opts \in RoomOptions
      /\ \A j \in Ids : occ[j] <=> j = i \/ occupied[r][j]
      /\ \A q \in Rooms \ {r} : destroyed'[q] <=> destroyed[q] \/ q \in swept
      /\ \A q \in Rooms \ {r} : ~destroyed'[q] => desc'[q] = desc[q]
      /\ ~destroyed[r] => desc' = desc
      /\ \/ st <=> started[r] \/ ~desc'[r].opts.waitUntilFull
                  \/ \A j \in 0 .. desc'[r].opts.maxPlayers - 1 : occ[j]
         \/ ~destroyed[r] /\ occ = occupied[r] /\ st = started[r]
  BY DEF Enters
<1>2. /\ \A q \in Rooms, j \in Ids : occupied'[q][j] <=>
            IF q = r THEN occ[j] ELSE q \notin swept /\ occupied[q][j]
      /\ \A q \in Rooms : started'[q] <=>
            IF q = r THEN st ELSE q \notin swept /\ started[q]
      /\ \A q \in Rooms, j \in Ids : token'[q][j] =
            IF q = r /\ j = i THEN NewToken ELSE IF q \in swept THEN NoToken ELSE token[q][j]
      /\ \A q \in Rooms, j \in Ids : lastSeenAt'[q][j] =
            IF q = r /\ j = i THEN t ELSE IF q \in swept THEN 0 ELSE lastSeenAt[q][j]
      /\ \A q \in Rooms, j \in Ids : heard'[q][j] =
            IF q = r /\ j = i THEN clock ELSE IF q \in swept THEN 0 ELSE heard[q][j]
      /\ issued' = issued + 1
  BY EntersEffect
<1>3. /\ known \subseteq known'
      /\ conn'[r][i] # NoConn => NewToken \in known'
      /\ \A j \in Ids \ {i} : conn'[r][j] # NoConn => conn'[r][j] = conn[r][j]
      /\ \A q \in Rooms \ {r}, j \in Ids : conn'[q][j] = IF q \in swept THEN NoConn ELSE conn[q][j]
  BY EntersAttaches
<1>4. DestroyedBlank'
  BY <1>1, <1>2 DEF LedgerInv, DestroyedBlank
<1>5. StartedWhenDue'
  <2> SUFFICES \A q \in Rooms :
                 /\ ~destroyed'[q] /\ ~desc'[q].opts.waitUntilFull /\ (\E j \in Ids : occupied'[q][j])
                      => started'[q]
                 /\ ~destroyed'[q] /\ (\A j \in 0 .. desc'[q].opts.maxPlayers - 1 : occupied'[q][j])
                      => started'[q]
    BY DEF StartedWhenDue, Opts, Slots
  <2> SUFFICES ASSUME NEW q \in Rooms, ~destroyed'[q], ~started'[q]
               PROVE  /\ desc'[q].opts.waitUntilFull \/ ~\E j \in Ids : occupied'[q][j]
                      /\ ~\A j \in 0 .. desc'[q].opts.maxPlayers - 1 : occupied'[q][j]
    OBVIOUS
  <2>1. CASE q # r
    <3>1. q \notin swept /\ ~destroyed[q] /\ desc'[q] = desc[q] /\ ~started[q]
      BY <1>1, <1>2, <2>1
    <3>2. /\ desc[q].opts.waitUntilFull \/ ~\E j \in Ids : occupied[q][j]
          /\ ~\A j \in 0 .. desc[q].opts.maxPlayers - 1 : occupied[q][j]
      BY <3>1 DEF LedgerInv, StartedWhenDue, Opts, Slots
    <3>3. \A j \in Ids : occupied'[q][j] <=> occupied[q][j]
      BY <1>2, <2>1, <3>1
    <3>4. 0 .. desc[q].opts.maxPlayers - 1 \subseteq Ids
      BY <3>1, OptionsType DEF Opts, Slots
    <3> QED
      BY <3>1, <3>2, <3>3, <3>4
  <2>2. CASE q = r
    <3>1. ~st /\ \A j \in Ids : occupied'[r][j] <=> occ[j]
      BY <1>2, <2>2
    <3>2. CASE st <=> started[r] \/ ~desc'[r].opts.waitUntilFull
                      \/ \A j \in 0 .. desc'[r].opts.maxPlayers - 1 : occ[j]
      <4>1. desc'[r].opts.waitUntilFull
        BY <3>1, <3>2
      <4>2. PICK j \in 0 .. desc'[r].opts.maxPlayers - 1 : ~occ[j]
        BY <3>1, <3>2
      <4>3. j \in Ids
        BY <1>1, <4>2, BoundsAssumption DEF RoomOptions, Ids
      <4> QED
        BY <2>2, <3>1, <4>1, <4>2, <4>3
    <3>3. CASE ~destroyed[r] /\ occ = occupied[r] /\ st = started[r]
      <4>1. desc'[r] = desc[r] /\ ~started[r]
        BY <1>1, <3>1, <3>3
      <4>2. /\ desc[r].opts.waitUntilFull \/ ~\E j \in Ids : occupied[r][j]
            /\ ~\A j \in 0 .. desc[r].opts.maxPlayers - 1 : occupied[r][j]
        BY <3>3, <4>1 DEF LedgerInv, StartedWhenDue, Opts, Slots
      <4>3. 0 .. desc[r].opts.maxPlayers - 1 \subseteq Ids
        BY <3>3, OptionsType DEF Opts, Slots
      <4> QED
        BY <2>2, <3>1, <3>3, <4>1, <4>2, <4>3
    <3> QED
      BY <1>1, <3>2, <3>3
  <2> QED
    BY <2>1, <2>2
<1>6. issued \in Nat /\ \A q \in Rooms, j \in Ids : token[q][j] \in Nat /\ token[q][j] <= issued
  BY DEF TypeOK, LedgerInv, TokensIssued
<1>7. TokensIssued'
  BY <1>2, <1>6 DEF TokensIssued, NewToken, NoToken
<1>8. ResumeRoutes'
  <2>1. ASSUME NEW q \in Rooms, NEW j \in Ids, conn'[q][j] # NoConn PROVE token'[q][j] \in known'
    <3>1. CASE q = r /\ j = i
      BY <1>2, <1>3, <2>1, <3>1
    <3>2. CASE ~(q = r /\ j = i)
      <4>1. q \notin swept /\ conn[q][j] # NoConn
        BY <1>1, <1>3, <2>1, <3>2
      <4>2. token'[q][j] = token[q][j] /\ token[q][j] \in known
        BY <1>2, <3>2, <4>1 DEF LedgerInv, ResumeRoutes
      <4> QED
        BY <1>3, <4>2
    <3> QED
      BY <3>1, <3>2
  <2>2. ASSUME NEW q \in Rooms, NEW j \in Ids, occupied'[q][j], ~(q = r /\ j = i)
        PROVE  occupied[q][j] /\ token'[q][j] = token[q][j] /\ token'[q][j] # token'[r][i]
    <3>1. q \notin swept /\ occupied[q][j]
      BY <1>1, <1>2, <2>2
    <3>2. token'[q][j] = token[q][j] /\ token'[r][i] = issued + 1
      BY ONLY <1>2, <2>2, <3>1, r \in Rooms, i \in Ids DEF NewToken
    <3>3. token[q][j] \in Nat /\ token[q][j] <= issued
      BY <1>6
    <3>4. token'[q][j] # token'[r][i]
      BY ONLY <1>6, <3>2, <3>3
    <3> QED
      BY <3>1, <3>2, <3>4
  <2>3. ASSUME NEW q \in Rooms, NEW p \in Rooms, NEW j \in Ids, NEW k \in Ids,
               occupied'[q][j], occupied'[p][k], token'[q][j] = token'[p][k]
        PROVE  q = p /\ j = k
    <3>1. CASE (q = r /\ j = i) \/ (p = r /\ k = i)
      BY <2>2, <2>3, <3>1
    <3>2. CASE ~(q = r /\ j = i) /\ ~(p = r /\ k = i)
      <4>1. occupied[q][j] /\ occupied[p][k] /\ token[q][j] = token[p][k]
        BY <2>2, <2>3, <3>2
      <4> QED
        BY <4>1 DEF LedgerInv, ResumeRoutes
    <3> QED
      BY <3>1, <3>2
  <2> QED
    BY <2>1, <2>3 DEF ResumeRoutes
<1>9. HeardIsDated'
  <2>1. t \in Time /\ clock \in Time /\ t >= clock - MaxLag /\ 0 >= 0 - MaxLag
    BY TimesLag, BoundsAssumption
  <2> QED
    BY <1>2, <2>1 DEF LedgerInv, HeardIsDated
<1> QED
  BY <1>4, <1>5, <1>7, <1>8, <1>9 DEF LedgerInv

\* Forgetting destroyed rooms keeps the ledger.
LEMMA SweptLedger ==
  ASSUME TypeOK, LedgerInv, NEW S, Swept(S),
         \A q \in Rooms : destroyed'[q] => q \in S \/ destroyed[q],
         \A q \in Rooms : ~destroyed'[q] => destroyed[q] \/ (q \notin S /\ desc'[q] = desc[q]),
         TypeOK'
  PROVE  LedgerInv'
<1>1. /\ \A q \in Rooms, j \in Ids :
            /\ occupied'[q][j] <=> q \notin S /\ occupied[q][j]
            /\ conn'[q][j] = IF q \in S THEN NoConn ELSE conn[q][j]
            /\ token'[q][j] = IF q \in S THEN NoToken ELSE token[q][j]
      /\ \A q \in Rooms : started'[q] <=> q \notin S /\ started[q]
      /\ issued' = issued /\ known' = known
  BY DEF Swept
<1>2. \A q \in Rooms, j \in Ids :
        /\ lastSeenAt'[q][j] = IF q \in S THEN 0 ELSE lastSeenAt[q][j]
        /\ heard'[q][j] = IF q \in S THEN 0 ELSE heard[q][j]
  BY DEF Swept
<1>3. DestroyedBlank'
  BY <1>1 DEF LedgerInv, DestroyedBlank
<1>4. StartedWhenDue'
  <2> SUFFICES \A q \in Rooms :
                 /\ ~destroyed'[q] /\ ~desc'[q].opts.waitUntilFull /\ (\E j \in Ids : occupied'[q][j])
                      => started'[q]
                 /\ ~destroyed'[q] /\ (\A j \in 0 .. desc'[q].opts.maxPlayers - 1 : occupied'[q][j])
                      => started'[q]
    BY DEF StartedWhenDue, Opts, Slots
  <2> SUFFICES ASSUME NEW q \in Rooms, ~destroyed'[q], ~started'[q]
               PROVE  /\ desc'[q].opts.waitUntilFull \/ ~\E j \in Ids : occupied'[q][j]
                      /\ ~\A j \in 0 .. desc'[q].opts.maxPlayers - 1 : occupied'[q][j]
    OBVIOUS
  <2>1. CASE destroyed[q]
    <3>1. \A j \in Ids : ~occupied'[q][j]
      BY <1>1, <2>1 DEF LedgerInv, DestroyedBlank
    <3>2. 0 \in 0 .. desc'[q].opts.maxPlayers - 1 /\ 0 \in Ids
      <4>1. desc'[q] \in RoomDesc
        BY DEF TypeOK
      <4> QED
        BY <4>1, BoundsAssumption DEF RoomDesc, RoomOptions, Ids
    <3> QED
      BY <3>1, <3>2
  <2>2. CASE ~destroyed[q]
    <3>1. q \notin S /\ desc'[q] = desc[q] /\ ~started[q]
      BY <1>1, <2>2
    <3>2. /\ desc[q].opts.waitUntilFull \/ ~\E j \in Ids : occupied[q][j]
          /\ ~\A j \in 0 .. desc[q].opts.maxPlayers - 1 : occupied[q][j]
      BY <2>2, <3>1 DEF LedgerInv, StartedWhenDue, Opts, Slots
    <3>3. \A j \in Ids : occupied'[q][j] <=> occupied[q][j]
      BY <1>1, <3>1
    <3>4. 0 .. desc[q].opts.maxPlayers - 1 \subseteq Ids
      BY <2>2, OptionsType DEF Opts, Slots
    <3> QED
      BY <3>1, <3>2, <3>3, <3>4
  <2> QED
    BY <2>1, <2>2
<1>5. TokensIssued'
  <2>1. NoToken <= issued /\ issued \in Nat /\ \A q \in Rooms, j \in Ids : token[q][j] <= issued
    BY DEF TypeOK, NoToken, LedgerInv, TokensIssued
  <2> QED
    BY <1>1, <2>1 DEF TokensIssued
<1>6. ResumeRoutes'
  <2>1. ASSUME NEW q \in Rooms, NEW j \in Ids, conn'[q][j] # NoConn PROVE token'[q][j] \in known'
    <3>1. conn[q][j] # NoConn /\ token'[q][j] = token[q][j] /\ known' = known
      BY <1>1, <2>1
    <3> QED
      BY <3>1 DEF LedgerInv, ResumeRoutes
  <2>2. ASSUME NEW q \in Rooms, NEW p \in Rooms, NEW j \in Ids, NEW k \in Ids,
               occupied'[q][j], occupied'[p][k], token'[q][j] = token'[p][k]
        PROVE  q = p /\ j = k
    <3>1. occupied[q][j] /\ occupied[p][k] /\ token[q][j] = token[p][k]
      BY <1>1, <2>2
    <3> QED
      BY <3>1 DEF LedgerInv, ResumeRoutes
  <2> QED
    BY <2>1, <2>2 DEF ResumeRoutes
<1>7. HeardIsDated'
  BY <1>2, BoundsAssumption DEF LedgerInv, HeardIsDated
<1> QED
  BY <1>3, <1>4, <1>5, <1>6, <1>7 DEF LedgerInv

\* So does a step after which rooms and slots stay.
LEMMA StaysLedger ==
  ASSUME TypeOK, LedgerInv, Stays
  PROVE  LedgerInv'
<1>1. UNCHANGED <<destroyed, desc, started, issued, known>>
  BY DEF Stays
<1>2. \A q \in Rooms, j \in Ids :
        /\ occupied'[q][j] => occupied[q][j] /\ token'[q][j] = token[q][j]
        /\ token'[q][j] \in {token[q][j], NoToken}
        /\ conn'[q][j] # NoConn => conn'[q][j] = conn[q][j] /\ token'[q][j] = token[q][j]
  BY DEF Stays
<1>3. \A q \in Rooms, j \in Ids :
        \/ lastSeenAt'[q][j] = lastSeenAt[q][j] /\ heard'[q][j] = heard[q][j]
        \/ lastSeenAt'[q][j] \in Times /\ heard'[q][j] = clock
  BY DEF Stays
<1>4. DestroyedBlank'
  BY <1>1, <1>2 DEF LedgerInv, DestroyedBlank
<1>5. StartedWhenDue'
  <2> SUFFICES \A q \in Rooms :
                 /\ ~destroyed'[q] /\ ~desc'[q].opts.waitUntilFull /\ (\E j \in Ids : occupied'[q][j])
                      => started'[q]
                 /\ ~destroyed'[q] /\ (\A j \in 0 .. desc'[q].opts.maxPlayers - 1 : occupied'[q][j])
                      => started'[q]
    BY DEF StartedWhenDue, Opts, Slots
  <2> SUFFICES ASSUME NEW q \in Rooms, ~destroyed[q], ~started[q]
               PROVE  /\ desc[q].opts.waitUntilFull \/ ~\E j \in Ids : occupied'[q][j]
                      /\ ~\A j \in 0 .. desc[q].opts.maxPlayers - 1 : occupied'[q][j]
    BY <1>1
  <2>1. /\ desc[q].opts.waitUntilFull \/ ~\E j \in Ids : occupied[q][j]
        /\ ~\A j \in 0 .. desc[q].opts.maxPlayers - 1 : occupied[q][j]
    BY DEF LedgerInv, StartedWhenDue, Opts, Slots
  <2>2. 0 .. desc[q].opts.maxPlayers - 1 \subseteq Ids
    BY OptionsType DEF Opts, Slots
  <2> QED
    BY <1>2, <2>1, <2>2
<1>6. TokensIssued'
  <2>1. NoToken <= issued /\ issued \in Nat /\ \A q \in Rooms, j \in Ids : token[q][j] <= issued
    BY DEF TypeOK, NoToken, LedgerInv, TokensIssued
  <2>2. \A q \in Rooms, j \in Ids : token'[q][j] = token[q][j] \/ token'[q][j] = NoToken
    BY <1>2
  <2> QED
    BY <1>1, <2>1, <2>2 DEF TokensIssued
<1>7. ResumeRoutes'
  <2>1. ASSUME NEW q \in Rooms, NEW j \in Ids, conn'[q][j] # NoConn PROVE token'[q][j] \in known'
    <3>1. conn[q][j] # NoConn /\ token'[q][j] = token[q][j] /\ known' = known
      BY <1>1, <1>2, <2>1
    <3> QED
      BY <3>1 DEF LedgerInv, ResumeRoutes
  <2>2. ASSUME NEW q \in Rooms, NEW p \in Rooms, NEW j \in Ids, NEW k \in Ids,
               occupied'[q][j], occupied'[p][k], token'[q][j] = token'[p][k]
        PROVE  q = p /\ j = k
    <3>1. occupied[q][j] /\ occupied[p][k] /\ token[q][j] = token[p][k]
      BY <1>2, <2>2
    <3> QED
      BY <3>1 DEF LedgerInv, ResumeRoutes
  <2> QED
    BY <2>1, <2>2 DEF ResumeRoutes
<1>8. HeardIsDated'
  <2>1. \A t \in Times : t >= clock - MaxLag
    BY TimesLag
  <2> QED
    BY <1>3, <2>1 DEF LedgerInv, HeardIsDated
<1> QED
  BY <1>4, <1>5, <1>6, <1>7, <1>8 DEF LedgerInv

\* Every step keeps the ledger.
LEMMA LedgerStep == TypeOK /\ RoomsLinked /\ SlotInv /\ LedgerInv /\ [Next]_vars => LedgerInv'
<1> SUFFICES ASSUME TypeOK, RoomsLinked, SlotInv, LedgerInv, [Next]_vars PROVE LedgerInv'
  OBVIOUS
<1>1. TypeOK'
  BY TypeStep
<1>2. ASSUME NEW c \in Conns, NEW t \in Times, NEW r \in Rooms, NEW i \in Ids,
             NEW occ \in [Ids -> BOOLEAN], NEW st \in BOOLEAN, NEW reason \in KickReasons,
             NEW note \in {"player-joined", "player-rejoined"}, NEW swept \in SUBSET Rooms,
             Enters(r, i, c, t, occ, st, reason, note, swept)
      PROVE  LedgerInv'
  BY <1>2, EntersLedger
<1>3. ASSUME NEW S \in SUBSET Rooms, Swept(S),
             \A q \in Rooms : destroyed'[q] => q \in S \/ destroyed[q],
             \A q \in Rooms : ~destroyed'[q] => destroyed[q] \/ (q \notin S /\ desc'[q] = desc[q])
      PROVE  LedgerInv'
  BY <1>1, <1>3, SweptLedger
<1>4. CASE Stays
  BY <1>4, StaysLedger
<1> QED
  BY <1>2, <1>3, <1>4, StepKinds

\* At first no slot is taken and no token issued.
LEMMA LedgerInit == Init => LedgerInv
<1> SUFFICES ASSUME Init PROVE LedgerInv
  OBVIOUS
<1>1. DestroyedBlank /\ TokensIssued /\ ResumeRoutes
  BY NullAssumption DEF Init, DestroyedBlank, TokensIssued, ResumeRoutes, NoToken
<1>2. StartedWhenDue
  BY DEF Init, StartedWhenDue
<1>3. HeardIsDated
  <2>1. \A r \in Rooms, i \in Ids : lastSeenAt[r][i] = 0 /\ heard[r][i] = 0
    BY DEF Init
  <2>2. 0 >= 0 - MaxLag
    BY BoundsAssumption
  <2> QED
    BY <2>1, <2>2 DEF HeardIsDated
<1> QED
  BY <1>1, <1>2, <1>3 DEF LedgerInv

\* The ledger holds of every reachable state.
LEMMA LedgerKept == Spec => [](TypeOK /\ RoomsLinked /\ SlotInv /\ LedgerInv)
<1>1. Init => LedgerInv
  BY LedgerInit
<1>2. TypeOK /\ RoomsLinked /\ SlotInv /\ LedgerInv /\ [Next]_vars => LedgerInv'
  BY LedgerStep
<1> QED
  BY <1>1, <1>2, SlotsAgree, PTL DEF Spec

\* A room has started as soon as it has to.
THEOREM StartsWhenDue == Spec => []StartedWhenDue
<1>1. LedgerInv => StartedWhenDue
  BY DEF LedgerInv
<1> QED
  BY <1>1, LedgerKept, PTL

\* An attached player's token leads back to its slot, and to no other.
THEOREM TokensRoute == Spec => []ResumeRoutes
<1>1. LedgerInv => ResumeRoutes
  BY DEF LedgerInv
<1> QED
  BY <1>1, LedgerKept, PTL

\* A step that gives a free slot of a started room to a player, or a new token to
\* an occupied slot of a room that stays, is one that takes this slot.
LEMMA SlotTaken ==
  ASSUME TypeOK, RoomsLinked, SlotInv, [Next]_vars, NEW r \in Rooms, NEW i \in Ids,
         ~destroyed[r], ~destroyed'[r],
         \/ ~occupied[r][i] /\ occupied'[r][i]
         \/ occupied[r][i] /\ occupied'[r][i] /\ token'[r][i] # token[r][i]
  PROVE  \E c \in Conns, t \in Times, occ \in [Ids -> BOOLEAN], st \in BOOLEAN, reason \in KickReasons,
            note \in {"player-joined", "player-rejoined"}, swept \in SUBSET Rooms :
           Enters(r, i, c, t, occ, st, reason, note, swept)
<1>1. ASSUME NEW c \in Conns, NEW t \in Times, NEW q \in Rooms, NEW j \in Ids,
             NEW occ \in [Ids -> BOOLEAN], NEW st \in BOOLEAN, NEW reason \in KickReasons,
             NEW note \in {"player-joined", "player-rejoined"}, NEW swept \in SUBSET Rooms,
             Enters(q, j, c, t, occ, st, reason, note, swept)
      PROVE  q = r /\ j = i
  <2>1. /\ occupied'[r][i] <=> IF r = q THEN occ[i] ELSE r \notin swept /\ occupied[r][i]
        /\ token'[r][i] = IF r = q /\ i = j THEN NewToken ELSE IF r \in swept THEN NoToken ELSE token[r][i]
    BY <1>1, EntersEffect
  <2>2. /\ occ[i] <=> i = j \/ occupied[q][i]
        /\ q \notin swept
        /\ r # q => (destroyed'[r] <=> destroyed[r] \/ r \in swept)
    BY <1>1 DEF Enters
  <2> QED
    BY <2>1, <2>2
<1>2. ASSUME NEW S \in SUBSET Rooms, Swept(S),
             \A q \in Rooms : ~destroyed'[q] => destroyed[q] \/ (q \notin S /\ desc'[q] = desc[q])
      PROVE  FALSE
  <2>1. r \notin S
    BY <1>2
  <2>2. (occupied'[r][i] <=> occupied[r][i]) /\ token'[r][i] = token[r][i]
    BY <1>2, <2>1 DEF Swept
  <2> QED
    BY <2>2
<1>3. ~Stays
  BY DEF Stays
<1> QED
  BY <1>1, <1>2, <1>3, StepKinds

\* A free slot of a started room is taken by a claim only, unless late joins are allowed.
THEOREM LateJoinRefused == Spec => LateJoinBarred
<1>1. ASSUME TypeOK, RoomsLinked, SlotInv, [Next]_vars, NEW r \in Rooms, NEW i \in Ids,
             ~destroyed[r], ~destroyed'[r], started[r], ~occupied[r][i], occupied'[r][i]
      PROVE  Opts(r).allowLateJoin \/ (Opts(r).allowReplacement /\ Opts(r).policyAllowsClaim)
  <2>1. PICK c \in Conns, t \in Times, occ \in [Ids -> BOOLEAN], st \in BOOLEAN, reason \in KickReasons,
             note \in {"player-joined", "player-rejoined"}, swept \in SUBSET Rooms :
          Enters(r, i, c, t, occ, st, reason, note, swept)
    BY <1>1, SlotTaken
  <2>2. NotTooLate(r) \/ (Opts(r).allowReplacement /\ Opts(r).policyAllowsClaim)
    BY <1>1, <2>1 DEF Enters
  <2> QED
    BY <1>1, <2>2 DEF NotTooLate
<1>2. TypeOK /\ RoomsLinked /\ SlotInv /\ [Next]_vars =>
        [\A r \in Rooms, i \in Ids :
           ~destroyed[r] /\ ~destroyed'[r] /\ started[r] /\ ~occupied[r][i] /\ occupied'[r][i]
             => Opts(r).allowLateJoin \/ (Opts(r).allowReplacement /\ Opts(r).policyAllowsClaim)]_vars
  BY <1>1
<1> QED
  BY <1>2, SlotsAgree, PTL DEF Spec, LateJoinBarred

\* An occupied slot passes to another client by its token, or by a claim of a silent
\* slot that the policy permits; and only such a claim tells the holder so.
THEOREM ClaimsWaitForSilence == Spec => ClaimedOnlyAfterSilence
<1> DEFINE Passes(r, i) ==
             /\ ~destroyed[r] /\ ~destroyed'[r] /\ occupied[r][i] /\ occupied'[r][i]
             /\ token'[r][i] # token[r][i]
             /\ Opts(r).allowReconnect =>
                  conn[r][i] # NoConn /\ wire[conn[r][i]] = "open" /\ wire'[conn[r][i]] = "replaced"
           Silent(r, i) ==
             /\ Opts(r).allowReplacement /\ Opts(r).policyAllowsClaim
             /\ clock - heard[r][i] >= Opts(r).claimAfter - MaxLag
<1>1. ASSUME TypeOK, RoomsLinked, SlotInv, LedgerInv, [Next]_vars, NEW r \in Rooms, NEW i \in Ids,
             Passes(r, i)
      PROVE  Silent(r, i)
  <2>1. PICK c \in Conns, t \in Times, occ \in [Ids -> BOOLEAN], st \in BOOLEAN, reason \in KickReasons,
             note \in {"player-joined", "player-rejoined"}, swept \in SUBSET Rooms :
          Enters(r, i, c, t, occ, st, reason, note, swept)
    BY <1>1, SlotTaken
  <2>2. \/ reason = "session-superseded" /\ Opts(r).allowReconnect
        \/ /\ reason = "replaced" /\ Opts(r).allowReplacement /\ Opts(r).policyAllowsClaim
           /\ t - lastSeenAt[r][i] >= Opts(r).claimAfter
    BY <1>1, <2>1 DEF Enters
  <2>3. ~(reason = "session-superseded" /\ Opts(r).allowReconnect)
    <3> SUFFICES ASSUME reason = "session-superseded", Opts(r).allowReconnect PROVE FALSE
      OBVIOUS
    <3>1. conn[r][i] \in Conns /\ wire[conn[r][i]] = "open" /\ wire'[conn[r][i]] = "replaced"
      BY <1>1 DEF TypeOK
    <3>2. \A d \in Conns : wire'[d] = "replaced" => wire[d] = "replaced" \/ reason = "replaced"
      BY ONLY TypeOK, r \in Rooms, i \in Ids, c \in Conns, <2>1, EntersAttaches
    <3> QED
      BY <3>1, <3>2
  <2>4. t <= clock /\ t \in Time /\ clock \in Time
    BY <1>1, TimesLag
  <2>5. /\ lastSeenAt[r][i] >= heard[r][i] - MaxLag
        /\ lastSeenAt[r][i] \in Time /\ heard[r][i] \in Time
    BY <1>1 DEF LedgerInv, HeardIsDated, TypeOK, Time
  <2>6. Opts(r).claimAfter \in Nat
    <3>1. Opts(r) \in RoomOptions
      BY <1>1, OptionsType, BoundsAssumption
    <3> QED
      BY <3>1 DEF RoomOptions
  <2>7. clock - heard[r][i] >= Opts(r).claimAfter - MaxLag
    BY <2>2, <2>3, <2>4, <2>5, <2>6, BoundsAssumption DEF Time
  <2> QED
    BY <2>2, <2>3, <2>7
<1>2. TypeOK /\ RoomsLinked /\ SlotInv /\ LedgerInv /\ [Next]_vars =>
        [\A r \in Rooms, i \in Ids : Passes(r, i) => Silent(r, i)]_vars
  BY <1>1
<1> QED
  BY <1>2, LedgerKept, PTL DEF Spec, ClaimedOnlyAfterSilence

-----------------------------------------------------------------------------
(* What the clients know *)

\* What client d knows is true of room r, whose transports are `hold`, whose slots
\* are occupied as in `occ`, and which has started or not as in `st`.
Knows(known_, hold, occ, st) ==
  /\ known_.started = st
  /\ \A j \in Ids : known_.roster[j] = "free" <=> ~occ[j]
  /\ \A j \in Ids : hold[j] # NoConn => known_.roster[j] = "here"

\* The rosters are sound when every attached client knows the truth about its room.
LEMMA RosterKnown ==
  /\ RosterSound => \A r \in Rooms, i \in Ids : conn[r][i] # NoConn =>
       Knows(view[conn[r][i]], conn[r], occupied[r], started[r])
  /\ (\A r \in Rooms, i \in Ids : conn'[r][i] # NoConn =>
         Knows(view'[conn'[r][i]], conn'[r], occupied'[r], started'[r])) => RosterSound'
BY DEF RosterSound, Knows

\* What the clients know after a broadcast on room r: whoever stays has been told
\* of the players lost to it, and nothing changes for clients of other rooms that
\* are not swept.
Informs(r, hold, told, swept) ==
  /\ \A i \in Ids : conn'[r][i] # NoConn =>
       /\ conn'[r][i] = hold[i]
       /\ view'[hold[i]].started = told[hold[i]].started
       /\ \A j \in Ids : view'[hold[i]].roster[j] =
            IF hold[j] # NoConn /\ conn'[r][j] = NoConn /\ told[hold[i]].roster[j] # "free"
            THEN "away" ELSE told[hold[i]].roster[j]
  /\ \A q \in Rooms, i \in Ids :
       q # r => conn'[q][i] = IF q \in swept THEN NoConn ELSE conn[q][i]
  /\ \A q \in Rooms, i \in Ids :
       q # r /\ conn'[q][i] # NoConn /\ (\A j \in Ids : hold[j] # conn[q][i])
         => view'[conn[q][i]] = view[conn[q][i]]

\* That is what broadcastLocked does.
LEMMA BroadcastInforms ==
  ASSUME TypeOK, NEW r \in Rooms, NEW hold \in Holding, NEW w \in Wires,
         NEW since, NEW first, NEW told \in [Conns -> View], NEW swept,
         Broadcast(r, hold, w, since, first, told, swept)
  PROVE  Informs(r, hold, told, swept)
<1>1. PICK D \in Drops(hold, w, first) : BroadcastLosing(D, r, hold, w, since, told, swept)
  BY DEF Broadcast
<1> DEFINE remain == Up(hold) \ D
           elsewhere == {c \in Conns : \E q \in Rooms \ ({r} \cup swept) : \E i \in Ids : conn[q][i] = c}
<1>2. D \subseteq Up(hold) /\ \A i \in Ids : i \in Up(hold) <=> hold[i] # NoConn
  BY DEF Drops, Up
<1>3. /\ \A i \in Ids : conn'[r][i] = IF i \in remain THEN hold[i] ELSE NoConn
      /\ \A q \in Rooms, i \in Ids : q # r => conn'[q][i] = IF q \in swept THEN NoConn ELSE conn[q][i]
  BY <1>1 DEF BroadcastLosing
<1>4. view' = [c \in Conns |->
                 IF \E i \in remain : hold[i] = c
                 THEN [told[c] EXCEPT !.roster = Disconnected(told[c].roster, D)]
                 ELSE IF c \in elsewhere THEN view[c] ELSE NoView]
  BY <1>1 DEF BroadcastLosing
<1>5. \A c \in Conns : /\ [told[c] EXCEPT !.roster = Disconnected(told[c].roster, D)].started = told[c].started
                       /\ \A j \in Ids : [told[c] EXCEPT !.roster = Disconnected(told[c].roster, D)].roster[j] =
                            IF j \in D /\ told[c].roster[j] # "free" THEN "away" ELSE told[c].roster[j]
  BY DEF View, Disconnected
<1>6. \A j \in Ids : j \in D <=> hold[j] # NoConn /\ conn'[r][j] = NoConn
  BY <1>2, <1>3
<1> HIDE DEF remain, elsewhere
<1>7. ASSUME NEW i \in Ids, conn'[r][i] # NoConn
      PROVE  /\ view'[hold[i]].started = told[hold[i]].started
             /\ \A j \in Ids : view'[hold[i]].roster[j] =
                  IF hold[j] # NoConn /\ conn'[r][j] = NoConn /\ told[hold[i]].roster[j] # "free"
                  THEN "away" ELSE told[hold[i]].roster[j]
  <2>1. i \in remain /\ hold[i] \in Conns
    BY <1>3, <1>7 DEF Holding
  <2>2. view'[hold[i]] = [told[hold[i]] EXCEPT !.roster = Disconnected(told[hold[i]].roster, D)]
    BY <1>4, <2>1
  <2> QED
    BY <1>5, <1>6, <2>1, <2>2
<1>8. ASSUME NEW q \in Rooms, NEW i \in Ids, q # r, conn'[q][i] # NoConn,
             \A j \in Ids : hold[j] # conn[q][i]
      PROVE  view'[conn[q][i]] = view[conn[q][i]]
  <2>1. q \notin swept /\ conn[q][i] # NoConn
    BY <1>3, <1>8
  <2>2. conn[q][i] \in Conns /\ conn[q][i] \in elsewhere
    BY <1>8, <2>1 DEF elsewhere, TypeOK
  <2>3. ~\E j \in remain : hold[j] = conn[q][i]
    BY <1>8 DEF remain, Up
  <2> QED
    BY <1>4, <2>2, <2>3
<1>9. \A i \in Ids : conn'[r][i] # NoConn => conn'[r][i] = hold[i]
  BY <1>3
<1> QED
  BY <1>3, <1>7, <1>8, <1>9 DEF Informs

\* So a broadcast keeps rosters sound if, before anyone is lost to it, whoever is
\* still attached to the room has been told the truth about it.
LEMMA BroadcastSound ==
  ASSUME TypeOK, RosterSound, NEW r \in Rooms, NEW hold \in Holding, NEW w \in Wires,
         NEW since, NEW first, NEW told \in [Conns -> View], NEW swept,
         Broadcast(r, hold, w, since, first, told, swept),
         \A i \in Ids : hold[i] # NoConn => Knows(told[hold[i]], hold, occupied'[r], started'[r]),
         \A q \in Rooms, i \in Ids : q # r /\ q \notin swept =>
           (occupied'[q][i] <=> occupied[q][i]) /\ started'[q] = started[q],
         \A q \in Rooms, i \in Ids, j \in Ids : q # r /\ conn[q][i] # NoConn => hold[j] # conn[q][i]
  PROVE  RosterSound'
<1>1. Informs(r, hold, told, swept)
  BY ONLY TypeOK, r \in Rooms, hold \in Holding, w \in Wires, told \in [Conns -> View],
          Broadcast(r, hold, w, since, first, told, swept), BroadcastInforms
<1>2. ASSUME NEW q \in Rooms, NEW i \in Ids, conn'[q][i] # NoConn
      PROVE  Knows(view'[conn'[q][i]], conn'[q], occupied'[q], started'[q])
  <2>1. CASE q = r
    <3>1. conn'[q][i] = hold[i] /\ hold[i] # NoConn
      BY <1>1, <1>2, <2>1 DEF Informs
    <3>2. /\ told[hold[i]].started = started'[r]
          /\ \A j \in Ids : told[hold[i]].roster[j] = "free" <=> ~occupied'[r][j]
          /\ \A j \in Ids : hold[j] # NoConn => told[hold[i]].roster[j] = "here"
      BY <3>1 DEF Knows
    <3>3. \A j \in Ids : conn'[r][j] # NoConn => hold[j] # NoConn
      BY <1>1 DEF Informs
    <3>4. /\ view'[hold[i]].started = told[hold[i]].started
          /\ \A j \in Ids : view'[hold[i]].roster[j] =
               IF hold[j] # NoConn /\ conn'[r][j] = NoConn /\ told[hold[i]].roster[j] # "free"
               THEN "away" ELSE told[hold[i]].roster[j]
      BY <1>1, <1>2, <2>1 DEF Informs
    <3> QED
      BY <2>1, <3>1, <3>2, <3>3, <3>4 DEF Knows
  <2>2. CASE q # r
    <3>1. q \notin swept /\ conn'[q][i] = conn[q][i] /\ conn[q][i] # NoConn
      BY <1>1, <1>2, <2>2 DEF Informs
    <3>2. view'[conn[q][i]] = view[conn[q][i]]
      BY <1>1, <2>2, <3>1 DEF Informs
    <3>3. Knows(view[conn[q][i]], conn[q], occupied[q], started[q])
      BY <3>1 DEF RosterSound, Knows
    <3>4. \A j \in Ids : conn'[q][j] = conn[q][j]
      BY <1>1, <2>2, <3>1 DEF Informs
    <3> QED
      BY <2>2, <3>1, <3>2, <3>3, <3>4 DEF Knows
  <2> QED
    BY <2>1, <2>2
<1> QED
  BY ONLY <1>2, RosterKnown

\* A transport is attached to one slot only.
LEMMA AttachedOnce ==
  ASSUME SlotInv, NEW r \in Rooms, NEW q \in Rooms, NEW i \in Ids, NEW j \in Ids,
         conn[r][i] # NoConn, conn[q][j] = conn[r][i]
  PROVE  q = r /\ j = i
<1>1. sess[conn[r][i]] = [room |-> r, id |-> i] /\ sess[conn[r][i]] = [room |-> q, id |-> j]
  BY DEF SlotInv, AttachedBySession
<1>2. sess[conn[r][i]].room = r /\ sess[conn[r][i]].id = i
  BY <1>1
<1>3. sess[conn[r][i]].room = q /\ sess[conn[r][i]].id = j
  BY <1>1
<1> QED
  BY <1>2, <1>3

\* `told` is what clients know of room r once they have been told about slot i, as
\* the step leaves it.
TellsAbout(r, i, told) ==
  /\ told \in [Conns -> View]
  /\ \A d \in Conns :
       /\ told[d].started = view[d].started
       /\ \A j \in Ids \ {i} : told[d].roster[j] = view[d].roster[j]
       /\ (view[d].roster[i] = "free" <=> ~occupied[r][i])
            => (told[d].roster[i] = "free" <=> ~occupied'[r][i])
  /\ \A q \in Rooms, j \in Ids : (q = r /\ j = i) \/ (occupied'[q][j] <=> occupied[q][j])
  /\ started' = started

\* A leave, a disconnect and a dropped target: the others are told about slot i.
LEMMA DetachInforms ==
  ASSUME TypeOK, SlotInv, RosterSound, NEW r \in Rooms, NEW i \in Ids, NEW w \in Wires,
         NEW since, NEW first, NEW told, TellsAbout(r, i, told), NEW hold \in Holding,
         \A j \in Ids : hold[j] = IF j = i THEN NoConn ELSE conn[r][j],
         Broadcast(r, hold, w, since, first, told, {})
  PROVE  RosterSound'
<1>1. hold \in Holding /\ \A j \in Ids : hold[j] = IF j = i THEN NoConn ELSE conn[r][j]
  OBVIOUS
<1>2. Broadcast(r, hold, w, since, first, told, {})
  OBVIOUS
<1>2a. told \in [Conns -> View] /\ started' = started
  BY DEF TellsAbout
<1>2b. \A d \in Conns :
       /\ told[d].started = view[d].started
       /\ \A j \in Ids \ {i} : told[d].roster[j] = view[d].roster[j]
       /\ (view[d].roster[i] = "free" <=> ~occupied[r][i])
            => (told[d].roster[i] = "free" <=> ~occupied'[r][i])
  BY DEF TellsAbout
<1>2c. \A q \in Rooms, j \in Ids : (q = r /\ j = i) \/ (occupied'[q][j] <=> occupied[q][j])
  BY DEF TellsAbout
<1>3. ASSUME NEW j \in Ids, hold[j] # NoConn
      PROVE  Knows(told[hold[j]], hold, occupied'[r], started'[r])
  <2>1. j # i /\ hold[j] = conn[r][j] /\ conn[r][j] # NoConn /\ conn[r][j] \in Conns
    BY <1>1, <1>3 DEF TypeOK
  <2>2. Knows(view[conn[r][j]], conn[r], occupied[r], started[r])
    BY <2>1, RosterKnown
  <2>3. told[conn[r][j]].started = started'[r]
    BY <1>2a, <1>2b, <2>1, <2>2 DEF Knows
  <2>4. \A k \in Ids : told[conn[r][j]].roster[k] = "free" <=> ~occupied'[r][k]
    <3> TAKE k \in Ids
    <3>1. view[conn[r][j]].roster[k] = "free" <=> ~occupied[r][k]
      BY <2>2 DEF Knows
    <3>2. CASE k = i
      BY <1>2b, <2>1, <3>1, <3>2
    <3>3. CASE k # i
      <4>1. told[conn[r][j]].roster[k] = view[conn[r][j]].roster[k]
        BY <1>2b, <2>1, <3>3
      <4>2. occupied'[r][k] <=> occupied[r][k]
        BY <1>2c, <3>3
      <4> QED
        BY <3>1, <4>1, <4>2
    <3> QED
      BY <3>2, <3>3
  <2>5. ASSUME NEW k \in Ids, hold[k] # NoConn PROVE told[conn[r][j]].roster[k] = "here"
    <3>1. k # i /\ conn[r][k] # NoConn
      BY <1>1, <2>5
    <3>2. view[conn[r][j]].roster[k] = "here"
      BY <2>2, <3>1 DEF Knows
    <3> QED
      BY <1>2b, <2>1, <3>1, <3>2
  <2> QED
    BY <2>1, <2>3, <2>4, <2>5 DEF Knows
<1>4. ASSUME NEW q \in Rooms, NEW k \in Ids, NEW j \in Ids, q # r, conn[q][k] # NoConn
      PROVE  hold[j] # conn[q][k]
  <2>1. conn[r][j] # conn[q][k]
    BY <1>4, AttachedOnce
  <2> QED
    BY <1>1, <1>4, <2>1
<1>5. \A q \in Rooms, k \in Ids : q # r /\ q \notin {} =>
        (occupied'[q][k] <=> occupied[q][k]) /\ started'[q] = started[q]
  BY <1>2a, <1>2c
<1> QED
  BY <1>1, <1>2, <1>2a, <1>3, <1>4, <1>5, BroadcastSound

\* What the others make of a leave, and of a lost transport.
LEMMA DepartureTold ==
  ASSUME TypeOK, NEW i \in Ids, NEW d \in Conns
  PROVE  /\ LET gone == [view[d] EXCEPT !.roster[i] = "free"]
            IN /\ gone.started = view[d].started /\ gone.roster[i] = "free"
               /\ \A j \in Ids \ {i} : gone.roster[j] = view[d].roster[j]
         /\ LET gone == [view[d] EXCEPT !.roster = Disconnected(view[d].roster, {i})]
            IN /\ gone.started = view[d].started
               /\ \A j \in Ids \ {i} : gone.roster[j] = view[d].roster[j]
               /\ gone.roster[i] = "free" <=> view[d].roster[i] = "free"
BY DEF TypeOK, View, Disconnected

\* So the rosters stay sound when a player leaves, loses its transport, or is
\* dropped because it cannot take a signal.
LEMMA DepartureRoster ==
  ASSUME TypeOK, SlotInv, RosterSound, NEW c \in Conns, NEW to \in Ids, NEW t \in Times,
         Leave(c) \/ Disconnect(c) \/ SignalDropsTarget(c, to, t)
  PROVE  RosterSound'
<1> DEFINE r == sess[c].room
           left == [d \in Conns |-> [view[d] EXCEPT !.roster[sess[c].id] = "free"]]
           lost(i) == [d \in Conns |-> [view[d] EXCEPT !.roster = Disconnected(@, {i})]]
<1>1. r \in Rooms /\ sess[c].id \in Ids
  BY CurrentType DEF Leave, Disconnect, SignalDropsTarget
<1>2. left \in [Conns -> View] /\ \A i \in Ids : lost(i) \in [Conns -> View]
  BY <1>1, DepartureType
<1>3. wire \in Wires /\ [wire EXCEPT ![c] = "off"] \in Wires
      /\ Kicked(wire, {conn[r][to]}, "slow-consumer") \in Wires
  BY KickedType DEF TypeOK, Wires, WireStates, KickReasons
<1>4. \A d \in Conns, i \in Ids :
        /\ lost(i)[d].started = view[d].started
        /\ \A j \in Ids \ {i} : lost(i)[d].roster[j] = view[d].roster[j]
        /\ lost(i)[d].roster[i] = "free" <=> view[d].roster[i] = "free"
  <2> TAKE d \in Conns, i \in Ids
  <2>1. lost(i)[d] = [view[d] EXCEPT !.roster = Disconnected(view[d].roster, {i})]
    OBVIOUS
  <2> HIDE DEF lost
  <2> QED
    BY <2>1, DepartureTold
<1>5. \A d \in Conns :
        /\ left[d].started = view[d].started
        /\ \A j \in Ids \ {sess[c].id} : left[d].roster[j] = view[d].roster[j]
        /\ left[d].roster[sess[c].id] = "free"
  BY <1>1, DepartureTold
<1>6. CASE Leave(c)
  <2>1. Broadcast(r, [conn[r] EXCEPT ![sess[c].id] = NoConn], wire, emptySince[r],
                  Up([conn[r] EXCEPT ![sess[c].id] = NoConn]), left, {})
    BY <1>6 DEF Leave
  <2>2. started' = started /\ occupied' = [occupied EXCEPT ![r][sess[c].id] = FALSE]
    BY <1>6 DEF Leave
  <2>3. /\ ~occupied'[r][sess[c].id]
        /\ \A q \in Rooms, j \in Ids :
             (q = r /\ j = sess[c].id) \/ (occupied'[q][j] <=> occupied[q][j])
    BY <1>1, <2>2 DEF TypeOK
  <2> DEFINE i == sess[c].id
             hold == [conn[r] EXCEPT ![i] = NoConn]
  <2>4. TellsAbout(r, i, left)
    <3> HIDE DEF r, left
    <3> QED
      BY <1>2, <1>5, <2>2, <2>3 DEF TellsAbout
  <2>5. hold \in Holding /\ \A j \in Ids : hold[j] = IF j = i THEN NoConn ELSE conn[r][j]
    BY <1>1, DepartureType DEF TypeOK
  <2>6. Broadcast(r, hold, wire, emptySince[r], Up(hold), left, {})
    BY <2>1
  <2> HIDE DEF r, left, i, hold
  <2> QED
    BY <1>1, <1>3, <2>4, <2>5, <2>6, DetachInforms DEF i
<1>7. ASSUME NEW i \in Ids, NEW w \in Wires,
             Broadcast(r, [conn[r] EXCEPT ![i] = NoConn], w, emptySince[r],
                       Up([conn[r] EXCEPT ![i] = NoConn]), lost(i), {}),
             UNCHANGED <<occupied, started>>
      PROVE  RosterSound'
  <2> DEFINE told == lost(i)
             hold == [conn[r] EXCEPT ![i] = NoConn]
  <2>1. TellsAbout(r, i, told)
    <3> HIDE DEF r, lost
    <3> QED
      BY <1>2, <1>4, <1>7 DEF TellsAbout
  <2>2. hold \in Holding /\ \A j \in Ids : hold[j] = IF j = i THEN NoConn ELSE conn[r][j]
    BY <1>1, DepartureType DEF TypeOK
  <2>3. Broadcast(r, hold, w, emptySince[r], Up(hold), told, {})
    BY <1>7
  <2> HIDE DEF r, lost, told, hold
  <2> QED
    BY <1>1, <2>1, <2>2, <2>3, DetachInforms
<1>8. CASE Disconnect(c)
  <2>1. Broadcast(r, [conn[r] EXCEPT ![sess[c].id] = NoConn], [wire EXCEPT ![c] = "off"], emptySince[r],
                  Up([conn[r] EXCEPT ![sess[c].id] = NoConn]), lost(sess[c].id), {})
    BY <1>8 DEF Disconnect
  <2>2. UNCHANGED <<occupied, started>>
    BY <1>8 DEF Disconnect
  <2> HIDE DEF r, lost
  <2> QED
    BY <1>1, <1>3, <1>7, <2>1, <2>2
<1>9. CASE SignalDropsTarget(c, to, t)
  <2>1. Broadcast(r, [conn[r] EXCEPT ![to] = NoConn], Kicked(wire, {conn[r][to]}, "slow-consumer"),
                  emptySince[r], Up([conn[r] EXCEPT ![to] = NoConn]), lost(to), {})
    BY <1>9 DEF SignalDropsTarget
  <2>2. UNCHANGED <<occupied, started>>
    BY <1>9 DEF SignalDropsTarget
  <2> HIDE DEF r, lost
  <2> QED
    BY <1>1, <1>3, <1>7, <2>1, <2>2
<1> QED
  BY <1>6, <1>8, <1>9

\* What a join or claim tells the clients is a roster and a started flag.
LEMMA ToldType ==
  ASSUME TypeOK, NEW r \in Rooms, NEW i \in Ids, NEW c, NEW hold \in Holding,
         NEW occ \in [Ids -> BOOLEAN], NEW st \in BOOLEAN, NEW note
  PROVE  Told(r, i, c, hold, occ, st, note) \in [Conns -> View]
<1>1. \A roster \in [Ids -> Status], b \in BOOLEAN : [roster |-> roster, started |-> b] \in View
  BY DEF View
<1>2. \A d \in Conns : [view[d] EXCEPT !.roster[i] = "here"] \in View
  BY DEF View, TypeOK, Status
<1>3. \A d \in Conns : view[d].started \in BOOLEAN /\ (view[d].started \/ (st /\ ~started[r])) \in BOOLEAN
  BY DEF View, TypeOK
<1> QED
  BY <1>1, <1>2, <1>3, RosterType DEF Told

\* A joiner is told the room as it is, the others that there is one more player, or
\* that an absent one is back.
LEMMA EntersRoster ==
  ASSUME TypeOK, SlotInv, RosterSound, NEW r \in Rooms, NEW i \in Ids, NEW c \in Conns, NEW t,
         NEW occ \in [Ids -> BOOLEAN], NEW st \in BOOLEAN, NEW reason,
         NEW note \in {"player-joined", "player-rejoined"}, NEW swept,
         Enters(r, i, c, t, occ, st, reason, note, swept)
  PROVE  RosterSound'
<1>1. /\ r \notin swept /\ sess[c] = NoSession /\ reason \in KickReasons
      /\ \A j \in Ids : occ[j] <=> j = i \/ occupied[r][j]
      /\ \/ note = "player-joined" /\ (started[r] => st)
         \/ /\ note = "player-rejoined" /\ occ = occupied[r] /\ st = started[r]
      /\ Attach(r, i, c, t, occ, st, reason, note, swept)
  BY DEF Enters
<1>2. PICK delivered \in BOOLEAN : Deliver(delivered, r, i, c, t, occ, st, reason, note, swept)
  BY <1>1 DEF Attach
<1> DEFINE hold == Seated(r, i, c, delivered)
           w == AfterKicks(r, i, c, delivered, reason, swept)
           since == UpdateEmpty(NoTime, Up(hold), t)
           told == Told(r, i, c, hold, occ, st, note)
<1>3. hold \in Holding /\ \A j \in Ids : hold[j] = IF j # i THEN conn[r][j] ELSE IF delivered THEN c ELSE NoConn
  BY DEF Seated, TypeOK, Holding
<1>4. w \in Wires
  BY <1>1, KickedType DEF AfterKicks, TypeOK, Wires, WireStates, KickReasons
<1>5. Broadcast(r, hold, w, since, Up(hold) \ {i}, told, swept)
  BY <1>2 DEF Deliver
<1>6. \A d \in Conns :
        /\ d = c => told[d] = [roster |-> Snapshot(occ, [hold EXCEPT ![i] = c]), started |-> st]
        /\ d # c /\ note = "player-joined" =>
             told[d] = [roster |-> Snapshot(occ, hold), started |-> view[d].started \/ (st /\ ~started[r])]
        /\ d # c /\ note = "player-rejoined" => told[d] = [view[d] EXCEPT !.roster[i] = "here"]
  BY DEF Told
<1>7. told \in [Conns -> View]
  BY <1>3, ToldType
<1> HIDE DEF w, since, told
<1>8. /\ \A q \in Rooms, j \in Ids : occupied'[q][j] <=> IF q = r THEN occ[j] ELSE q \notin swept /\ occupied[q][j]
      /\ started'[r] = st /\ \A q \in Rooms : q # r /\ q \notin swept => started'[q] = started[q]
  <2>1. started' = [ForgetRoom(started, swept, FALSE) EXCEPT ![r] = st]
    BY <1>1 DEF Attach
  <2>2. started'[r] = st /\ \A q \in Rooms : q # r /\ q \notin swept => started'[q] = started[q]
    BY <2>1 DEF ForgetRoom
  <2> QED
    BY <2>2, EntersEffect
<1>9. \A q \in Rooms, j \in Ids : conn[q][j] # c
  <2> SUFFICES ASSUME NEW q \in Rooms, NEW j \in Ids, conn[q][j] = c PROVE FALSE
    OBVIOUS
  <2>1. c # NoConn
    BY NullAssumption
  <2>2. sess[c] = [room |-> q, id |-> j]
    BY <2>1 DEF SlotInv, AttachedBySession
  <2> QED
    BY <1>1, <2>2, NullAssumption
<1>10. ASSUME NEW j \in Ids, hold[j] # NoConn PROVE occ[j]
  <2>1. j # i => occupied[r][j]
    BY <1>3, <1>10 DEF SlotInv, AttachedBySession
  <2> QED
    BY <1>1, <2>1
<1>11. ASSUME NEW j \in Ids, hold[j] # NoConn
       PROVE  Knows(told[hold[j]], hold, occ, st)
  <2>1. hold[j] \in Conns
    BY <1>3, <1>11 DEF Holding
  <2>2. CASE hold[j] = c
    <3>1. hold[i] = c
      BY <1>3, <1>9, <2>2
    <3> DEFINE seated == [hold EXCEPT ![i] = c]
    <3>2. \A k \in Ids : seated[k] = hold[k]
      BY <1>3, <3>1 DEF Holding
    <3>3a. told[c] = [roster |-> Snapshot(occ, seated), started |-> st]
      BY <1>6
    <3> HIDE DEF seated
    <3>3. told[c].started = st /\ told[c].roster = Snapshot(occ, seated)
      BY <3>3a
    <3>4. \A k \in Ids : told[c].roster[k] = IF ~occ[k] THEN "free" ELSE IF hold[k] = NoConn THEN "away" ELSE "here"
      BY <3>2, <3>3 DEF Snapshot
    <3> QED
      BY <1>10, <2>2, <3>3, <3>4 DEF Knows
  <2>3. CASE hold[j] # c
    <3>1. conn[r][j] = hold[j] /\ conn[r][j] # NoConn /\ j # i
      BY <1>3, <1>11, <2>3
    <3>2. Knows(view[hold[j]], conn[r], occupied[r], started[r])
      BY <3>1, RosterKnown
    <3>3. CASE note = "player-joined"
      <4>0. told[hold[j]] = [roster |-> Snapshot(occ, hold),
                             started |-> view[hold[j]].started \/ (st /\ ~started[r])]
        BY <1>6, <2>1, <2>3, <3>3
      <4>1. /\ told[hold[j]].started = (view[hold[j]].started \/ (st /\ ~started[r]))
            /\ told[hold[j]].roster = Snapshot(occ, hold)
        BY <4>0
      <4>2. started[r] \in BOOLEAN /\ view[hold[j]].started = started[r] /\ (started[r] => st)
        BY <1>1, <3>2, <3>3 DEF Knows, TypeOK
      <4>3. (view[hold[j]].started \/ (st /\ ~started[r])) = st
        BY <4>2
      <4>4. \A k \in Ids : told[hold[j]].roster[k] = IF ~occ[k] THEN "free" ELSE IF hold[k] = NoConn THEN "away" ELSE "here"
        BY <4>1 DEF Snapshot
      <4> QED
        BY <1>10, <4>1, <4>3, <4>4 DEF Knows
    <3>4. CASE note = "player-rejoined"
      <4>1. told[hold[j]] = [view[hold[j]] EXCEPT !.roster[i] = "here"]
        BY <1>6, <2>1, <2>3, <3>4
      <4>2. /\ told[hold[j]].started = view[hold[j]].started
            /\ \A k \in Ids : told[hold[j]].roster[k] = IF k = i THEN "here" ELSE view[hold[j]].roster[k]
        BY <2>1, <4>1 DEF TypeOK, View
      <4>3. st = started[r] /\ occ = occupied[r] /\ occ[i]
        BY <1>1, <3>4
      <4>4. \A k \in Ids : told[hold[j]].roster[k] = "free" <=> ~occ[k]
        BY <3>2, <4>2, <4>3 DEF Knows
      <4>5. \A k \in Ids : hold[k] # NoConn => told[hold[j]].roster[k] = "here"
        BY <1>3, <3>2, <4>2 DEF Knows
      <4> QED
        BY <3>2, <4>2, <4>3, <4>4, <4>5 DEF Knows
    <3> QED
      BY <1>1, <3>3, <3>4
  <2> QED
    BY <2>2, <2>3
<1>12. ASSUME NEW j \in Ids, hold[j] # NoConn
       PROVE  Knows(told[hold[j]], hold, occupied'[r], started'[r])
  BY <1>8, <1>11, <1>12 DEF Knows
<1>13. \A q \in Rooms, k \in Ids : q # r /\ q \notin swept =>
         (occupied'[q][k] <=> occupied[q][k]) /\ started'[q] = started[q]
  BY <1>8
<1>14. ASSUME NEW q \in Rooms, NEW k \in Ids, NEW j \in Ids, q # r, conn[q][k] # NoConn
       PROVE  hold[j] # conn[q][k]
  <2>1. conn[r][j] # conn[q][k]
    BY <1>14, AttachedOnce
  <2> QED
    BY <1>3, <1>9, <1>14, <2>1
<1> HIDE DEF hold
<1> QED
  BY <1>3, <1>4, <1>5, <1>7, <1>12, <1>13, <1>14, BroadcastSound

\* Clients of the rooms that stay keep what they know when others are forgotten.
LEMMA SweptRoster ==
  ASSUME TypeOK, SlotInv, RosterSound, NEW S \in SUBSET Rooms, Swept(S), started' \in [Rooms -> BOOLEAN]
  PROVE  RosterSound'
<1>1. ASSUME NEW q \in Rooms, NEW i \in Ids, conn'[q][i] # NoConn
      PROVE  Knows(view'[conn'[q][i]], conn'[q], occupied'[q], started'[q])
  <2>1. q \notin S /\ conn'[q][i] = conn[q][i] /\ conn[q][i] # NoConn /\ conn[q][i] \in Conns
    BY <1>1 DEF Swept, TypeOK
  <2>2. conn[q][i] \notin AttachedTo(S)
    BY <2>1, AttachedOnce DEF AttachedTo
  <2>3. view'[conn[q][i]] = view[conn[q][i]]
    BY <2>1, <2>2 DEF Swept
  <2>4. started'[q] = started[q]
    <3>1. (started'[q] <=> started[q]) /\ started[q] \in BOOLEAN /\ started'[q] \in BOOLEAN
      BY <2>1 DEF Swept, TypeOK
    <3> QED
      BY <3>1
  <2>5. \A j \in Ids : (occupied'[q][j] <=> occupied[q][j]) /\ conn'[q][j] = conn[q][j]
    BY <2>1 DEF Swept
  <2>6. Knows(view[conn[q][i]], conn[q], occupied[q], started[q])
    BY <2>1, RosterKnown
  <2> QED
    BY <2>1, <2>3, <2>4, <2>5, <2>6 DEF Knows
<1> QED
  BY ONLY <1>1, RosterKnown

\* Every step keeps the rosters sound.
LEMMA RosterStep == TypeOK /\ RoomsLinked /\ SlotInv /\ RosterSound /\ [Next]_vars => RosterSound'
<1> SUFFICES ASSUME TypeOK, RoomsLinked, SlotInv, RosterSound, [Next]_vars PROVE RosterSound'
  OBVIOUS
<1>1. started' \in [Rooms -> BOOLEAN]
  BY TypeStep DEF TypeOK
<1>2. ASSUME NEW t,
             \/ GC(t)
             \/ \E c \in Conns, code \in Codes, app \in Apps, opts \in CreateOptions :
                  JoinCreateFails(c, code, app, opts, t)
      PROVE  RosterSound'
  BY <1>1, <1>2, SweepEffect, SweptRoster
<1>3. ASSUME NEW c \in Conns, NEW code \in Codes, NEW app \in Apps, NEW t \in Times,
             JoinOrClaim(c, code, app, t)
      PROVE  RosterSound'
  <2>1. CASE \E opts \in CreateOptions : JoinCreateFails(c, code, app, opts, t)
    BY <1>2, <2>1
  <2>2. ASSUME NEW r \in Rooms, NEW i \in Ids, NEW occ \in [Ids -> BOOLEAN], NEW st \in BOOLEAN,
               NEW reason \in KickReasons, NEW note \in {"player-joined", "player-rejoined"},
               NEW swept \in SUBSET Rooms, Enters(r, i, c, t, occ, st, reason, note, swept)
        PROVE  RosterSound'
    BY <2>2, EntersRoster
  <2> QED
    BY <1>3, <2>1, <2>2, JoinOrClaimEnters
<1>4. ASSUME NEW c \in Conns, NEW to \in Ids, NEW t \in Times,
             Leave(c) \/ Disconnect(c) \/ SignalDropsTarget(c, to, t)
      PROVE  RosterSound'
  BY <1>4, DepartureRoster
<1>5. ASSUME UNCHANGED <<conn, view, occupied, started>> PROVE RosterSound'
  BY <1>5 DEF RosterSound
<1>6. ASSUME NEW c \in Conns,
             \/ Connect(c) \/ WriterFails(c) \/ ReaderEnds(c) \/ LeaveStale(c)
             \/ \E t \in Times : Touch(c, t) \/ \E to \in Ids : Signal(c, to, t)
      PROVE  RosterSound'
  BY <1>5, <1>6 DEF Connect, WriterFails, ReaderEnds, LeaveStale, Touch, Signal, roomVars, slotVars, connVars
<1>7. ASSUME Tick \/ UNCHANGED vars PROVE RosterSound'
  BY <1>5, <1>7 DEF Tick, vars, roomVars, slotVars, connVars
<1>8. clock \in Times /\ 0 \in Ids
  BY BoundsAssumption DEF TypeOK, Times, Ids
<1> QED
  BY <1>2, <1>3, <1>4, <1>6, <1>7, <1>8 DEF Next

\* Nobody is attached at first.
LEMMA RosterInit == Init => RosterSound
BY DEF Init, RosterSound

\* What every attached client has been told of its room is true of it.
THEOREM RosterKept == Spec => []RosterSound
<1>1. Init => RosterSound
  BY RosterInit
<1>2. TypeOK /\ RoomsLinked /\ SlotInv /\ RosterSound /\ [Next]_vars => RosterSound'
  BY RosterStep
<1> QED
  BY <1>1, <1>2, SlotsAgree, PTL DEF Spec
=============================================================================
