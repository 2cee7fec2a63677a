--------------------------- MODULE SessionProofs ---------------------------
(***************************************************************************)
(* Proofs about Session, for every number of games, slots and faults: its  *)
(* types, that a game that has heard everything knows whether it sits, and *)
(* that of the seats the games of a store keep one at most is neither      *)
(* written off nor still being asked for, and is that of the stored token. *)
(***************************************************************************)
EXTENDS Session, TLAPS, SequenceTheorems, FiniteSetTheorems

\* What the server sends to a game.
DownMsgs == [type : DownTypes] \cup [type : {"joined"}, slot : Slots]

\* A game that plays is seated as it believes, or its end is on the way.
Believes(g) ==
  Phase(g) = "playing" =>
    /\ game[g].slot \in Slots
    /\ game[g].over = "" => Len(down[g]) > 0 \/ slot[game[g].slot].holder = g

\* So will a game that is being seated: if the news of its seat is all there
\* is, the seat is its own.
WillBelieve(g) ==
  Phase(g) \in {"dialing", "joining"} /\ Len(down[g]) = 1 =>
    down[g][1].type # "joined" \/ slot[down[g][1].slot].holder = g

\* A game that has not ended has not sent a leave, nor has its socket ended.
StillThere(g) ==
  Phase(g) \in {"dialing", "joining", "playing"} =>
    \A i \in DOMAIN up[g] : up[g][i] = "join"

\* Nothing is sent for a game that was not begun.
NotBegun(g) == Phase(g) = "none" => up[g] = <<>> /\ down[g] = <<>>

Sound(g) == Believes(g) /\ WillBelieve(g) /\ StillThere(g) /\ NotBegun(g)

IInv == TypeOK /\ \A g \in Games : Sound(g)

----------------------------------------------------------------------------
(* What the server sends *)

LEMMA EndedType ==
  ASSUME NEW code \in DownTypes
  PROVE  /\ Ended(code) \in Seq(DownMsgs)
         /\ Len(Ended(code)) = 2 /\ Len(Ended(code)) > 1 /\ Len(Ended(code)) > 0
BY DEF Ended, DownMsgs, DownTypes, FatalCodes, GameOverCodes

\* Post appends to what a live game was sent, and does nothing to the others.
LEMMA PostType ==
  ASSUME NEW d \in [Games -> Seq(DownMsgs)], NEW g \in Games, NEW ms \in Seq(DownMsgs)
  PROVE  /\ Post(d, g, ms) \in [Games -> Seq(DownMsgs)]
         /\ \A h \in Games : Post(d, g, ms)[h] =
              IF h = g /\ Alive(g) THEN d[h] \o ms ELSE d[h]
BY DEF Post

\* While the games do not move, a game keeps its beliefs if its seats are not
\* touched and it is sent nothing, or if it is sent something that is not the
\* news of a seat alone, or of one that it has.  One that is over has none.
Undisturbed(g) ==
  down'[g] = down[g] /\ \A s \in Slots : slot[s].holder = g => slot'[s].holder = g

Ignored(g) == ~Alive(g) /\ down'[g] = down[g]

Hears(g, ms) ==
  /\ Alive(g) /\ Len(ms) > 0 /\ down'[g] = down[g] \o ms
  /\ Len(ms) > 1 \/ ms[1].type # "joined" \/ slot'[ms[1].slot].holder = g

Over(g) == Phase(g) \in {"closing", "closed", "failed", "dead"}

Follows(g) ==
  Undisturbed(g) \/ Ignored(g) \/ Over(g) \/ \E ms \in Seq(DownMsgs) : Hears(g, ms)

LEMMA FollowsBelieves ==
  ASSUME IInv, game' = game, NEW g \in Games, Follows(g)
  PROVE  Believes(g)' /\ WillBelieve(g)' /\ (Phase(g) = "none" => down'[g] = down[g])
<1>0. down[g] \in Seq(DownMsgs) /\ Believes(g) /\ WillBelieve(g)
  BY DEF IInv, Sound, TypeOK, DownMsgs
<1>1. CASE Undisturbed(g)
  <2>1. Len(down[g]) = 1 /\ down[g][1].type = "joined" => down[g][1].slot \in Slots
    BY <1>0 DEF DownMsgs, DownTypes, FatalCodes, GameOverCodes
  <2> QED
    BY <1>0, <1>1, <2>1 DEF Undisturbed, Believes, WillBelieve, Phase
<1>2. CASE Ignored(g)
  BY <1>0, <1>2 DEF Ignored, Believes, WillBelieve, Phase, Alive
<1>3. CASE \E ms \in Seq(DownMsgs) : Hears(g, ms)
  <2>1. PICK ms \in Seq(DownMsgs) :
             /\ Alive(g) /\ Len(ms) > 0 /\ down'[g] = down[g] \o ms
             /\ Len(ms) > 1 \/ ms[1].type # "joined" \/ slot'[ms[1].slot].holder = g
    BY <1>3 DEF Hears
  <2>2. /\ Len(down'[g]) = Len(down[g]) + Len(ms) /\ Len(down[g]) \in Nat
        /\ Len(ms) \in Nat /\ Len(ms) > 0
    BY <1>0, <2>1
  <2>3. Len(down'[g]) = 1 => Len(ms) = 1 /\ down'[g][1] = ms[1]
    <3>0. ASSUME NEW b \in Nat, NEW c \in Nat, c > 0, b + c = 1  PROVE b = 0 /\ c = 1
      BY <3>0
    <3>1. Len(down'[g]) = 1 => Len(ms) = 1 /\ Len(down[g]) = 0
      BY <2>2, <3>0
    <3>2. Len(down[g]) = 0 => (down[g] \o ms)[1] = ms[1]
      BY <1>0, <2>1, <2>2, ConcatProperties
    <3> QED
      BY <2>1, <3>1, <3>2
  <2>4. Believes(g)'
    <3>1. Len(down'[g]) > 0
      BY <2>2
    <3> QED
      BY <1>0, <3>1 DEF Believes, Phase
  <2>5. WillBelieve(g)'
    BY <2>1, <2>3 DEF WillBelieve
  <2> QED
    BY <2>1, <2>4, <2>5 DEF Alive
<1>4. CASE Over(g)
  BY <1>4 DEF Over, Believes, WillBelieve, Phase
<1> QED
  BY <1>1, <1>2, <1>3, <1>4 DEF Follows

----------------------------------------------------------------------------
(* What the server does *)

\* A holder is a game that was begun.
LEMMA HolderType ==
  ASSUME TypeOK, NEW s \in Slots
  PROVE  slot[s].holder \in Games \cup {0}
BY SessionConstants DEF TypeOK, Games

LEMMA SeatSafe ==
  ASSUME IInv, NEW g \in Games, NEW s \in Slots, NEW code, Seat(g, s, code),
         code \in DownTypes \/ slot[s] = Free, game' = game
  PROVE  /\ slot' \in [Slots -> [token : 0 .. MaxGames, holder : 0 .. MaxGames]]
         /\ down' \in [Games -> Seq(DownMsgs)]
         /\ \A h \in Games : Follows(h)
<1>1. PICK h \in Games \cup {0} : h = slot[s].holder
  BY HolderType DEF IInv
<1> DEFINE news == <<[type |-> "joined", slot |-> s]>>
<1>2. /\ slot' = [slot EXCEPT ![s] = [token |-> g, holder |-> g]]
      /\ h = 0 => down' = Post(down, g, news)
      /\ h # 0 => down' = Post(Post(down, h, Ended(code)), g, news)
      /\ \A t \in Slots \ {s} : slot'[t] = slot[t]
  BY <1>1 DEF Seat, Seated, IInv, TypeOK
<1>3. slot' \in [Slots -> [token : 0 .. MaxGames, holder : 0 .. MaxGames]] /\ slot'[s].holder = g
  BY <1>2, SessionConstants DEF IInv, TypeOK, Games
<1>4. PICK ms \in Seq(DownMsgs) : ms = news /\ Len(ms) = 1 /\ ms[1].slot = s
  <2>1. [type |-> "joined", slot |-> s] \in DownMsgs
    BY DEF DownMsgs
  <2>2. news \in Seq(DownMsgs) /\ Len(news) = 1 /\ news[1].slot = s
    BY <2>1
  <2> QED
    BY <2>2
<1>d. down \in [Games -> Seq(DownMsgs)]
  BY DEF DownMsgs, IInv, TypeOK
<1> HIDE DEF news
<1>5. CASE h = 0
  <2>1. /\ down' \in [Games -> Seq(DownMsgs)]
        /\ \A i \in Games : down'[i] = IF i = g /\ Alive(g) THEN down[i] \o ms ELSE down[i]
    <3>1. down' = Post(down, g, ms)
      BY <1>2, <1>4, <1>5
    <3> QED
      BY <3>1, <1>d, PostType
  <2>2. Follows(g)
    <3>1. slot'[ms[1].slot].holder = g
      BY <1>3, <1>4
    <3>2. Ignored(g) \/ Hears(g, ms)
      BY <1>4, <2>1, <3>1 DEF Ignored, Hears
    <3> QED
      BY <3>2 DEF Follows
  <2>3. ASSUME NEW i \in Games, i # g  PROVE Follows(i)
    <3>1. down'[i] = down[i]
      BY <2>1, <2>3
    <3>2. \A t \in Slots : slot[t].holder = i => slot'[t].holder = i
      <4>1. i # 0 /\ i # h
        BY <1>5, SessionConstants DEF Games
      <4> QED
        BY <1>1, <1>2, <4>1
    <3>3. Undisturbed(i)
      BY <3>1, <3>2 DEF Undisturbed
    <3> QED
      BY <3>3 DEF Follows
  <2> QED
    BY <1>3, <2>1, <2>2, <2>3
<1>6. CASE h # 0
  <2>1. Ended(code) \in Seq(DownMsgs) /\ Len(Ended(code)) = 2
    BY <1>1, <1>6, EndedType DEF Free
  <2> DEFINE kicked == Post(down, h, Ended(code))
  <2>2. /\ kicked \in [Games -> Seq(DownMsgs)]
        /\ \A i \in Games : kicked[i] = IF i = h /\ Alive(h) THEN down[i] \o Ended(code) ELSE down[i]
    BY <1>1, <1>d, <1>6, <2>1, PostType
  <2> HIDE DEF kicked
  <2>3. /\ down' \in [Games -> Seq(DownMsgs)]
        /\ \A i \in Games : down'[i] = IF i = g /\ Alive(g) THEN kicked[i] \o ms ELSE kicked[i]
    <3>1. down' = Post(kicked, g, ms)
      BY <1>2, <1>4, <1>6 DEF kicked
    <3> QED
      BY <3>1, <2>2, PostType
  <2>4. CASE h = g
    <3>1. ASSUME Alive(g)  PROVE Follows(g)
      <4>1. down'[g] = down[g] \o (Ended(code) \o ms)
        <5>1. down'[g] = (down[g] \o Ended(code)) \o ms
          BY <2>2, <2>3, <2>4, <3>1
        <5>2. (down[g] \o Ended(code)) \o ms = down[g] \o (Ended(code) \o ms)
          BY <1>d, <2>1, ConcatAssociative, SMTT(30)
        <5> QED
          BY <5>1, <5>2
      <4>2. Ended(code) \o ms \in Seq(DownMsgs) /\ Len(Ended(code) \o ms) = 3
        <5>1. /\ Ended(code) \o ms \in Seq(DownMsgs)
              /\ Len(Ended(code) \o ms) = Len(Ended(code)) + Len(ms)
          BY <2>1, ConcatProperties
        <5> QED
          BY <1>4, <2>1, <5>1
      <4>3. Hears(g, Ended(code) \o ms)
        BY <3>1, <4>1, <4>2 DEF Hears
      <4> QED
        BY <4>2, <4>3 DEF Follows
    <3>2. ASSUME ~Alive(g)  PROVE Follows(g)
      BY <2>2, <2>3, <2>4, <3>2 DEF Ignored, Follows
    <3>3. ASSUME NEW i \in Games, i # g  PROVE Follows(i)
      <4>1. Undisturbed(i)
        BY <1>1, <1>2, <2>2, <2>3, <2>4, <3>3 DEF Undisturbed, Games
      <4> QED
        BY <4>1 DEF Follows
    <3> QED
      BY <1>3, <2>3, <3>1, <3>2, <3>3
  <2>5. CASE h # g
    <3>1. Follows(g)
      <4>1. slot'[ms[1].slot].holder = g
        BY <1>3, <1>4
      <4>2. down'[g] = IF Alive(g) THEN down[g] \o ms ELSE down[g]
        BY <2>2, <2>3, <2>5
      <4> QED
        <5>1. Ignored(g) \/ Hears(g, ms)
          BY <1>4, <4>1, <4>2 DEF Ignored, Hears
        <5> QED
          BY <5>1 DEF Follows
    <3>2. Follows(h)
      <4>1. down'[h] = IF Alive(h) THEN down[h] \o Ended(code) ELSE down[h]
        BY <1>1, <1>6, <2>2, <2>3, <2>5
      <4> QED
        <5>1. Ignored(h) \/ Hears(h, Ended(code))
          BY <2>1, <4>1 DEF Ignored, Hears
        <5> QED
          BY <2>1, <5>1 DEF Follows
    <3>3. ASSUME NEW i \in Games, i # g, i # h  PROVE Follows(i)
      <4>1. Undisturbed(i)
        BY <1>1, <1>2, <2>2, <2>3, <2>5, <3>3 DEF Undisturbed, Games
      <4> QED
        BY <4>1 DEF Follows
    <3> QED
      BY <1>3, <2>3, <3>1, <3>2, <3>3
  <2> QED
    BY <2>4, <2>5
<1> QED
  BY <1>5, <1>6

LEMMA JoinSafe ==
  ASSUME IInv, NEW g \in Games, Join(g), game' = game
  PROVE  /\ slot' \in [Slots -> [token : 0 .. MaxGames, holder : 0 .. MaxGames]]
         /\ down' \in [Games -> Seq(DownMsgs)]
         /\ \A h \in Games : Follows(h)
<1>1. CASE \E s \in Slots : Seat(g, s, "replaced")
  <2>1. "replaced" \in DownTypes
    BY DEF DownTypes, FatalCodes, GameOverCodes
  <2> QED
    BY <1>1, <2>1, SeatSafe
<1>2. CASE \E s \in Kept(game[g].tried) : Seat(g, s, "session-superseded")
  <2>1. "session-superseded" \in DownTypes
    BY DEF DownTypes, FatalCodes, GameOverCodes
  <2> QED
    BY <1>2, <2>1, SeatSafe DEF Kept
<1>3. CASE \E s \in FreeSlots : Seat(g, s, "")
  BY <1>3, SeatSafe DEF FreeSlots
<1>4. CASE down' = Post(down, g, Ended("room-full")) /\ UNCHANGED slot
  <2>1. "room-full" \in DownTypes
    BY DEF DownTypes
  <2>2. Ended("room-full") \in Seq(DownMsgs) /\ Len(Ended("room-full")) = 2
    BY <2>1, EndedType
  <2>3. down \in [Games -> Seq(DownMsgs)]
    BY DEF IInv, TypeOK, DownMsgs
  <2>4. /\ down' \in [Games -> Seq(DownMsgs)]
        /\ \A h \in Games : down'[h] =
             IF h = g /\ Alive(g) THEN down[h] \o Ended("room-full") ELSE down[h]
    BY <1>4, <2>2, <2>3, PostType
  <2>5. ASSUME NEW h \in Games  PROVE Follows(h)
    <3>1. CASE h = g /\ Alive(g)
      <4>1. Hears(h, Ended("room-full"))
        <5>1. Len(Ended("room-full")) > 0 /\ Len(Ended("room-full")) > 1
          BY <2>1, EndedType
        <5> QED
          BY <2>4, <3>1, <5>1, Zenon DEF Hears
      <4> QED
        BY <2>2, <4>1 DEF Follows
    <3>2. CASE ~(h = g /\ Alive(g))
      <4>1. Undisturbed(h)
        BY <1>4, <2>4, <3>2 DEF Undisturbed
      <4> QED
        BY <4>1 DEF Follows
    <3> QED
      BY <3>1, <3>2
  <2> QED
    BY <1>4, <2>4, <2>5 DEF IInv, TypeOK
<1> QED
  BY <1>1, <1>2, <1>3, <1>4, Zenon DEF Join

\* The messages of a game are read one by one.
LEMMA ServeSafe ==
  ASSUME IInv, NEW g \in Games, Serve(g)
  PROVE  /\ slot' \in [Slots -> [token : 0 .. MaxGames, holder : 0 .. MaxGames]]
         /\ down' \in [Games -> Seq(DownMsgs)]
         /\ \A h \in Games : Follows(h)
<1>1. game' = game
  BY DEF Serve
<1>2. CASE Head(up[g]) = "join" /\ Join(g)
  BY <1>1, <1>2, JoinSafe
<1>3. CASE /\ Head(up[g]) \in {"leave", "eof"} /\ UNCHANGED down
           /\ \/ slot' = [s \in Slots |-> IF slot[s].holder = g THEN Free ELSE slot[s]]
              \/ slot' = [s \in Slots |-> IF slot[s].holder = g
                             THEN [slot[s] EXCEPT !.holder = 0] ELSE slot[s]]
  <2>1. Over(g)
    <3>1. up[g] \in Seq({"join", "leave", "eof"}) /\ up[g] # <<>>
      BY DEF IInv, TypeOK, Serve
    <3>2. 1 \in DOMAIN up[g] /\ up[g][1] # "join"
      BY <1>3, <3>1
    <3>3. Phase(g) \notin {"none", "dialing", "joining", "playing"}
      BY <3>1, <3>2 DEF IInv, Sound, StillThere, NotBegun
    <3> QED
      BY <3>3 DEF IInv, TypeOK, Records, Phase, Over
  <2>2. \A h \in Games : h # g => Undisturbed(h)
    BY <1>3 DEF Undisturbed
  <2>3. slot' \in [Slots -> [token : 0 .. MaxGames, holder : 0 .. MaxGames]]
    <3>1. /\ 0 \in 0 .. MaxGames
          /\ slot \in [Slots -> [token : 0 .. MaxGames, holder : 0 .. MaxGames]]
      BY SessionConstants DEF IInv, TypeOK
    <3>2. Free \in [token : 0 .. MaxGames, holder : 0 .. MaxGames]
      BY <3>1 DEF Free
    <3>3. \A s \in Slots : [slot[s] EXCEPT !.holder = 0] \in [token : 0 .. MaxGames, holder : 0 .. MaxGames]
      BY <3>1
    <3> QED
      BY <1>3, <3>1, <3>2, <3>3
  <2> QED
    BY <1>3, <2>1, <2>2, <2>3 DEF Follows, IInv, TypeOK, DownMsgs
<1> QED
  BY <1>2, <1>3 DEF Serve

LEMMA CutSafe ==
  ASSUME IInv, NEW s \in Slots, Cut(s)
  PROVE  /\ slot' \in [Slots -> [token : 0 .. MaxGames, holder : 0 .. MaxGames]]
         /\ down' \in [Games -> Seq(DownMsgs)]
         /\ \A h \in Games : Follows(h)
<1>1. PICK g \in Games : g = slot[s].holder
  BY HolderType DEF Cut, IInv
<1>2. PICK last \in {Ended("slow-consumer"), <<[type |-> "closed"]>>} : down' = Post(down, g, last)
  BY <1>1 DEF Cut
<1>3. last \in Seq(DownMsgs) /\ Len(last) > 0 /\ last[1].type # "joined"
  <2>1. CASE last = Ended("slow-consumer")
    <3>1. [type |-> "slow-consumer"] \in DownMsgs /\ [type |-> "closed"] \in DownMsgs
      BY DEF DownMsgs, DownTypes, FatalCodes, GameOverCodes
    <3> QED
      BY <2>1, <3>1 DEF Ended
  <2>2. CASE last = <<[type |-> "closed"]>>
    <3>1. [type |-> "closed"] \in DownMsgs
      BY DEF DownMsgs, DownTypes
    <3> QED
      BY <2>2, <3>1
  <2> QED
    BY <1>2, <2>1, <2>2
<1>4. down \in [Games -> Seq(DownMsgs)]
  BY DEF IInv, TypeOK, DownMsgs
<1>5. /\ down' \in [Games -> Seq(DownMsgs)]
      /\ \A h \in Games : down'[h] = IF h = g /\ Alive(g) THEN down[h] \o last ELSE down[h]
  BY <1>2, <1>3, <1>4, PostType
<1>6. slot' = [slot EXCEPT ![s].holder = 0] /\ slot \in [Slots -> [token : 0 .. MaxGames, holder : 0 .. MaxGames]]
  BY DEF Cut, IInv, TypeOK
<1>7. slot' \in [Slots -> [token : 0 .. MaxGames, holder : 0 .. MaxGames]]
  BY <1>6, SessionConstants
<1>8. ASSUME NEW h \in Games  PROVE Follows(h)
  <2>1. CASE h = g
    <3>1. Ignored(h) \/ Hears(h, last)
      BY <1>3, <1>5, <2>1 DEF Ignored, Hears
    <3> QED
      BY <1>3, <3>1 DEF Follows
  <2>2. CASE h # g
    <3>1. Undisturbed(h)
      BY <1>1, <1>5, <1>6, <2>2 DEF Undisturbed
    <3> QED
      BY <3>1 DEF Follows
  <2> QED
    BY <2>1, <2>2
<1> QED
  BY <1>5, <1>7, <1>8

LEMMA ExpireSafe ==
  ASSUME IInv, Expire
  PROVE  /\ slot' \in [Slots -> [token : 0 .. MaxGames, holder : 0 .. MaxGames]]
         /\ down' \in [Games -> Seq(DownMsgs)]
         /\ \A h \in Games : Follows(h)
<1>1. slot' = [s \in Slots |-> Free]
  BY DEF Expire
<1>2. slot' \in [Slots -> [token : 0 .. MaxGames, holder : 0 .. MaxGames]]
  BY <1>1, SessionConstants DEF Free
<1>3. "room-expired" \in DownTypes
  BY DEF DownTypes, FatalCodes, GameOverCodes
<1>4. PICK last \in Seq(DownMsgs) : last = Ended("room-expired") /\ Len(last) > 1 /\ Len(last) > 0
  BY <1>3, EndedType
<1>5. down \in [Games -> Seq(DownMsgs)]
  BY DEF IInv, TypeOK, DownMsgs
<1>6. down' = [g \in Games |-> IF \E s \in Slots : slot[s].holder = g
                               THEN Post(down, g, last)[g] ELSE down[g]]
  BY <1>4 DEF Expire
<1>7. ASSUME NEW g \in Games
      PROVE  /\ Post(down, g, last)[g] \in Seq(DownMsgs)
             /\ Post(down, g, last)[g] = IF Alive(g) THEN down[g] \o last ELSE down[g]
  BY <1>4, <1>5, PostType
<1>8. down' \in [Games -> Seq(DownMsgs)]
  BY <1>5, <1>6, <1>7
<1>9. ASSUME NEW h \in Games  PROVE Follows(h)
  <2>1. CASE \E s \in Slots : slot[s].holder = h
    <3>0. down'[h] = IF Alive(h) THEN down[h] \o last ELSE down[h]
      BY <1>6, <1>7, <2>1
    <3>1. Ignored(h) \/ Hears(h, last)
      BY <1>4, <3>0, Zenon DEF Ignored, Hears
    <3> QED
      BY <1>4, <3>1 DEF Follows
  <2>2. CASE ~ \E s \in Slots : slot[s].holder = h
    <3>1. Undisturbed(h)
      BY <1>6, <2>2 DEF Undisturbed
    <3> QED
      BY <3>1 DEF Follows
  <2> QED
    BY <2>1, <2>2
<1> QED
  BY <1>2, <1>8, <1>9

----------------------------------------------------------------------------
(* The invariant *)

\* The steps of the server, once they are known to be followed.
LEMMA ServerKeeps ==
  ASSUME IInv, game' = game, UNCHANGED <<backend, store>>,
         slot' \in [Slots -> [token : 0 .. MaxGames, holder : 0 .. MaxGames]],
         down' \in [Games -> Seq(DownMsgs)],
         \A h \in Games : Follows(h),
         up' \in [Games -> Seq({"join", "leave", "eof"})],
         \A h \in Games : Phase(h) = "none" => up'[h] = up[h],
         \A h \in Games : \A i \in DOMAIN up'[h] : \E j \in DOMAIN up[h] : up'[h][i] = up[h][j],
         faults' \in 0 .. MaxFaults, stray' \subseteq Games
  PROVE  IInv'
<1>1. TypeOK'
  BY DEF IInv, TypeOK, DownMsgs
<1>2. ASSUME NEW h \in Games  PROVE Sound(h)'
  <2>1. Believes(h)' /\ WillBelieve(h)' /\ (Phase(h) = "none" => down'[h] = down[h])
    BY FollowsBelieves
  <2>2. StillThere(h)'
    BY DEF IInv, Sound, StillThere, Phase
  <2>3. NotBegun(h)'
    BY <2>1 DEF IInv, Sound, NotBegun, Phase
  <2> QED
    BY <2>1, <2>2, <2>3 DEF Sound
<1> QED
  BY <1>1, <1>2 DEF IInv

\* A game keeps its beliefs while others move.
LEMMA OthersKeep ==
  ASSUME NEW h \in Games, Sound(h), game'[h] = game[h], up'[h] = up[h], down'[h] = down[h],
         slot' = slot
  PROVE  Sound(h)'
BY DEF Sound, Believes, WillBelieve, StillThere, NotBegun, Phase

\* What remains of a game that is over.
LEMMA OverKeeps ==
  ASSUME NEW g \in Games, game'[g].phase \in {"closing", "closed", "failed", "dead"}
  PROVE  Sound(g)'
BY DEF Sound, Believes, WillBelieve, StillThere, NotBegun, Phase

LEMMA ServeKeeps ==
  ASSUME IInv, NEW g \in Games, Serve(g)
  PROVE  IInv'
<1>1. up \in [Games -> Seq({"join", "leave", "eof"})] /\ up[g] # <<>> /\ up' = [up EXCEPT ![g] = Tail(@)]
  BY DEF Serve, IInv, TypeOK
<1>2. Tail(up[g]) \in Seq({"join", "leave", "eof"})
  BY <1>1
<1>3. up' \in [Games -> Seq({"join", "leave", "eof"})]
  BY <1>1, <1>2
<1>4. \A h \in Games : Phase(h) = "none" => up'[h] = up[h]
  BY <1>1 DEF IInv, Sound, NotBegun
<1>5. ASSUME NEW h \in Games, NEW i \in DOMAIN up'[h]
      PROVE  \E j \in DOMAIN up[h] : up'[h][i] = up[h][j]
  <2>1. CASE h = g
    <3>1. Len(up[g]) \in Nat /\ Len(Tail(up[g])) = Len(up[g]) - 1 /\ DOMAIN up[g] = 1 .. Len(up[g])
      BY <1>1
    <3>2. i \in 1 .. Len(up[g]) - 1 /\ up'[g][i] = up[g][i + 1]
      BY <1>1, <1>2, <1>5, <2>1, <3>1
    <3>3. i + 1 \in DOMAIN up[g]
      BY <3>1, <3>2
    <3> QED
      BY <2>1, <3>2, <3>3
  <2>2. CASE h # g
    BY <1>1, <1>5, <2>2
  <2> QED
    BY <2>1, <2>2
<1> QED
  BY <1>3, <1>4, <1>5, ServeSafe, ServerKeeps DEF Serve, IInv, TypeOK

LEMMA CutKeeps ==
  ASSUME IInv, NEW s \in Slots, Cut(s)
  PROVE  IInv'
<1>1. PICK g \in Games : g = slot[s].holder
  BY HolderType DEF Cut, IInv
<1>2. up \in [Games -> Seq({"join", "leave", "eof"})] /\ up' = [up EXCEPT ![g] = <<>>]
  BY <1>1 DEF Cut, IInv, TypeOK
<1>3. up' \in [Games -> Seq({"join", "leave", "eof"})]
  BY <1>2
<1>4. \A h \in Games : Phase(h) = "none" => up'[h] = up[h]
  BY <1>2 DEF IInv, Sound, NotBegun
<1>5. \A h \in Games : \A i \in DOMAIN up'[h] : \E j \in DOMAIN up[h] : up'[h][i] = up[h][j]
  BY <1>2
<1>6. faults' \in 0 .. MaxFaults /\ stray' \subseteq Games
  <2>1. stray' = IF LeaveUnderway(g) THEN stray \cup {g} ELSE stray
    BY <1>1 DEF Cut
  <2> QED
    BY <2>1, SessionConstants DEF Cut, IInv, TypeOK
<1> QED
  BY <1>3, <1>4, <1>5, <1>6, CutSafe, ServerKeeps DEF Cut

LEMMA ExpireKeeps ==
  ASSUME IInv, Expire
  PROVE  IInv'
<1>1. up \in [Games -> Seq({"join", "leave", "eof"})] /\ up' = up
  BY DEF Expire, IInv, TypeOK
<1>2. faults' \in 0 .. MaxFaults /\ stray' \subseteq Games
  BY SessionConstants DEF Expire, IInv, TypeOK
<1> QED
  BY <1>1, <1>2, ExpireSafe, ServerKeeps DEF Expire

\* Whatever is written off is the token of a game.
LEMMA CloseTypes ==
  ASSUME TypeOK, NEW g \in Games
  PROVE  /\ Leaving(g) \in Seq({"leave"}) /\ <<>> \in Seq({"leave"})
         /\ \A spent : Forget(spent) => stray' \subseteq Games
         /\ Abandon(g) => stray' \subseteq Games
         /\ stray \cup Desert(g) \subseteq Games
         /\ stray \cup Desert(g) \cup ({store} \ {0, g}) \subseteq Games
         /\ store \in 0 .. MaxGames /\ 0 \in 0 .. MaxGames
         /\ faults \in 0 .. MaxFaults
<1>1. Leaving(g) \in Seq({"leave"})
  <2>1. <<"leave">> \in Seq({"leave"}) /\ <<>> \in Seq({"leave"})
    OBVIOUS
  <2> QED
    BY <2>1, Zenon DEF Leaving
<1>2. stray \subseteq Games /\ {store} \ {0} \subseteq Games /\ Desert(g) \subseteq Games
  BY SessionConstants DEF TypeOK, Games, Desert
<1>3. \A spent : Forget(spent) => stray' \subseteq Games
  BY <1>2 DEF Forget
<1>4. Abandon(g) => stray' \subseteq Games
  BY <1>2 DEF Abandon
<1> QED
  BY <1>1, <1>2, <1>3, <1>4, SessionConstants DEF TypeOK

LEMMA BeginKeeps ==
  ASSUME IInv, NEW g \in Games, NEW token \in 0 .. MaxGames, Begin(g, token),
         UNCHANGED <<backend, store, slot, up, down, stray>>
  PROVE  IInv'
<1>1. PICK claim \in BOOLEAN :
         /\ claim => faults < MaxFaults
         /\ game' = [game EXCEPT ![g] = [NewGame EXCEPT !.phase = "dialing",
                       !.claim = claim, !.tried = IF claim THEN 0 ELSE token]]
         /\ faults' = IF claim THEN faults + 1 ELSE faults
  BY DEF Begin
<1>2. [NewGame EXCEPT !.phase = "dialing", !.claim = claim,
                      !.tried = IF claim THEN 0 ELSE token] \in Records
  <2>1. PICK t \in 0 .. MaxGames : t = IF claim THEN 0 ELSE token
    BY SessionConstants
  <2>2. NewGame \in Records
    BY SessionConstants DEF NewGame, Records
  <2>3. [NewGame EXCEPT !.phase = "dialing", !.claim = claim, !.tried = t] \in Records
    BY <2>2 DEF Records
  <2> QED
    BY <2>1, <2>3
<1>3. game' \in [Games -> Records] /\ game'[g].phase = "dialing"
  BY <1>1, <1>2 DEF IInv, TypeOK, NewGame
<1>4. faults' \in 0 .. MaxFaults
  BY <1>1, SessionConstants DEF IInv, TypeOK
<1>6. TypeOK'
  BY <1>3, <1>4 DEF IInv, TypeOK, DownTypes, FatalCodes, GameOverCodes
<1>7. Sound(g)'
  <2>1. up'[g] = <<>> /\ down'[g] = <<>>
    BY DEF IInv, Sound, NotBegun, Begin
  <2> QED
    BY <1>3, <2>1 DEF Sound, Believes, WillBelieve, StillThere, NotBegun, Phase
<1>8. ASSUME NEW h \in Games, h # g  PROVE Sound(h)'
  BY <1>1, <1>8, OthersKeep DEF IInv, TypeOK
<1> QED
  BY <1>6, <1>7, <1>8 DEF IInv

LEMMA AsksKeeps ==
  ASSUME IInv, NEW g \in Games, NEW token \in 0 .. MaxGames, Phase(g) = "dialing",
         game' = [game EXCEPT ![g].phase = "joining", ![g].tried = token],
         up' = [up EXCEPT ![g] = <<"join">>],
         UNCHANGED <<backend, store, slot, down, faults, stray>>
  PROVE  IInv'
<1>1. game \in [Games -> Records] /\ up \in [Games -> Seq({"join", "leave", "eof"})]
  BY DEF IInv, TypeOK
<1>2. game' \in [Games -> Records] /\ game'[g].phase = "joining"
  BY <1>1, ZenonT(30) DEF Records
<1>3. up' \in [Games -> Seq({"join", "leave", "eof"})]
  BY <1>1
<1>4. TypeOK'
  BY <1>2, <1>3 DEF IInv, TypeOK, DownTypes, FatalCodes, GameOverCodes
<1>5. Sound(g)'
  <2>1. StillThere(g)'
    BY <1>1 DEF StillThere
  <2>2. WillBelieve(g)'
    BY <1>2 DEF IInv, Sound, WillBelieve, Phase
  <2> QED
    BY <1>2, <2>1, <2>2 DEF Sound, Believes, NotBegun, Phase
<1>6. ASSUME NEW h \in Games, h # g  PROVE Sound(h)'
  BY <1>1, <1>6, OthersKeep DEF IInv
<1> QED
  BY <1>4, <1>5, <1>6 DEF IInv

\* Games that end, with or without a leave.
LEMMA EndKeeps ==
  ASSUME IInv, NEW g \in Games, NEW phase \in {"closing", "closed", "failed", "dead"},
         Now(g, phase), NEW last \in Seq({"leave"}),
         HangUp(g, last) \/ UNCHANGED up, Deaf(g) \/ UNCHANGED down,
         store' \in 0 .. MaxGames, faults' \in 0 .. MaxFaults, stray' \subseteq Games,
         UNCHANGED <<backend, slot>>
  PROVE  IInv'
<1>1. /\ game \in [Games -> Records] /\ up \in [Games -> Seq({"join", "leave", "eof"})]
      /\ down \in [Games -> Seq(DownMsgs)]
  BY DEF IInv, TypeOK, DownMsgs
<1>2. game' \in [Games -> Records] /\ game'[g].phase = phase /\ \A h \in Games \ {g} : game'[h] = game[h]
  BY <1>1, ZenonT(30) DEF Now, Records
<1>3. up' \in [Games -> Seq({"join", "leave", "eof"})] /\ \A h \in Games \ {g} : up'[h] = up[h]
  <2>1. up[g] \o last \o <<"eof">> \in Seq({"join", "leave", "eof"})
    BY <1>1
  <2> QED
    BY <1>1, <2>1 DEF HangUp
<1>4. down' \in [Games -> Seq(DownMsgs)] /\ \A h \in Games \ {g} : down'[h] = down[h]
  <2>1. <<>> \in Seq(DownMsgs) /\ (down' = [down EXCEPT ![g] = <<>>] \/ down' = down)
    BY DEF Deaf
  <2> QED
    BY <1>1, <2>1
<1>5. TypeOK'
  BY <1>2, <1>3, <1>4 DEF IInv, TypeOK, DownMsgs
<1>6. Sound(g)'
  BY <1>2, OverKeeps
<1>7. ASSUME NEW h \in Games, h # g  PROVE Sound(h)'
  BY <1>2, <1>3, <1>4, <1>7, OthersKeep DEF IInv
<1> QED
  BY <1>5, <1>6, <1>7 DEF IInv

LEMMA AnswerKeeps ==
  ASSUME IInv, NEW g \in Games, Answer(g)
  PROVE  IInv'
<1>1. /\ game \in [Games -> Records] /\ up \in [Games -> Seq({"join", "leave", "eof"})]
      /\ down \in [Games -> Seq(DownMsgs)] /\ Phase(g) = "joining" /\ down[g] # <<>>
  BY DEF IInv, TypeOK, DownMsgs, Answer
<1>2. PICK m \in DownMsgs : m = Head(down[g]) /\ m = down[g][1]
  BY <1>1
<1>3. CASE m.type = "joined"
  <2>1. /\ game' = [game EXCEPT ![g].phase = "playing", ![g].slot = m.slot]
        /\ store' = g /\ down' = [down EXCEPT ![g] = Tail(@)]
        /\ UNCHANGED <<up, backend, slot, faults>> /\ stray' \subseteq Games
    BY <1>2, <1>3, CloseTypes DEF Answer, IInv
  <2>2. m.slot \in Slots
    BY <1>3 DEF DownMsgs, DownTypes, FatalCodes, GameOverCodes
  <2>3. /\ game' \in [Games -> Records] /\ game'[g].phase = "playing" /\ game'[g].slot = m.slot
        /\ \A h \in Games \ {g} : game'[h] = game[h]
    BY <1>1, <2>1, <2>2, ZenonT(30) DEF Records
  <2>4. down' \in [Games -> Seq(DownMsgs)]
    BY <1>1, <2>1
  <2>5. TypeOK'
    <3>1. store' \in 0 .. MaxGames
      BY <2>1, SessionConstants DEF Games
    <3> QED
      BY <2>1, <2>3, <2>4, <3>1 DEF IInv, TypeOK, DownMsgs
  <2>6. Sound(g)'
    <3>1. Len(down'[g]) = Len(down[g]) - 1 /\ Len(down[g]) \in Nat /\ Len(down[g]) > 0
      BY <1>1, <2>1
    <3>2. Len(down'[g]) > 0 \/ slot[m.slot].holder = g
      <4>1. Len(down[g]) = 1 => slot[m.slot].holder = g
        BY <1>1, <1>2, <1>3 DEF IInv, Sound, WillBelieve
      <4>2. Len(down[g]) # 1 => Len(down'[g]) > 0
        <5>1. ASSUME NEW b \in Nat, b > 0, b # 1  PROVE b - 1 > 0
          BY <5>1
        <5> QED
          BY <3>1, <5>1
      <4> QED
        BY <4>1, <4>2
    <3>3. StillThere(g)
      BY DEF IInv, Sound
    <3> QED
      BY <1>1, <2>1, <2>2, <2>3, <3>2, <3>3
         DEF Sound, Believes, WillBelieve, StillThere, NotBegun, Phase
  <2>7. ASSUME NEW h \in Games, h # g  PROVE Sound(h)'
    BY <1>1, <2>1, <2>3, <2>7, OthersKeep DEF IInv
  <2> QED
    BY <2>5, <2>6, <2>7 DEF IInv
<1>4. CASE m.type # "joined"
  <2>1. Now(g, "failed") /\ HangUp(g, <<>>) /\ Deaf(g) /\ UNCHANGED <<store, backend, slot, faults, stray>>
    BY <1>2, <1>4 DEF Answer
  <2>2. <<>> \in Seq({"leave"}) /\ store \in 0 .. MaxGames /\ faults \in 0 .. MaxFaults /\ stray \subseteq Games
    BY DEF IInv, TypeOK
  <2> QED
    BY <2>1, <2>2, EndKeeps
<1> QED
  BY <1>3, <1>4

LEMMA LossKeeps ==
  ASSUME IInv, NEW g \in Games, Phase(g) = "playing", down[g] # <<>>, Loss(g, Head(down[g]))
  PROVE  IInv'
<1> DEFINE m == Head(down[g])
<1>1. /\ game \in [Games -> Records] /\ down \in [Games -> Seq(DownMsgs)] /\ m \in DownMsgs
      /\ store \in 0 .. MaxGames
  <2>1. down \in [Games -> Seq(DownMsgs)]
    BY DEF IInv, TypeOK, DownMsgs
  <2> QED
    BY <2>1 DEF IInv, TypeOK
<1>2. PICK over \in FatalCodes \cup {"connection-lost"} : game' = [game EXCEPT ![g].over = over]
  <2>1. game[g].over \in FatalCodes \cup {"", "connection-lost"}
    BY <1>1 DEF Records
  <2> QED
    BY <2>1 DEF Loss
<1>3. /\ game' \in [Games -> Records] /\ game'[g].over # "" /\ game'[g].phase = "playing"
      /\ game'[g].slot = game[g].slot /\ \A h \in Games \ {g} : game'[h] = game[h]
  BY <1>1, <1>2 DEF Records, FatalCodes, GameOverCodes, Phase
<1>4. store' \in 0 .. MaxGames /\ UNCHANGED <<backend, slot, up, faults>> /\ stray' \subseteq Games
  <2>1. store' = 0 \/ store' = store
    BY DEF Loss, Clear
  <2>2. UNCHANGED <<backend, slot, up, faults>>
    BY DEF Loss
  <2>3. stray' \subseteq Games
    BY CloseTypes DEF Loss, Clear, IInv, TypeOK
  <2> QED
    BY <1>1, <2>1, <2>2, <2>3, SessionConstants
<1>5. down' \in [Games -> Seq(DownMsgs)] /\ \A h \in Games \ {g} : down'[h] = down[h]
  <2>1. down' = [down EXCEPT ![g] = Tail(@)]
    BY DEF Loss
  <2>2. Tail(down[g]) \in Seq(DownMsgs)
    BY <1>1
  <2> QED
    BY <1>1, <2>1, <2>2
<1>6. TypeOK'
  BY <1>3, <1>4, <1>5 DEF IInv, TypeOK, DownMsgs
<1>7. Sound(g)'
  BY <1>3, <1>4 DEF IInv, Sound, Believes, WillBelieve, StillThere, NotBegun, Phase
<1>8. ASSUME NEW h \in Games, h # g  PROVE Sound(h)'
  BY <1>3, <1>4, <1>5, <1>8, OthersKeep DEF IInv
<1> QED
  BY <1>6, <1>7, <1>8 DEF IInv

LEMMA InitSound == Init => IInv
<1> SUFFICES ASSUME Init  PROVE IInv
  OBVIOUS
<1>1. NewGame \in Records /\ Free \in [token : 0 .. MaxGames, holder : 0 .. MaxGames]
  BY SessionConstants DEF NewGame, Records, Free
<1>2. TypeOK
  BY <1>1, SessionConstants DEF Init, TypeOK
<1>3. ASSUME NEW g \in Games  PROVE Sound(g)
  BY DEF Init, NewGame, Sound, Believes, WillBelieve, StillThere, NotBegun, Phase
<1> QED
  BY <1>2, <1>3 DEF IInv

LEMMA ClientKeeps ==
  ASSUME IInv, NEW g \in Games, ClientStep(g)
  PROVE  IInv'
<1>0. TypeOK /\ store \in 0 .. MaxGames
  BY DEF IInv, TypeOK
<1>1. ASSUME NativeConnect(g)  PROVE IInv'
  BY <1>1, SessionConstants, BeginKeeps DEF NativeConnect
<1>2. ASSUME WasmConnect(g)  PROVE IInv'
  BY <1>0, <1>2, BeginKeeps DEF WasmConnect
<1>3. ASSUME NativeJoin(g)  PROVE IInv'
  <2>1. PICK t \in 0 .. MaxGames : t = IF game[g].claim THEN 0 ELSE store
    BY <1>0, SessionConstants
  <2> QED
    BY <1>3, <2>1, AsksKeeps DEF NativeJoin
<1>4. ASSUME WasmOnOpen(g)  PROVE IInv'
  <2>1. game \in [Games -> Records] /\ game[g].tried \in 0 .. MaxGames
    BY <1>0 DEF TypeOK, Records
  <2>2. game' = [game EXCEPT ![g].phase = "joining", ![g].tried = game[g].tried]
    BY <1>4, <2>1 DEF WasmOnOpen, Now, Records
  <2> QED
    BY <1>4, <2>1, <2>2, AsksKeeps DEF WasmOnOpen
<1>5. ASSUME NativeHandshake(g) \/ WasmHandshake(g)  PROVE IInv'
  BY <1>5, AnswerKeeps DEF NativeHandshake, WasmHandshake
<1>6. ASSUME NativeTimeout(g) \/ WasmTimeout(g)  PROVE IInv'
  <2>1. GivesUp(g)
    BY <1>6 DEF NativeTimeout, WasmTimeout
  <2>2. stray' \subseteq Games
    BY <1>0, <2>1, CloseTypes DEF GivesUp
  <2> QED
    BY <1>0, <2>1, <2>2, CloseTypes, EndKeeps DEF GivesUp
<1>7. ASSUME NativeLoss(g) \/ WasmLoss(g)  PROVE IInv'
  BY <1>7, LossKeeps DEF NativeLoss, WasmLoss
<1>8. ASSUME NativeShutdown(g)  PROVE IInv'
  <2>1. stray' \subseteq Games
    BY <1>0, <1>8, CloseTypes DEF NativeShutdown
  <2> QED
    BY <1>0, <1>8, <2>1, CloseTypes, EndKeeps DEF NativeShutdown
<1>9. ASSUME NativeClear(g)  PROVE IInv'
  <2>1. store' = 0 /\ stray' \subseteq Games
    BY <1>0, <1>9, CloseTypes DEF NativeClear, Clear
  <2> QED
    BY <1>0, <1>9, <2>1, CloseTypes, EndKeeps DEF NativeClear
<1>10. ASSUME WasmShutdown(g)  PROVE IInv'
  <2>1. stray' \subseteq Games
    BY <1>0, <1>10, CloseTypes DEF WasmShutdown
  <2> QED
    BY <1>0, <1>10, <2>1, CloseTypes, EndKeeps DEF WasmShutdown
<1>11. ASSUME Crash(g)  PROVE IInv'
  <2>1. stray' \subseteq Games
    BY <1>0, <1>11, CloseTypes DEF Crash
  <2>2. faults' \in 0 .. MaxFaults
    BY <1>0, <1>11, SessionConstants DEF Crash, TypeOK
  <2> QED
    BY <1>0, <1>11, <2>1, <2>2, CloseTypes, EndKeeps DEF Crash
<1> QED
  BY <1>1, <1>2, <1>3, <1>4, <1>5, <1>6, <1>7, <1>8, <1>9, <1>10, <1>11 DEF ClientStep

LEMMA NextKeeps == IInv /\ [Next]_vars => IInv'
<1> SUFFICES ASSUME IInv, [Next]_vars  PROVE IInv'
  OBVIOUS
<1>1. CASE Expire
  BY <1>1, ExpireKeeps
<1>2. ASSUME NEW s \in Slots, Cut(s)  PROVE IInv'
  BY <1>2, CutKeeps
<1>3. ASSUME NEW g \in Games, ClientStep(g)  PROVE IInv'
  BY <1>3, ClientKeeps
<1>4. ASSUME NEW g \in Games, Serve(g)  PROVE IInv'
  BY <1>4, ServeKeeps
<1>5. CASE UNCHANGED vars
  BY <1>5 DEF vars, IInv, TypeOK, Sound, Believes, WillBelieve, StillThere, NotBegun, Phase
<1> QED
  BY <1>1, <1>2, <1>3, <1>4, <1>5 DEF Next

LEMMA Invariant == Spec => []IInv
BY InitSound, NextKeeps, PTL DEF Spec

\* Every reachable state of the games, their sockets and the slots is well
\* typed, for any number of games and slots.
THEOREM TypeCorrect == Spec => []TypeOK
BY Invariant, PTL DEF IInv

\* A game that has heard all it was sent and believes to be in the room is the
\* one attached to its slot.
THEOREM BelievesTruly == Spec => []BelievesRightly
<1>1. IInv => BelievesRightly
  <2>1. Len(<<>>) = 0 /\ ~(0 > 0)
    BY EmptySeq
  <2> QED
    BY <2>1, Zenon DEF BelievesRightly, IInv, Sound, Believes
<1> QED
  BY <1>1, Invariant, PTL

----------------------------------------------------------------------------
(* One seat *)

\* Token g keeps no slot.
Untaken(g) == \A s \in Slots : slot[s].token # g

Asks(g) == up[g] = <<"join">> /\ down[g] = <<>> /\ Untaken(g)

Answered(g) ==
  up[g] = <<>> /\ down[g] # <<>> /\ (Untaken(g) \/ down[g][1].type = "joined")

\* What a game has sent and has still to hear.  The join of a game that has ended
\* may still be on its way: the seat it will get is written off.
Courteous(g) ==
  /\ Phase(g) \in {"none", "dialing"} => up[g] = <<>> /\ down[g] = <<>> /\ Untaken(g)
  /\ Phase(g) \in {"dialing", "joining"} => game[g].over = ""
  /\ Phase(g) = "joining" => Asks(g) \/ Answered(g)
  /\ Phase(g) = "playing" => up[g] = <<>>
  /\ Phase(g) \in {"closing", "closed", "failed", "dead"} =>
       \A i \in DOMAIN up[g] : /\ up[g][i] # "eof" => i = 1
                               /\ up[g][i] = "join" => ~Alive(g) /\ g \in stray /\ Untaken(g)

\* A game that is attached has heard nothing but that it is; one that is to hear
\* that its token is worthless keeps no slot.
Attached(g) ==
  \A s \in Slots : slot[s].holder = g =>
    /\ Phase(g) = "joining" => Len(down[g]) = 1
    /\ Phase(g) = "playing" => down[g] = <<>> /\ game[g].over = ""

Worthless(g) ==
  Alive(g) /\ (\E i \in DOMAIN down[g] : down[g][i].type \in GameOverCodes) => Untaken(g)

\* The join of game t was served, or is never sent: its token keeps no new slot.
Past(t) == Phase(t) \notin {"none", "dialing"} /\ \A i \in DOMAIN up[t] : up[t][i] # "join"

\* The news of a seat is on the way to game g.
SeatNews(g) == down[g] # <<>> /\ down[g][1].type = "joined"

\* A token that a game resumes with is of another game, and once the game is
\* seated it keeps no slot any more.
Resumes(g) ==
  Phase(g) \in {"dialing", "joining"} /\ game[g].tried # 0 =>
    /\ ~game[g].claim /\ game[g].tried # g /\ Past(game[g].tried)
    /\ Phase(g) = "joining" /\ SeatNews(g) => Untaken(game[g].tried)

OneEach ==
  /\ \A s \in Slots : slot[s].holder \in {0, slot[s].token}
  /\ \A s, t \in Slots : slot[s].token = slot[t].token /\ slot[s].token # 0 => s = t

SeatKept(t) == \E s \in Slots : slot[s].token = t /\ ~Vacated(s)

\* The seat that token t keeps is written off, about to be stored, or stored.
Accounted(t) ==
  t \in stray \/ Phase(t) = "joining" \/ (t = store /\ Phase(t) # "closing")

Accounts ==
  /\ OneEach
  /\ store # 0 => Past(store)
  /\ \A g \in Games : Courteous(g) /\ Attached(g) /\ Worthless(g) /\ Resumes(g)
  /\ \A t \in Games : SeatKept(t) => Accounted(t)

----------------------------------------------------------------------------
(* What a game does leaves every seat accounted for *)

\* The types of what a step reads.
LEMMA Parts ==
  ASSUME TypeOK
  PROVE  /\ game \in [Games -> Records] /\ up \in [Games -> Seq({"join", "leave", "eof"})]
         /\ down \in [Games -> Seq(DownMsgs)]
         /\ slot \in [Slots -> [token : 0 .. MaxGames, holder : 0 .. MaxGames]]
         /\ store \in Games \cup {0} /\ \A g \in Games : g # 0
         /\ \A g \in Games : game[g].tried \in Games \cup {0}
<1>1. game \in [Games -> Records] /\ \A g \in Games : game[g].tried \in 0 .. MaxGames
  BY DEF TypeOK, Records
<1>2. 0 .. MaxGames = Games \cup {0} /\ \A g \in Games : g # 0
  BY SessionConstants DEF Games
<1> QED
  BY <1>1, <1>2 DEF TypeOK, DownMsgs

\* A game whose token keeps no slot is attached to none.
LEMMA UntakenFree ==
  ASSUME TypeOK, OneEach, NEW g \in Games, Untaken(g)
  PROVE  \A s \in Slots : slot[s].holder # g
BY Parts DEF OneEach, Untaken

\* A game that has sent nothing has not left, and asks for nothing.
LEMMA NothingSent ==
  ASSUME TypeOK, NEW g \in Games, up[g] = <<>>
  PROVE  ~LeaveUnderway(g) /\ \A i \in DOMAIN up[g] : FALSE
<1>1. up[g] \in Seq({"join", "leave", "eof"}) /\ Len(up[g]) = 0
  BY Parts
<1>2. \A i \in DOMAIN up[g] : FALSE
  BY <1>1
<1> QED
  BY <1>2 DEF LeaveUnderway

\* What a step of g alone has to show.
LEMMA GameStep ==
  ASSUME TypeOK, Accounts, NEW g \in Games, UNCHANGED <<backend, slot>>, stray \subseteq stray',
         \A h \in Games \ {g} : game'[h] = game[h] /\ up'[h] = up[h] /\ down'[h] = down[h],
         Courteous(g)', Attached(g)', Worthless(g)', Resumes(g)',
         store' \in {0, store} \/ (store' = g /\ Past(g)'), Past(g) => Past(g)',
         LeaveUnderway(g) => LeaveUnderway(g)',
         \A t \in Games : SeatKept(t)' /\ SeatKept(t) /\ Accounted(t) => Accounted(t)'
  PROVE  Accounts'
<1>1. ASSUME NEW h \in Games
      PROVE  /\ Courteous(h)' /\ Attached(h)' /\ Worthless(h)'
             /\ (LeaveUnderway(h) => LeaveUnderway(h)') /\ (Past(h) => Past(h)')
  <2>1. CASE h = g
    BY <2>1
  <2>2. CASE h # g
    <3>1. Courteous(h) /\ Attached(h) /\ Worthless(h)
      BY DEF Accounts
    <3>2. game'[h] = game[h] /\ up'[h] = up[h] /\ down'[h] = down[h]
      BY <2>2
    <3>3. Attached(h)' /\ Worthless(h)' /\ (LeaveUnderway(h) => LeaveUnderway(h)') /\ (Past(h) => Past(h)')
      BY <3>1, <3>2 DEF Untaken, Attached, Worthless, Alive, Phase, LeaveUnderway, Past
    <3>4. Courteous(h)'
      BY <3>1, <3>2 DEF Courteous, Asks, Answered, Untaken, Alive, Phase
    <3> QED
      BY <3>3, <3>4
  <2> QED
    BY <2>1, <2>2
<1>2. OneEach'
  BY DEF Accounts, OneEach
<1>3. ASSUME NEW t \in Games, SeatKept(t)'
      PROVE  Accounted(t)'
  <2>1. PICK s \in Slots : slot[s].token = t /\ ~Vacated(s)'
    BY <1>3 DEF SeatKept
  <2>2. slot[s].holder = 0 \/ slot[s].holder \in Games
    BY HolderType
  <2>3. ~Vacated(s)
    BY <1>1, <2>1, <2>2 DEF Vacated
  <2>4. SeatKept(t)
    BY <2>1, <2>3 DEF SeatKept
  <2>5. Accounted(t)
    BY <2>4 DEF Accounts
  <2> QED
    BY <1>3, <2>4, <2>5
<1>4. \A h \in Games : Courteous(h)' /\ Attached(h)' /\ Worthless(h)'
  BY <1>1
<1>5. ASSUME NEW h \in Games
      PROVE  Resumes(h)'
  <2>1. CASE h = g
    BY <2>1
  <2>2. CASE h # g
    <3>1. game'[h] = game[h] /\ down'[h] = down[h] /\ Resumes(h)
      BY <2>2 DEF Accounts
    <3>2. PICK t \in Games \cup {0} : t = game[h].tried
      BY Parts
    <3>3. t # 0 => (Past(t) => Past(t)') /\ (Untaken(t) => Untaken(t)')
      BY <1>1 DEF Untaken
    <3> QED
      BY <3>1, <3>2, <3>3 DEF Resumes, Phase, SeatNews
  <2> QED
    BY <2>1, <2>2
<1>6. store' # 0 => Past(store)'
  <2>1. CASE store' = store /\ store # 0
    <3>1. PICK t \in Games : t = store
      BY <2>1, Parts
    <3>2. Past(t)'
      BY <1>1, <2>1, <3>1 DEF Accounts
    <3> QED
      BY <2>1, <3>1, <3>2 DEF Past, Phase
  <2>2. CASE store' = g /\ Past(g)'
    BY <2>2 DEF Past, Phase
  <2> QED
    BY <2>1, <2>2
<1> QED
  BY <1>2, <1>3, <1>4, <1>5, <1>6 DEF Accounts

\* A game that begins may resume with the stored token.
LEMMA BeginAccounted ==
  ASSUME TypeOK, Accounts, NEW g \in Games, NEW token \in {0, store}, Begin(g, token),
         UNCHANGED <<backend, store, slot, up, down, stray>>
  PROVE  Accounts'
<1>1. game \in [Games -> Records] /\ Courteous(g) /\ Phase(g) = "none" /\ NewGame.over = ""
  BY Parts DEF Accounts, Begin, NewGame
<1>2. PICK claim \in BOOLEAN :
         game' = [game EXCEPT ![g] = [NewGame EXCEPT !.phase = "dialing",
                       !.claim = claim, !.tried = IF claim THEN 0 ELSE token]]
  BY DEF Begin
<1>3. PICK t0 : t0 = IF claim THEN 0 ELSE token
  OBVIOUS
<1>4. /\ game'[g].phase = "dialing" /\ game'[g].over = ""
      /\ game'[g].claim = claim /\ game'[g].tried = t0
      /\ \A h \in Games \ {g} : game'[h] = game[h]
  BY <1>1, <1>2, <1>3 DEF NewGame
<1>5. Courteous(g)' /\ Attached(g)' /\ Worthless(g)'
  <2>1. up[g] = <<>> /\ down[g] = <<>> /\ Untaken(g)
    BY <1>1 DEF Courteous
  <2>2. Courteous(g)' /\ Attached(g)'
    BY <1>4, <2>1 DEF Courteous, Attached, Untaken, Phase
  <2>3. Worthless(g)'
    BY <2>1 DEF Worthless, Untaken
  <2> QED
    BY <2>2, <2>3
<1>6. Resumes(g)'
  <2>1. ASSUME t0 # 0
        PROVE  ~claim /\ t0 # g /\ Past(t0)'
    <3>1. ~claim /\ t0 = store /\ Past(t0) /\ t0 \in Games
      BY <1>3, <2>1, Parts DEF Accounts
    <3>2. t0 # g
      BY <1>1, <3>1 DEF Past
    <3>3. game'[t0] = game[t0]
      BY <1>4, <3>1, <3>2
    <3> QED
      BY <3>1, <3>2, <3>3 DEF Past, Phase
  <2> QED
    BY <1>4, <2>1 DEF Resumes, Phase
<1>7. ASSUME NEW t \in Games, SeatKept(t), Accounted(t)
      PROVE  Accounted(t)'
  <2>1. t # g
    BY <1>1, <1>7 DEF Courteous, Untaken, SeatKept
  <2> QED
    BY <1>4, <1>7, <2>1 DEF Accounted, Phase
<1>8. ~Past(g)
  BY <1>1 DEF Past
<1> QED
  BY <1>4, <1>5, <1>6, <1>7, <1>8, GameStep DEF LeaveUnderway

\* It asks for the seat with the stored token.
LEMMA AskAccounted ==
  ASSUME TypeOK, Accounts, NEW g \in Games, NEW t0 \in Games \cup {0}, Phase(g) = "dialing",
         game' = [game EXCEPT ![g].phase = "joining", ![g].tried = t0],
         t0 # 0 => ~game[g].claim /\ Past(t0),
         up' = [up EXCEPT ![g] = <<"join">>],
         UNCHANGED <<backend, store, slot, down, stray>>
  PROVE  Accounts'
<1>1. game \in [Games -> Records] /\ up \in [Games -> Seq({"join", "leave", "eof"})] /\ Courteous(g)
  BY Parts DEF Accounts
<1>2. /\ game'[g].phase = "joining" /\ game'[g].over = game[g].over /\ game'[g].claim = game[g].claim
      /\ game'[g].tried = t0 /\ up'[g] = <<"join">>
      /\ \A h \in Games \ {g} : game'[h] = game[h] /\ up'[h] = up[h]
  BY <1>1 DEF Records
<1>3. up[g] = <<>> /\ down[g] = <<>> /\ Untaken(g) /\ game[g].over = ""
  BY <1>1 DEF Courteous
<1>4. Untaken(g)' /\ Asks(g)'
  BY <1>2, <1>3 DEF Untaken, Asks
<1>5. Courteous(g)'
  BY <1>2, <1>3, <1>4 DEF Courteous, Phase
<1>6. Attached(g)'
  <2>1. \A s \in Slots : slot[s].holder # g
    BY <1>3, UntakenFree DEF Accounts
  <2> QED
    BY <2>1 DEF Attached
<1>7. Worthless(g)'
  BY <1>4 DEF Worthless
<1>8. ~Past(g)
  BY DEF Past
<1>9. Resumes(g)'
  <2>1. ASSUME t0 # 0
        PROVE  t0 # g /\ Past(t0)'
    <3>1. t0 # g /\ t0 \in Games
      BY <1>8, <2>1
    <3>2. game'[t0] = game[t0] /\ up'[t0] = up[t0]
      BY <1>2, <3>1
    <3> QED
      BY <2>1, <3>1, <3>2 DEF Past, Phase
  <2> QED
    BY <1>2, <1>3, <2>1 DEF Resumes, Phase, SeatNews
<1>10. ASSUME NEW t \in Games, SeatKept(t), Accounted(t)
       PROVE  Accounted(t)'
  <2>1. t # g
    BY <1>3, <1>10 DEF Untaken, SeatKept
  <2> QED
    BY <1>2, <1>10, <2>1 DEF Accounted, Phase
<1>11. ~LeaveUnderway(g)
  BY <1>3, NothingSent
<1> QED
  BY <1>2, <1>5, <1>6, <1>7, <1>8, <1>9, <1>10, <1>11, GameStep

\* What the socket of a game still carries once it has hung up.
LEMMA Gone ==
  ASSUME NEW s \in Seq({"join", "leave", "eof"})
  PROVE  LET u == s \o <<>> \o <<"eof">> IN
         DOMAIN u = 1 .. Len(s) + 1 /\ u[Len(s) + 1] = "eof" /\ \A i \in 1 .. Len(s) : u[i] = s[i]
<1>1. s \o <<>> = s
  BY ConcatEmptySeq
<1>2. PICK u : u = s \o <<"eof">>
  OBVIOUS
<1>3. <<"eof">> \in Seq({"join", "leave", "eof"}) /\ Len(<<"eof">>) = 1 /\ <<"eof">>[1] = "eof"
  OBVIOUS
<1>4. PICK n \in Nat : n = Len(s)
  BY LenProperties
<1>5. /\ u \in Seq({"join", "leave", "eof"}) /\ Len(u) = n + 1
      /\ \A i \in 1 .. n + 1 : u[i] = IF i <= n THEN s[i] ELSE <<"eof">>[i - n]
  BY <1>2, <1>3, <1>4, ConcatProperties
<1>6. DOMAIN u = 1 .. n + 1 /\ u[n + 1] = "eof" /\ \A i \in 1 .. n : u[i] = s[i]
  <2>1. n + 1 \in 1 .. n + 1 /\ ~(n + 1 <= n) /\ n + 1 - n = 1
    BY <1>4
  <2> QED
    BY <1>3, <1>5, <2>1
<1> QED
  BY <1>1, <1>2, <1>4, <1>6

\* The same of a game that leaves.
LEMMA GoneByLeave ==
  LET u == <<>> \o <<"leave">> \o <<"eof">> IN
  DOMAIN u = 1 .. 2 /\ u[1] = "leave" /\ u[2] = "eof"
<1>1. PICK s \in Seq({"join", "leave", "eof"}) : s = <<"leave">> /\ Len(s) = 1 /\ s[1] = "leave"
  <2>1. <<"leave">> \in Seq({"join", "leave", "eof"})
    OBVIOUS
  <2> QED
    BY <2>1
<1>2. <<>> \o <<"leave">> = s /\ s \o <<>> = s
  BY <1>1, ConcatEmptySeq
<1>3. PICK u : u = s \o <<"eof">>
  OBVIOUS
<1>4. DOMAIN u = 1 .. 2 /\ u[1] = "leave" /\ u[2] = "eof"
  <2>1. DOMAIN u = 1 .. Len(s) + 1 /\ u[Len(s) + 1] = "eof" /\ \A i \in 1 .. Len(s) : u[i] = s[i]
    BY <1>2, <1>3, Gone
  <2> QED
    BY <1>1, <2>1
<1> QED
  BY <1>2, <1>3, <1>4

\* A game that sends its last and hears no more, in the order of its socket.
LEMMA LastWords ==
  ASSUME TypeOK, Accounts, NEW g \in Games, Alive(g), UNCHANGED slot, stray \subseteq stray',
         Phase(g) = "joining" => ~Asks(g) \/ g \in stray', NEW last \in {<<>>, <<"leave">>},
         last # <<>> => Phase(g) = "playing",
         NEW phase \in {"closing", "closed", "failed", "dead"}, phase = "closing" => Phase(g) = "playing",
         Now(g, phase), HangUp(g, last), Deaf(g)
  PROVE  /\ game'[g].phase = phase
         /\ \A h \in Games \ {g} : game'[h] = game[h] /\ up'[h] = up[h] /\ down'[h] = down[h]
         /\ Courteous(g)' /\ Attached(g)' /\ Worthless(g)' /\ Resumes(g)'
         /\ Past(g) => Past(g)'
         /\ LeaveUnderway(g) => LeaveUnderway(g)'
         /\ last # <<>> => LeaveUnderway(g)'
<1>1. /\ game \in [Games -> Records] /\ up \in [Games -> Seq({"join", "leave", "eof"})]
      /\ down \in [Games -> Seq(DownMsgs)] /\ up[g] \in Seq({"join", "leave", "eof"}) /\ Courteous(g)
  BY Parts DEF Accounts
<1>2. /\ game'[g].phase = phase /\ down'[g] = <<>> /\ up'[g] = up[g] \o last \o <<"eof">>
      /\ \A h \in Games \ {g} : game'[h] = game[h] /\ up'[h] = up[h] /\ down'[h] = down[h]
  BY <1>1 DEF Now, HangUp, Deaf, Records
<1>3. \A i \in DOMAIN up[g] :
        /\ up[g][i] # "eof" => i = 1
        /\ up[g][i] = "join" => g \in stray' /\ Untaken(g) /\ Phase(g) = "joining"
  <2>1. CASE Phase(g) = "closing"
    BY <1>1, <2>1 DEF Courteous
  <2>2. CASE up[g] = <<>>
    BY <2>2, NothingSent
  <2>3. CASE Phase(g) = "joining" /\ Asks(g)
    <3>1. up[g] = <<"join">> /\ Untaken(g) /\ g \in stray'
      BY <2>3 DEF Asks
    <3> QED
      BY <2>3, <3>1
  <2>4. Phase(g) = "closing" \/ up[g] = <<>> \/ (Phase(g) = "joining" /\ Asks(g))
    BY <1>1 DEF Courteous, Alive, Answered
  <2> QED
    BY <2>1, <2>2, <2>3, <2>4
<1>4. last # <<>> => up[g] = <<>>
  BY <1>1 DEF Courteous
<1>5. PICK u : u = up'[g]
  OBVIOUS
<1>6. \A i \in DOMAIN down'[g] : FALSE
  BY <1>2
<1>7. PICK n \in Nat : n = Len(up[g]) /\ DOMAIN up[g] = 1 .. n
  BY <1>1
<1>8. Untaken(g) => Untaken(g)'
  BY DEF Untaken
<1>9. ASSUME \A i \in DOMAIN u :
               /\ u[i] # "eof" => i = 1
               /\ u[i] = "join" => g \in stray' /\ Untaken(g) /\ Phase(g) = "joining"
      PROVE  Courteous(g)' /\ Attached(g)' /\ Worthless(g)' /\ Resumes(g)'
  <2>1. Courteous(g)'
    BY <1>2, <1>5, <1>8, <1>9 DEF Courteous, Alive, Phase
  <2> QED
    BY <1>2, <1>6, <2>1 DEF Attached, Worthless, Resumes, Alive, Phase
<1>10. CASE last = <<>>
  <2>1. DOMAIN u = 1 .. n + 1 /\ u[n + 1] = "eof" /\ \A i \in 1 .. n : u[i] = up[g][i]
    BY <1>1, <1>2, <1>5, <1>7, <1>10, Gone
  <2>2. \A i \in DOMAIN u : (i \in DOMAIN up[g] /\ u[i] = up[g][i]) \/ u[i] = "eof"
    BY <1>7, <2>1
  <2>3. \A i \in DOMAIN u :
          /\ u[i] # "eof" => i = 1
          /\ u[i] = "join" => g \in stray' /\ Untaken(g) /\ Phase(g) = "joining"
    BY <1>3, <2>2
  <2>4. LeaveUnderway(g) => LeaveUnderway(g)'
    BY <1>5, <1>7, <2>1 DEF LeaveUnderway
  <2>5. Past(g) => Past(g)'
    BY <1>2, <1>5, <2>2 DEF Past, Phase
  <2> QED
    BY <1>2, <1>9, <1>10, <2>3, <2>4, <2>5
<1>11. CASE last = <<"leave">>
  <2>1. DOMAIN u = 1 .. 2 /\ u[1] = "leave" /\ u[2] = "eof"
    <3>1. up[g] = <<>>
      BY <1>4, <1>11
    <3> QED
      BY <1>1, <1>2, <1>5, <1>11, <3>1, GoneByLeave
  <2>2. LeaveUnderway(g)'
    BY <1>5, <2>1 DEF LeaveUnderway
  <2>3. \A i \in DOMAIN u : (u[i] # "eof" => i = 1) /\ u[i] # "join"
    BY <2>1
  <2>4. Past(g)'
    BY <1>2, <1>5, <2>3 DEF Past, Phase
  <2> QED
    BY <1>2, <1>9, <2>2, <2>3, <2>4
<1> QED
  BY <1>10, <1>11

\* A game that is answered stores the token of its seat, or has no seat.
LEMMA AnswerAccounted ==
  ASSUME TypeOK, Accounts, NEW g \in Games, Answer(g)
  PROVE  Accounts'
<1>1. /\ game \in [Games -> Records] /\ up \in [Games -> Seq({"join", "leave", "eof"})]
      /\ down \in [Games -> Seq(DownMsgs)] /\ down[g] \in Seq(DownMsgs)
      /\ Courteous(g) /\ Attached(g) /\ Worthless(g) /\ Resumes(g)
  BY Parts DEF Accounts
<1>2. Phase(g) = "joining" /\ down[g] # <<>> /\ UNCHANGED <<backend, slot>>
  BY DEF Answer
<1>3. ~Asks(g) /\ Answered(g) /\ up[g] = <<>> /\ Alive(g)
  BY <1>1, <1>2 DEF Courteous, Asks, Answered, Alive
<1>4. ~LeaveUnderway(g) /\ \A i \in DOMAIN up[g] : FALSE
  BY <1>3, NothingSent
<1>5. PICK m \in DownMsgs : m = down[g][1] /\ m = Head(down[g])
  BY <1>1, <1>2
<1>6. CASE m.type = "joined"
  <2>1. /\ game' = [game EXCEPT ![g].phase = "playing", ![g].slot = m.slot]
        /\ store' = g /\ down' = [down EXCEPT ![g] = Tail(down[g])] /\ up' = up
        /\ stray' = stray \cup ({store} \ {0, game[g].tried})
    BY <1>5, <1>6 DEF Answer, Forget
  <2>2. /\ game'[g].phase = "playing" /\ game'[g].over = game[g].over
        /\ down'[g] = Tail(down[g])
        /\ \A h \in Games \ {g} : game'[h] = game[h] /\ up'[h] = up[h] /\ down'[h] = down[h]
    BY <1>1, <2>1 DEF Records
  <2>3. Courteous(g)'
    BY <1>3, <2>1, <2>2 DEF Courteous, Phase
  <2>4. Attached(g)'
    <3>1. Len(down[g]) = 1 => Tail(down[g]) = <<>>
      <4>1. Tail(down[g]) \in Seq(DownMsgs) /\ Len(Tail(down[g])) = Len(down[g]) - 1
        BY <1>1, <1>2, HeadTailProperties
      <4>2. ASSUME NEW r \in Seq(DownMsgs), Len(r) = 0  PROVE r = <<>>
        BY <4>2, EmptySeq
      <4>3. ASSUME Len(down[g]) = 1  PROVE Len(Tail(down[g])) = 0
        BY <4>1, <4>3
      <4> QED
        BY <4>1, <4>2, <4>3
    <3>2. game[g].over = ""
      BY <1>1, <1>2 DEF Courteous
    <3> QED
      BY <1>1, <1>2, <2>2, <3>1, <3>2 DEF Attached, Phase
  <2>5. Worthless(g)'
    <3>1. ASSUME NEW i \in DOMAIN Tail(down[g])
          PROVE  i + 1 \in DOMAIN down[g] /\ Tail(down[g])[i] = down[g][i + 1]
      BY <1>1, <1>2
    <3>2. (\E i \in DOMAIN Tail(down[g]) : Tail(down[g])[i].type \in GameOverCodes) => Untaken(g)
      BY <1>1, <1>3, <3>1 DEF Worthless
    <3> QED
      BY <1>2, <2>2, <3>2 DEF Worthless, Untaken
  <2>6. Resumes(g)' /\ Past(g)'
    BY <1>4, <2>1, <2>2 DEF Resumes, Past, Phase
  <2>7. ASSUME NEW t \in Games, SeatKept(t), Accounted(t)
        PROVE  Accounted(t)'
    <3>1. CASE t = g
      BY <2>1, <2>2, <3>1 DEF Accounted, Phase
    <3>2. CASE t # g /\ t = store
      <4>1. t # game[g].tried
        <5>1. SeatNews(g) /\ ~Untaken(t) /\ t # 0
          BY <1>2, <1>5, <1>6, <2>7, Parts DEF SeatNews, SeatKept, Untaken
        <5> QED
          BY <1>1, <1>2, <5>1 DEF Resumes
      <4>2. t \in stray'
        BY <2>1, <3>2, <4>1, Parts
      <4> QED
        BY <4>2 DEF Accounted
    <3>3. CASE t # g /\ t # store
      BY <2>1, <2>2, <2>7, <3>3 DEF Accounted, Phase
    <3> QED
      BY <3>1, <3>2, <3>3
  <2> QED
    BY <1>2, <1>4, <2>1, <2>2, <2>3, <2>4, <2>5, <2>6, <2>7, GameStep
<1>7. CASE m.type # "joined"
  <2>1. Now(g, "failed") /\ HangUp(g, <<>>) /\ Deaf(g) /\ UNCHANGED <<store, stray>>
    BY <1>5, <1>7 DEF Answer
  <2>2. /\ \A h \in Games \ {g} : game'[h] = game[h] /\ up'[h] = up[h] /\ down'[h] = down[h]
        /\ Courteous(g)' /\ Attached(g)' /\ Worthless(g)' /\ Resumes(g)' /\ (Past(g) => Past(g)')
    BY <1>2, <1>3, <2>1, LastWords
  <2>3. Untaken(g)
    BY <1>3, <1>5, <1>7 DEF Answered
  <2>4. ASSUME NEW t \in Games, SeatKept(t), Accounted(t)
        PROVE  Accounted(t)'
    <3>1. t # g
      BY <2>3, <2>4 DEF SeatKept, Untaken
    <3> QED
      BY <2>1, <2>2, <2>4, <3>1 DEF Accounted, Phase
  <2> QED
    BY <1>2, <1>4, <2>1, <2>2, <2>4, GameStep
<1> QED
  BY <1>6, <1>7

\* A game that ends while it connects has asked for no seat, or writes it off.
LEMMA AbandonAccounted ==
  ASSUME TypeOK, Accounts, NEW g \in Games, Alive(g), NEW phase \in {"failed", "dead"},
         Now(g, phase), HangUp(g, <<>>), Deaf(g), Abandon(g), UNCHANGED <<backend, store, slot>>
  PROVE  Accounts'
<1>1. stray \subseteq stray' /\ (Phase(g) = "joining" => g \in stray')
  BY DEF Abandon
<1>2. /\ game'[g].phase = phase
      /\ \A h \in Games \ {g} : game'[h] = game[h] /\ up'[h] = up[h] /\ down'[h] = down[h]
      /\ Courteous(g)' /\ Attached(g)' /\ Worthless(g)' /\ Resumes(g)'
      /\ Past(g) => Past(g)'
      /\ LeaveUnderway(g) => LeaveUnderway(g)'
  BY <1>1, LastWords
<1>3. ASSUME NEW t \in Games, SeatKept(t), Accounted(t)
      PROVE  Accounted(t)'
  <2>1. CASE t = g
    BY <1>1, <1>2, <1>3, <2>1 DEF Accounted, Phase
  <2>2. CASE t # g
    BY <1>1, <1>2, <1>3, <2>2 DEF Accounted, Phase
  <2> QED
    BY <2>1, <2>2
<1> QED
  BY <1>1, <1>2, <1>3, GameStep

\* A game that was detached keeps its token, unless it is worthless.
LEMMA LossAccounted ==
  ASSUME TypeOK, Accounts, NEW g \in Games, Phase(g) = "playing", down[g] # <<>>, Loss(g, Head(down[g]))
  PROVE  Accounts'
<1>1. /\ game \in [Games -> Records] /\ down \in [Games -> Seq(DownMsgs)] /\ down[g] \in Seq(DownMsgs)
      /\ Courteous(g) /\ Attached(g) /\ Worthless(g) /\ UNCHANGED <<backend, slot, up>>
  BY Parts DEF Accounts, Loss
<1>2. Alive(g) /\ up[g] = <<>>
  BY <1>1 DEF Alive, Courteous
<1>3. PICK m \in DownMsgs : m = down[g][1] /\ m = Head(down[g])
  BY <1>1
<1>4. /\ down'[g] = Tail(down[g]) /\ game'[g].phase = "playing"
      /\ \A h \in Games \ {g} : game'[h] = game[h] /\ down'[h] = down[h]
  BY <1>1, <1>3 DEF Loss, Records, Phase
<1>5. /\ stray \subseteq stray' /\ store' \in {0, store}
      /\ store' # store => m.type \in GameOverCodes /\ (store \in stray' \/ store = g)
  <2>1. IF m.type \in ClearingCodes THEN Clear(g) ELSE UNCHANGED <<store, stray>>
    BY <1>3 DEF Loss
  <2> QED
    BY <2>1 DEF Clear, Forget, ClearingCodes
<1>6. \A s \in Slots : slot[s].holder # g
  BY <1>1 DEF Attached
<1>7. Courteous(g)' /\ Attached(g)'
  BY <1>1, <1>2, <1>4, <1>6 DEF Courteous, Attached, Phase
<1>8. Worthless(g)'
  <2>1. ASSUME NEW i \in DOMAIN Tail(down[g])
        PROVE  i + 1 \in DOMAIN down[g] /\ Tail(down[g])[i] = down[g][i + 1]
    BY <1>1
  <2>2. (\E i \in DOMAIN Tail(down[g]) : Tail(down[g])[i].type \in GameOverCodes) => Untaken(g)
    BY <1>1, <1>2, <2>1 DEF Worthless
  <2> QED
    BY <1>1, <1>4, <2>2 DEF Worthless, Untaken
<1>9. Resumes(g)' /\ (Past(g) => Past(g)')
  BY <1>1, <1>4 DEF Resumes, Past, Phase
<1>10. ASSUME NEW t \in Games, SeatKept(t), Accounted(t)
      PROVE  Accounted(t)'
  <2>1. ASSUME t = g  PROVE store' = store
    <3>1. ~Untaken(g)
      BY <1>10, <2>1 DEF SeatKept, Untaken
    <3>2. 1 \in DOMAIN down[g]
      BY <1>1
    <3>3. m.type \notin GameOverCodes
      BY <1>1, <1>2, <1>3, <3>1, <3>2 DEF Worthless
    <3> QED
      BY <1>5, <3>3
  <2>2. CASE t = g
    BY <1>4, <1>5, <1>10, <2>1, <2>2 DEF Accounted, Phase
  <2>3. CASE t # g
    BY <1>4, <1>5, <1>10, <2>3 DEF Accounted, Phase
  <2> QED
    BY <2>2, <2>3
<1> QED
  BY <1>1, <1>4, <1>5, <1>7, <1>8, <1>9, <1>10, GameStep DEF LeaveUnderway

\* A game that is closed leaves its seat if it is attached, and else writes it off.
LEMMA ShutdownAccounted ==
  ASSUME TypeOK, Accounts, NEW g \in Games, Phase(g) = "playing", NEW phase \in {"closing", "closed"},
         Now(g, phase), HangUp(g, Leaving(g)), Deaf(g), stray \cup Desert(g) \subseteq stray',
         store' \in {0, store}, store' # store => store \in stray' \cup {g},
         UNCHANGED <<backend, slot>>
  PROVE  Accounts'
<1>1. Alive(g) /\ stray \subseteq stray'
  BY DEF Alive
<1>2. PICK last \in {<<>>, <<"leave">>} : last = Leaving(g)
  BY DEF Leaving
<1>3. /\ \A h \in Games \ {g} : game'[h] = game[h] /\ up'[h] = up[h] /\ down'[h] = down[h]
      /\ Courteous(g)' /\ Attached(g)' /\ Worthless(g)' /\ Resumes(g)'
      /\ Past(g) => Past(g)'
      /\ LeaveUnderway(g) => LeaveUnderway(g)'
      /\ last # <<>> => LeaveUnderway(g)'
  BY <1>1, <1>2, LastWords
<1>4. ASSUME NEW t \in Games, SeatKept(t)', Accounted(t)
      PROVE  Accounted(t)'
  <2>1. CASE t = g
    <3>1. PICK s \in Slots : slot[s].token = g /\ ~Vacated(s)'
      BY <1>4, <2>1 DEF SeatKept
    <3>2. slot[s].holder # g
      <4>1. ASSUME slot[s].holder = g  PROVE FALSE
        <5>1. last = <<"leave">>
          BY <1>2, <4>1 DEF Leaving, Accounts, Attached
        <5>2. LeaveUnderway(g)' /\ g # 0
          BY <1>3, <5>1, Parts
        <5> QED
          BY <3>1, <4>1, <5>2 DEF Vacated
      <4> QED
        BY <4>1
    <3>3. g \in stray'
      BY <3>1, <3>2 DEF Desert
    <3> QED
      BY <2>1, <3>3 DEF Accounted
  <2>2. CASE t # g
    BY <1>1, <1>3, <1>4, <2>2 DEF Accounted, Phase
  <2> QED
    BY <2>1, <2>2
<1> QED
  BY <1>1, <1>3, <1>4, GameStep

\* The store is cleared once the game has left: its seat is written off, or gone.
LEMMA ClearAccounted ==
  ASSUME TypeOK, Accounts, NEW g \in Games, NativeClear(g)
  PROVE  Accounts'
<1>1. /\ game \in [Games -> Records] /\ Phase(g) = "closing" /\ Courteous(g)
      /\ UNCHANGED <<backend, slot, up, down>>
      /\ store' = 0 /\ stray' = stray \cup ({store} \ {0, g})
  BY Parts DEF NativeClear, Accounts, Clear, Forget
<1>2. game'[g].phase = "closed" /\ \A h \in Games \ {g} : game'[h] = game[h]
  BY <1>1 DEF NativeClear, Now, Records
<1>3. Attached(g)' /\ Worthless(g)' /\ Resumes(g)' /\ (Past(g) => Past(g)')
  BY <1>1, <1>2 DEF Attached, Worthless, Resumes, Past, Alive, Phase
<1>4. Courteous(g)'
  BY <1>1, <1>2 DEF Courteous, Untaken, Alive, Phase
<1>5. ASSUME NEW t \in Games, Accounted(t)
      PROVE  Accounted(t)'
  <2>1. CASE t = g
    BY <1>1, <1>5, <2>1 DEF Accounted
  <2>2. CASE t # g
    BY <1>1, <1>2, <1>5, <2>2, Parts DEF Accounted, Phase
  <2> QED
    BY <2>1, <2>2
<1> QED
  BY <1>1, <1>2, <1>3, <1>4, <1>5, GameStep DEF LeaveUnderway

----------------------------------------------------------------------------
(* What the server does leaves every seat accounted for *)

\* The joins of games that have a past were served, whatever the server reads.
LEMMA PastStays ==
  ASSUME TypeOK, UNCHANGED game, NEW g \in Games,
         up'[g] \in {up[g], <<>>} \/ (up[g] # <<>> /\ up'[g] = Tail(up[g]))
  PROVE  Past(g) => Past(g)'
<1>1. up[g] \in Seq({"join", "leave", "eof"})
  BY Parts
<1>2. CASE up'[g] = up[g]
  BY <1>2 DEF Past, Phase
<1>3. CASE up'[g] = <<>>
  <2>1. \A i \in DOMAIN up'[g] : FALSE
    BY <1>3
  <2> QED
    BY <2>1 DEF Past, Phase
<1>4. CASE up[g] # <<>> /\ up'[g] = Tail(up[g])
  <2>1. ASSUME NEW i \in DOMAIN Tail(up[g])
        PROVE  i + 1 \in DOMAIN up[g] /\ Tail(up[g])[i] = up[g][i + 1]
    BY <1>1, <1>4
  <2>2. ASSUME Past(g), NEW i \in DOMAIN up'[g]  PROVE up'[g][i] # "join"
    BY <1>4, <2>1, <2>2 DEF Past
  <2> QED
    BY <2>2 DEF Past, Phase
<1> QED
  BY <1>2, <1>3, <1>4

\* A step that takes nobody in: slots are freed or detached.
LEMMA FreesAccounted ==
  ASSUME TypeOK, Accounts, UNCHANGED <<backend, store, game>>, stray \subseteq stray',
         \A s \in Slots : /\ slot'[s].token \in {0, slot[s].token}
                          /\ slot'[s].holder \in {0, slot'[s].token}
                          /\ slot'[s].token # 0 /\ Vacated(s) =>
                               Vacated(s)' \/ slot[s].token \in stray',
         \A g \in Games : /\ Courteous(g)' /\ Attached(g)' /\ Worthless(g)'
                          /\ Past(g) => Past(g)'
                          /\ Phase(g) = "joining" /\ SeatNews(g)' =>
                               SeatNews(g) \/ \A t \in Games : Untaken(t)'
  PROVE  Accounts'
<1>1. OneEach'
  <2>1. \A s, t \in Slots : slot'[s].token = slot'[t].token /\ slot'[s].token # 0 => s = t
    BY DEF Accounts, OneEach
  <2>2. \A s \in Slots : slot'[s].holder \in {0, slot'[s].token}
    OBVIOUS
  <2> QED
    BY <2>1, <2>2 DEF OneEach
<1>2. ASSUME NEW t \in Games, SeatKept(t)'
      PROVE  Accounted(t)'
  <2>1. PICK s \in Slots : slot'[s].token = t /\ ~Vacated(s)'
    BY <1>2 DEF SeatKept
  <2>2. slot[s].token = t /\ t # 0
    BY <2>1, Parts
  <2>3. CASE Vacated(s)
    BY <2>1, <2>2, <2>3 DEF Accounted
  <2>4. CASE ~Vacated(s)
    <3>1. Accounted(t)
      BY <2>2, <2>4 DEF Accounts, SeatKept
    <3> QED
      BY <3>1 DEF Accounted, Phase
  <2> QED
    BY <2>3, <2>4
<1>3. ASSUME NEW g \in Games
      PROVE  Resumes(g)'
  <2>1. PICK t \in Games \cup {0} : t = game[g].tried
    BY Parts
  <2>2. t # 0 => (Past(t) => Past(t)') /\ (Untaken(t) => Untaken(t)')
    BY Parts DEF Untaken
  <2>3. Resumes(g)
    BY DEF Accounts
  <2> QED
    BY <2>1, <2>2, <2>3 DEF Resumes, Phase
<1>4. store' # 0 => Past(store)'
  <2>1. PICK t \in Games \cup {0} : t = store
    BY Parts
  <2>2. t # 0 => Past(t)'
    BY <2>1 DEF Accounts
  <2> QED
    BY <2>1, <2>2 DEF Past, Phase
<1> QED
  BY <1>1, <1>2, <1>3, <1>4 DEF Accounts

\* Games that nobody writes to or hears.
LEMMA OthersAccounted ==
  ASSUME TypeOK, Accounts, UNCHANGED game, stray \subseteq stray',
         NEW h \in Games, up'[h] = up[h], down'[h] = down[h],
         Untaken(h) => Untaken(h)',
         \A s \in Slots : slot'[s].holder = h => slot[s].holder = h
  PROVE  Courteous(h)' /\ Attached(h)' /\ Worthless(h)' /\ SeatNews(h)' = SeatNews(h)
<1>1. Courteous(h) /\ Attached(h) /\ Worthless(h)
  BY DEF Accounts
<1>2. (Asks(h) => Asks(h)') /\ (Answered(h) => Answered(h)') /\ SeatNews(h)' = SeatNews(h)
  BY DEF Asks, Answered, SeatNews
<1>3. Courteous(h)'
  BY <1>1, <1>2 DEF Courteous, Alive, Phase
<1>4. Attached(h)'
  BY <1>1 DEF Attached, Phase
<1>5. Worthless(h)'
  BY <1>1 DEF Worthless, Alive, Phase
<1> QED
  BY <1>2, <1>3, <1>4, <1>5

\* The leave of a game, or the end of its socket, is read.
LEMMA HangsUpAccounted ==
  ASSUME TypeOK, Accounts, NEW g \in Games, Serve(g), Head(up[g]) # "join"
  PROVE  Accounts'
<1>1. /\ up \in [Games -> Seq({"join", "leave", "eof"})] /\ up[g] \in Seq({"join", "leave", "eof"})
      /\ slot \in [Slots -> [token : 0 .. MaxGames, holder : 0 .. MaxGames]]
      /\ up[g] # <<>> /\ Courteous(g) /\ g # 0
  BY Parts DEF Accounts, Serve
<1>2. /\ up'[g] = Tail(up[g]) /\ \A h \in Games \ {g} : up'[h] = up[h]
      /\ UNCHANGED <<backend, store, game, down, stray>>
  BY <1>1 DEF Serve
<1>3. up[g][1] = Head(up[g]) /\ 1 \in DOMAIN up[g]
  BY <1>1
<1>4. ~Asks(g)
  BY <1>3 DEF Asks
<1>5. Phase(g) \in {"closing", "closed", "failed", "dead"}
  <2>1. Phase(g) \notin {"none", "dialing", "joining", "playing"}
    BY <1>1, <1>4 DEF Courteous, Answered
  <2> QED
    BY <2>1 DEF TypeOK, Records, Phase
<1>6. \A i \in DOMAIN up[g] : up[g][i] # "eof" => i = 1
  BY <1>1, <1>5 DEF Courteous
<1>7. \A i \in DOMAIN Tail(up[g]) : Tail(up[g])[i] = "eof"
  <2>1. ASSUME NEW i \in DOMAIN Tail(up[g])
        PROVE  i + 1 \in DOMAIN up[g] /\ Tail(up[g])[i] = up[g][i + 1] /\ i + 1 # 1
    BY <1>1
  <2> QED
    BY <1>6, <2>1
<1>8. \A s \in Slots : slot[s].holder # g => slot'[s] = slot[s]
  BY <1>1 DEF Serve
<1>9. \A s \in Slots : slot[s].holder = g =>
        /\ slot'[s].holder = 0 /\ slot'[s].token \in {0, slot[s].token}
        /\ slot'[s].token # 0 => ~LeaveUnderway(g)
  <2>1. CASE Head(up[g]) = "leave"
    <3>1. \A s \in Slots : slot[s].holder = g => slot'[s] = Free
      BY <2>1 DEF Serve
    <3> QED
      BY <3>1 DEF Free
  <2>2. CASE Head(up[g]) = "eof"
    <3>1. \A s \in Slots : slot[s].holder = g => slot'[s] = [slot[s] EXCEPT !.holder = 0]
      BY <2>2 DEF Serve
    <3>2. ~LeaveUnderway(g)
      BY <1>3, <1>6, <2>2 DEF LeaveUnderway
    <3> QED
      BY <1>1, <3>1, <3>2, ZenonT(30)
  <2> QED
    BY <2>1, <2>2 DEF Serve
<1>10. \A s \in Slots : /\ slot'[s].token \in {0, slot[s].token}
                        /\ slot'[s].holder \in {0, slot'[s].token} /\ slot'[s].holder \in {0, slot[s].holder}
                        /\ slot'[s].token # 0 /\ Vacated(s) => Vacated(s)'
  <2>1. ASSUME NEW s \in Slots, slot[s].holder # g
        PROVE  Vacated(s) => Vacated(s)'
    BY <1>2, <1>8, <2>1, HolderType DEF Vacated, LeaveUnderway
  <2>2. ASSUME NEW s \in Slots, slot[s].holder = g, slot'[s].token # 0
        PROVE  ~Vacated(s)
    BY <1>9, <2>2 DEF Vacated
  <2> QED
    BY <1>8, <1>9, <2>1, <2>2 DEF Accounts, OneEach
<1>11. \A h \in Games : Untaken(h) => Untaken(h)'
  BY <1>10, Parts DEF Untaken
<1>12. \A h \in Games : \A s \in Slots : slot'[s].holder = h => slot[s].holder = h
  BY <1>10, Parts
<1>13. ASSUME NEW h \in Games
       PROVE  /\ Courteous(h)' /\ Attached(h)' /\ Worthless(h)' /\ (Past(h) => Past(h)')
              /\ SeatNews(h)' => SeatNews(h)
  <2>1. Past(h) => Past(h)'
    BY <1>1, <1>2, PastStays
  <2>2. CASE h # g
    BY <1>2, <1>11, <1>12, <2>1, <2>2, OthersAccounted
  <2>3. CASE h = g
    <3>1. Courteous(g)' /\ Attached(g)'
      BY <1>2, <1>5, <1>7 DEF Courteous, Attached, Phase
    <3>2. Worthless(g)' /\ SeatNews(g)' = SeatNews(g)
      BY <1>2, <1>11 DEF Accounts, Worthless, Alive, Phase, SeatNews
    <3> QED
      BY <2>1, <2>3, <3>1, <3>2
  <2> QED
    BY <2>2, <2>3
<1> QED
  BY <1>2, <1>10, <1>13, FreesAccounted

\* What was sent comes after the first that is still to be heard.
LEMMA FirstStays ==
  ASSUME NEW d \in Seq(DownMsgs), NEW ms \in Seq(DownMsgs), d # <<>>
  PROVE  d \o ms # <<>> /\ (d \o ms)[1] = d[1]
<1>1. /\ Len(d \o ms) = Len(d) + Len(ms)
      /\ \A i \in 1 .. Len(d) + Len(ms) : (d \o ms)[i] =
           IF i <= Len(d) THEN d[i] ELSE ms[i - Len(d)]
  BY ConcatProperties
<1>2. Len(d) \in Nat \ {0} /\ Len(ms) \in Nat
  BY EmptySeq
<1>3. (d \o ms)[1] = d[1] /\ Len(d \o ms) > 0
  BY <1>1, <1>2
<1> QED
  BY <1>3

\* A connection is lost: its game keeps its token, and is told.
LEMMA CutAccounted ==
  ASSUME TypeOK, Accounts, NEW s \in Slots, Cut(s)
  PROVE  Accounts'
<1>1. PICK g \in Games : g = slot[s].holder
  BY HolderType DEF Cut
<1>2. g \in Games /\ slot[s].token = g /\ g # 0
  BY <1>1, HolderType DEF Cut, Accounts, OneEach
<1>3. PICK last \in Seq(DownMsgs) :
        /\ down' = Post(down, g, last)
        /\ \A i \in DOMAIN last : last[i].type \notin GameOverCodes
  <2>1. PICK last \in {Ended("slow-consumer"), <<[type |-> "closed"]>>} : down' = Post(down, g, last)
    BY <1>1 DEF Cut
  <2>2. last \in Seq(DownMsgs) /\ \A i \in DOMAIN last : last[i].type \notin GameOverCodes
    <3>1. [type |-> "slow-consumer"] \in DownMsgs /\ [type |-> "closed"] \in DownMsgs
      BY DEF DownMsgs, DownTypes, FatalCodes
    <3>2. CASE last = Ended("slow-consumer")
      BY <3>1, <3>2 DEF Ended, GameOverCodes
    <3>3. CASE last = <<[type |-> "closed"]>>
      BY <3>1, <3>3 DEF GameOverCodes
    <3> QED
      BY <3>2, <3>3
  <2> QED
    BY <2>1, <2>2
<1>4. /\ slot \in [Slots -> [token : 0 .. MaxGames, holder : 0 .. MaxGames]]
      /\ up \in [Games -> Seq({"join", "leave", "eof"})] /\ down \in [Games -> Seq(DownMsgs)]
      /\ Courteous(g) /\ Worthless(g) /\ down[g] \in Seq(DownMsgs)
  BY <1>2, Parts DEF Accounts
<1>5. /\ slot'[s].holder = 0 /\ slot'[s].token = g /\ \A t \in Slots \ {s} : slot'[t] = slot[t]
      /\ up'[g] = <<>> /\ \A h \in Games \ {g} : up'[h] = up[h]
      /\ UNCHANGED <<backend, store, game>>
      /\ stray \subseteq stray' /\ (LeaveUnderway(g) => g \in stray')
  BY <1>1, <1>2, <1>4 DEF Cut
<1>6. down'[g] = (IF Alive(g) THEN down[g] \o last ELSE down[g]) /\ \A h \in Games \ {g} : down'[h] = down[h]
  <2>1. \A h \in Games : down'[h] = IF h = g /\ Alive(g) THEN down[h] \o last ELSE down[h]
    <3>1. down \in [Games -> Seq(DownMsgs)]
      BY <1>4
    <3>2. \A h \in Games : Post(down, g, last)[h] = IF h = g /\ Alive(g) THEN down[h] \o last ELSE down[h]
      BY <3>1, PostType
    <3> QED
      BY <1>3, <3>2
  <2> QED
    BY <1>2, <2>1
<1>7. \A t \in Slots : t # s => slot[t].token # g /\ slot[t].holder # g
  BY <1>2 DEF Accounts, OneEach
<1>8. ~Untaken(g) /\ \A t \in Slots : slot'[t].holder # g
  BY <1>2, <1>5, <1>7 DEF Untaken
<1>9. \A h \in Games : Untaken(h) => Untaken(h)'
  BY <1>2, <1>5 DEF Untaken
<1>10. Courteous(g)' /\ (Phase(g) = "joining" => SeatNews(g))
  <2>1. CASE Phase(g) = "joining"
    <3>1. down[g] # <<>> /\ down[g][1].type = "joined"
      BY <1>4, <1>8, <2>1 DEF Courteous, Asks, Answered
    <3>2. down'[g] # <<>> /\ down'[g][1].type = "joined"
      <4>1. down'[g] = down[g] \o last
        BY <1>6, <2>1 DEF Alive
      <4> QED
        BY <1>3, <1>4, <3>1, <4>1, FirstStays
    <3> QED
      BY <1>4, <1>5, <2>1, <3>1, <3>2 DEF Courteous, Answered, Phase, SeatNews
  <2>2. CASE Phase(g) # "joining"
    <3>1. \A i \in DOMAIN up'[g] : FALSE
      BY <1>5
    <3> QED
      BY <1>4, <1>5, <1>8, <2>2, <3>1 DEF Courteous, Phase
  <2> QED
    BY <2>1, <2>2
<1>11. Worthless(g)'
  <2>1. ASSUME Alive(g), NEW i \in DOMAIN (down[g] \o last)
        PROVE  (down[g] \o last)[i].type \notin GameOverCodes
    <3>1. \A j \in DOMAIN down[g] : down[g][j].type \notin GameOverCodes
      BY <1>4, <1>8, <2>1 DEF Worthless
    <3>2. PICK n \in Nat, k \in Nat : n = Len(down[g]) /\ k = Len(last)
      BY <1>3, <1>4
    <3>3. /\ i \in 1 .. n + k
          /\ (down[g] \o last)[i] = IF i <= n THEN down[g][i] ELSE last[i - n]
      BY <1>3, <1>4, <2>1, <3>2, ConcatProperties, LenProperties
    <3>4. i <= n => i \in DOMAIN down[g]
      BY <1>4, <3>2, <3>3
    <3>5. ~(i <= n) => i - n \in DOMAIN last
      BY <1>3, <3>2, <3>3
    <3> QED
      BY <1>3, <3>1, <3>3, <3>4, <3>5
  <2> QED
    BY <1>5, <1>6, <2>1 DEF Worthless, Alive, Phase
<1>12. ASSUME NEW h \in Games
       PROVE  /\ Courteous(h)' /\ Attached(h)' /\ Worthless(h)' /\ (Past(h) => Past(h)')
              /\ Phase(h) = "joining" /\ SeatNews(h)' => SeatNews(h)
  <2>0. Past(h) => Past(h)'
    BY <1>5, PastStays
  <2>1. CASE h = g
    BY <1>8, <1>10, <1>11, <2>0, <2>1 DEF Attached
  <2>2. CASE h # g
    <3>1. \A t \in Slots : slot'[t].holder = h => slot[t].holder = h
      BY <1>5, Parts
    <3> QED
      BY <1>5, <1>6, <1>9, <2>0, <2>2, <3>1, OthersAccounted
  <2> QED
    BY <2>1, <2>2
<1>13. \A t \in Slots : /\ slot'[t].token \in {0, slot[t].token}
                        /\ slot'[t].holder \in {0, slot'[t].token}
                        /\ slot'[t].token # 0 /\ Vacated(t) => Vacated(t)' \/ slot[t].token \in stray'
  <2>1. Vacated(s) => slot[s].token \in stray'
    BY <1>1, <1>2, <1>5 DEF Vacated
  <2>2. ASSUME NEW t \in Slots, t # s
        PROVE  Vacated(t) => Vacated(t)'
    BY <1>5, <1>7, <2>2, HolderType DEF Vacated, LeaveUnderway
  <2> QED
    BY <1>2, <1>5, <2>1, <2>2 DEF Accounts, OneEach
<1> QED
  BY <1>5, <1>12, <1>13, FreesAccounted

\* The room expires: there is no seat, and those attached are told.
LEMMA ExpireAccounted ==
  ASSUME TypeOK, Accounts, Expire
  PROVE  Accounts'
<1>1. /\ \A s \in Slots : slot'[s].token = 0 /\ slot'[s].holder = 0
      /\ UNCHANGED <<backend, store, game, up, stray>>
  BY DEF Expire, Free
<1>2. \A h \in Games : h # 0 /\ Untaken(h)'
  BY <1>1, Parts DEF Untaken
<1>3. ASSUME NEW h \in Games
      PROVE  Courteous(h)' /\ Attached(h)' /\ Worthless(h)' /\ (Past(h) => Past(h)')
  <2>1. Attached(h)' /\ Worthless(h)' /\ (Past(h) => Past(h)')
    BY <1>1, <1>2 DEF Attached, Worthless, Past, Phase
  <2>2. CASE Untaken(h)
    <3>1. down'[h] = down[h]
      <4>1. ~\E s \in Slots : slot[s].holder = h
        BY <2>2, UntakenFree DEF Accounts
      <4> QED
        BY <4>1 DEF Expire
    <3> QED
      BY <1>1, <1>2, <2>1, <2>2, <3>1, OthersAccounted
  <2>3. CASE ~Untaken(h)
    <3>1. Courteous(h) /\ ~Asks(h)
      BY <2>3 DEF Accounts, Asks
    <3>2. CASE Phase(h) = "joining"
      <4>1. down[h] # <<>> /\ up[h] = <<>> /\ down[h] \in Seq(DownMsgs)
        BY <3>1, <3>2, Parts DEF Courteous, Answered
      <4>2. "room-expired" \in DownTypes
        BY DEF DownTypes, FatalCodes, GameOverCodes
      <4>3. PICK ms \in Seq(DownMsgs) : ms = Ended("room-expired")
        BY <4>2, EndedType
      <4>4. down'[h] = down[h] \o ms \/ down'[h] = down[h]
        <5>1. Post(down, h, ms)[h] = IF Alive(h) THEN down[h] \o ms ELSE down[h]
          <6>1. down \in [Games -> Seq(DownMsgs)]
            BY Parts
          <6> QED
            BY <6>1, PostType
        <5>2. Post(down, h, ms)[h] \in {down[h] \o ms, down[h]}
          BY <5>1
        <5> QED
          BY <4>3, <5>2 DEF Expire
      <4>5. down'[h] # <<>>
        BY <4>1, <4>4, FirstStays
      <4> QED
        BY <1>1, <1>2, <2>1, <3>1, <3>2, <4>1, <4>5 DEF Courteous, Answered, Phase
    <3>3. CASE Phase(h) # "joining"
      BY <1>1, <1>2, <2>1, <2>3, <3>1, <3>3 DEF Courteous, Phase
    <3> QED
      BY <3>2, <3>3
  <2> QED
    BY <2>2, <2>3
<1> QED
  BY <1>1, <1>2, <1>3, FreesAccounted

\* The join is all a game has sent.
LEMMA JoinRead == Tail(<<"join">>) = <<>>
<1>1. PICK s \in Seq({"join"}) : s = <<"join">> /\ s # <<>> /\ Len(s) = 1
  <2>1. <<"join">> \in Seq({"join"}) /\ Len(<<"join">>) = 1
    OBVIOUS
  <2> QED
    BY <2>1, EmptySeq
<1>2. Tail(s) \in Seq({"join"}) /\ Len(Tail(s)) = 0
  BY <1>1, HeadTailProperties
<1>3. ASSUME NEW r \in Seq({"join"}), Len(r) = 0  PROVE r = <<>>
  BY <1>3, EmptySeq
<1> QED
  BY <1>1, <1>2, <1>3

\* A game whose join is read asks for its seat, or has written it off.
LEMMA AskedFor ==
  ASSUME TypeOK, Accounts, NEW g \in Games, Serve(g), Head(up[g]) = "join"
  PROVE  /\ up'[g] = Tail(up[g]) /\ \A h \in Games \ {g} : up'[h] = up[h]
         /\ UNCHANGED <<backend, store, game, stray>> /\ Join(g)
         /\ Untaken(g) /\ ~Past(g) /\ \A h \in Games : Past(h) => Past(h)'
         /\ \/ Alive(g) /\ Phase(g) = "joining" /\ Asks(g) /\ up'[g] = <<>>
            \/ /\ ~Alive(g) /\ Phase(g) \in {"closed", "failed", "dead"} /\ g \in stray
               /\ \A i \in DOMAIN up'[g] : up'[g][i] = "eof"
<1>1. /\ up \in [Games -> Seq({"join", "leave", "eof"})] /\ up[g] \in Seq({"join", "leave", "eof"})
      /\ up[g] # <<>> /\ Courteous(g)
  BY Parts DEF Accounts, Serve
<1>2. /\ up'[g] = Tail(up[g]) /\ \A h \in Games \ {g} : up'[h] = up[h]
      /\ UNCHANGED <<backend, store, game, stray>> /\ Join(g)
  BY <1>1 DEF Serve
<1>3. up[g][1] = "join" /\ 1 \in DOMAIN up[g]
  BY <1>1
<1>4. ~Past(g)
  BY <1>3 DEF Past
<1>5. \A h \in Games : Past(h) => Past(h)'
  BY <1>1, <1>2, PastStays
<1>6. Phase(g) \notin {"none", "dialing", "playing"} /\ (Phase(g) = "joining" => Asks(g))
  BY <1>1, <1>3 DEF Courteous, Answered
<1>7. CASE Phase(g) = "joining"
  <2>1. Asks(g) /\ Untaken(g) /\ Alive(g)
    BY <1>6, <1>7 DEF Asks, Alive
  <2>2. up'[g] = <<>>
    BY <1>2, <2>1, JoinRead DEF Asks
  <2> QED
    BY <1>2, <1>4, <1>5, <1>7, <2>1, <2>2
<1>8. CASE Phase(g) # "joining"
  <2>1. Phase(g) \in {"closing", "closed", "failed", "dead"}
    BY <1>6, <1>8 DEF TypeOK, Records, Phase
  <2>2. ~Alive(g) /\ g \in stray /\ Untaken(g) /\ \A i \in DOMAIN up[g] : up[g][i] # "eof" => i = 1
    BY <1>1, <1>3, <2>1 DEF Courteous
  <2>3. ASSUME NEW i \in DOMAIN Tail(up[g])
        PROVE  i + 1 \in DOMAIN up[g] /\ Tail(up[g])[i] = up[g][i + 1] /\ i + 1 # 1
    BY <1>1
  <2>4. \A i \in DOMAIN up'[g] : up'[g][i] = "eof"
    BY <1>2, <2>2, <2>3
  <2>5. Phase(g) # "closing"
    BY <2>2 DEF Alive
  <2> QED
    BY <1>2, <1>4, <1>5, <2>1, <2>2, <2>4, <2>5
<1> QED
  BY <1>7, <1>8

\* The game that sat there is told, and its token keeps no slot any more.
LEMMA KickedAccounted ==
  ASSUME TypeOK, Accounts, UNCHANGED game, stray \subseteq stray',
         NEW h \in Games, NEW s \in Slots, slot[s].holder = h, NEW ms \in Seq(DownMsgs),
         up'[h] = up[h], down'[h] = IF Alive(h) THEN down[h] \o ms ELSE down[h],
         Untaken(h)', \A t \in Slots : slot'[t].holder # h
  PROVE  /\ Courteous(h)' /\ Attached(h)' /\ Worthless(h)'
         /\ Phase(h) = "joining" => (SeatNews(h)' => SeatNews(h))
<1>1. Courteous(h) /\ down[h] \in Seq(DownMsgs)
  BY Parts DEF Accounts
<1>2. ~Untaken(h)
  BY UntakenFree DEF Accounts
<1>3. Attached(h)' /\ Worthless(h)'
  BY DEF Attached, Worthless
<1>4. CASE Phase(h) = "joining"
  <2>1. up[h] = <<>> /\ down[h] # <<>> /\ Alive(h)
    BY <1>1, <1>2, <1>4 DEF Courteous, Asks, Answered, Alive
  <2>2. down'[h] # <<>> /\ down'[h][1] = down[h][1]
    BY <1>1, <2>1, FirstStays
  <2> QED
    BY <1>1, <1>3, <1>4, <2>1, <2>2 DEF Courteous, Answered, Phase, SeatNews
<1>5. CASE Phase(h) # "joining"
  BY <1>1, <1>2, <1>3, <1>5 DEF Courteous, Phase
<1> QED
  BY <1>4, <1>5

\* The other games see nothing of it but the one that sat there.
LEMMA SeatAccounted ==
  ASSUME TypeOK, Accounts, NEW g \in Games, Serve(g), Head(up[g]) = "join", NEW s \in Slots, NEW code,
         code \in DownTypes \/ slot[s] = Free, Seat(g, s, code),
         Phase(g) = "joining" /\ game[g].tried # 0 =>
           \A t \in Slots \ {s} : slot[t].token # game[g].tried
  PROVE  Accounts'
<1>1. /\ slot \in [Slots -> [token : 0 .. MaxGames, holder : 0 .. MaxGames]]
      /\ down \in [Games -> Seq(DownMsgs)] /\ g # 0
  BY Parts
<1>2. /\ \A h \in Games \ {g} : up'[h] = up[h]
      /\ UNCHANGED <<backend, store, game, stray>>
      /\ Untaken(g) /\ ~Past(g) /\ \A h \in Games : Past(h) => Past(h)'
  BY AskedFor
<1>3. \/ Alive(g) /\ Phase(g) = "joining" /\ Asks(g) /\ up'[g] = <<>>
      \/ /\ ~Alive(g) /\ Phase(g) \in {"closed", "failed", "dead"} /\ g \in stray
         /\ \A i \in DOMAIN up'[g] : up'[g][i] = "eof"
  BY AskedFor
<1>4. PICK h \in Games \cup {0} : h = slot[s].holder
  BY HolderType
<1>5. h # g
  BY <1>1, <1>2, <1>4, UntakenFree DEF Accounts
<1>6. PICK ms \in Seq(DownMsgs) : ms = <<[type |-> "joined", slot |-> s]>> /\ Len(ms) = 1 /\ ms[1].type = "joined"
  <2>1. PICK m : m = [type |-> "joined", slot |-> s]
    OBVIOUS
  <2>2. m \in DownMsgs /\ m.type = "joined"
    BY <2>1 DEF DownMsgs
  <2>3. <<m>> \in Seq(DownMsgs) /\ Len(<<m>>) = 1 /\ <<m>>[1].type = "joined"
    BY <2>2
  <2> QED
    BY <2>1, <2>3
<1>7. PICK last \in Seq(DownMsgs) : h # 0 => last = Ended(code)
  <2>1. CASE h # 0
    <3>1. code \in DownTypes
      BY <1>4, <2>1 DEF Free
    <3> QED
      BY <3>1, EndedType
  <2>2. CASE h = 0
    BY <1>6, <2>2
  <2> QED
    BY <2>1, <2>2
<1>8. PICK kicked : kicked = IF h = 0 THEN down ELSE Post(down, h, last)
  OBVIOUS
<1>9. /\ kicked \in [Games -> Seq(DownMsgs)]
      /\ \A i \in Games : kicked[i] = IF i = h /\ Alive(h) THEN down[i] \o last ELSE down[i]
  <2>1. CASE h = 0
    BY <1>1, <1>8, <2>1, Parts
  <2>2. CASE h # 0
    <3>1. h \in Games /\ kicked = Post(down, h, last) /\ down \in [Games -> Seq(DownMsgs)]
      BY <1>1, <1>8, <2>2
    <3>2. /\ Post(down, h, last) \in [Games -> Seq(DownMsgs)]
          /\ \A i \in Games : Post(down, h, last)[i] =
               IF i = h /\ Alive(h) THEN down[i] \o last ELSE down[i]
      BY <3>1, PostType
    <3> QED
      BY <3>1, <3>2
  <2> QED
    BY <2>1, <2>2
<1>10. down' = Post(kicked, g, ms)
  BY <1>4, <1>6, <1>7, <1>8 DEF Seat, Seated
<1>11. \A i \in Games : down'[i] = IF i = g /\ Alive(g) THEN kicked[i] \o ms ELSE kicked[i]
  BY <1>6, <1>9, <1>10, PostType
<1>12. down'[g] = (IF Alive(g) THEN down[g] \o ms ELSE down[g])
  BY <1>5, <1>9, <1>11
<1>13. \A i \in Games \ {g} : down'[i] = IF i = h /\ Alive(h) THEN down[i] \o last ELSE down[i]
  BY <1>9, <1>11
<1>14. slot'[s].token = g /\ slot'[s].holder = g /\ \A t \in Slots \ {s} : slot'[t] = slot[t]
  BY <1>1 DEF Seat
<1>15. \A t \in Slots : slot[t].token # g /\ slot[t].holder # g
  BY <1>2, UntakenFree DEF Untaken, Accounts
<1>16. OneEach'
  <2>1. \A t, u \in Slots : slot'[t].token = slot'[u].token /\ slot'[t].token # 0 => t = u
    BY <1>14, <1>15 DEF Accounts, OneEach
  <2>2. \A t \in Slots : slot'[t].holder \in {0, slot'[t].token}
    BY <1>14 DEF Accounts, OneEach
  <2> QED
    BY <2>1, <2>2 DEF OneEach
<1>17. \A i \in Games \ {g} : Untaken(i) => Untaken(i)'
  BY <1>14 DEF Untaken
<1>18. /\ Courteous(g)' /\ Attached(g)' /\ Worthless(g)'
  <2>1. CASE Alive(g) /\ Phase(g) = "joining" /\ Asks(g) /\ up'[g] = <<>>
    <3>1. down'[g] = ms
      <4>1. down'[g] = <<>> \o ms
        BY <1>12, <2>1 DEF Asks
      <4>2. <<>> \o ms = ms
        BY <1>6, ConcatEmptySeq
      <4> QED
        BY <4>1, <4>2
    <3>2. Courteous(g)'
      <4>1. down'[g] # <<>> /\ down'[g][1].type = "joined"
        BY <1>6, <3>1
      <4>2. Answered(g)'
        BY <2>1, <4>1 DEF Answered
      <4>3. game[g].over = ""
        BY <2>1 DEF Accounts, Courteous
      <4> QED
        BY <1>2, <2>1, <4>2, <4>3 DEF Courteous, Phase
    <3>3. Attached(g)'
      BY <1>2, <1>6, <2>1, <3>1 DEF Attached, Phase
    <3>4. Worthless(g)'
      <4>1. \A k \in DOMAIN down'[g] : down'[g][k].type \notin GameOverCodes
        BY <1>6, <3>1 DEF GameOverCodes
      <4> QED
        BY <4>1 DEF Worthless
    <3> QED
      BY <3>2, <3>3, <3>4
  <2>2. CASE /\ ~Alive(g) /\ Phase(g) \in {"closed", "failed", "dead"} /\ g \in stray
             /\ \A i \in DOMAIN up'[g] : up'[g][i] = "eof"
    <3>1. Courteous(g)' /\ Attached(g)'
      BY <1>2, <2>2 DEF Courteous, Attached, Phase
    <3>2. Worthless(g)'
      BY <1>2, <2>2 DEF Worthless, Alive, Phase
    <3> QED
      BY <3>1, <3>2
  <2> QED
    BY <1>3, <2>1, <2>2
<1>19. ASSUME NEW i \in Games, i # g
       PROVE  /\ Courteous(i)' /\ Attached(i)' /\ Worthless(i)'
              /\ Phase(i) = "joining" => (SeatNews(i)' => SeatNews(i))
  <2>1. CASE i = h
    <3>1. \A t \in Slots : t # s => slot[t].token # i /\ slot[t].holder # i
      BY <1>4, <2>1, Parts DEF Accounts, OneEach
    <3>2. Untaken(i)' /\ \A t \in Slots : slot'[t].holder # i
      BY <1>14, <1>19, <3>1 DEF Untaken
    <3> QED
      BY <1>2, <1>4, <1>13, <1>19, <2>1, <3>2, KickedAccounted
  <2>2. CASE i # h
    <3>1. \A t \in Slots : slot'[t].holder = i => slot[t].holder = i
      BY <1>14, <1>19
    <3>2. up'[i] = up[i] /\ down'[i] = down[i]
      BY <1>2, <1>13, <1>19, <2>2
    <3> QED
      BY <1>2, <1>17, <1>19, <3>1, <3>2, OthersAccounted
  <2> QED
    BY <2>1, <2>2
<1>20. ASSUME NEW i \in Games
       PROVE  Resumes(i)'
  <2>1. PICK t \in Games \cup {0} : t = game[i].tried
    BY Parts
  <2>2. Resumes(i)
    BY DEF Accounts
  <2>3. ASSUME Phase(i) \in {"dialing", "joining"}, t # 0
        PROVE  /\ ~game[i].claim /\ t # i /\ Past(t)'
               /\ Phase(i) = "joining" /\ SeatNews(i)' => Untaken(t)'
    <3>1. ~game[i].claim /\ t # i /\ Past(t) /\ Past(t)' /\ t # g
      BY <1>2, <2>1, <2>2, <2>3 DEF Resumes
    <3>2. Untaken(t) => Untaken(t)'
      BY <1>17, <3>1, <2>3
    <3>3. ASSUME i # g, Phase(i) = "joining", SeatNews(i)'  PROVE Untaken(t)
      BY <1>19, <2>1, <2>2, <2>3, <3>3 DEF Resumes
    <3>4. ASSUME i = g, Phase(i) = "joining"  PROVE Untaken(t)'
      <4>1. \A u \in Slots \ {s} : slot[u].token # t
        BY <2>1, <2>3, <3>4
      <4> QED
        BY <1>14, <3>1, <4>1 DEF Untaken
    <3> QED
      BY <3>1, <3>2, <3>3, <3>4
  <2> QED
    BY <1>2, <2>1, <2>3 DEF Resumes, Phase
<1>21. ASSUME NEW t \in Games, SeatKept(t)'
       PROVE  Accounted(t)'
  <2>1. PICK u \in Slots : slot'[u].token = t /\ ~Vacated(u)'
    BY <1>21 DEF SeatKept
  <2>2. CASE u = s
    <3>1. t = g /\ (Phase(g) = "joining" \/ g \in stray)
      BY <1>3, <1>14, <2>1, <2>2
    <3> QED
      BY <1>2, <3>1 DEF Accounted, Phase
  <2>3. CASE u # s
    <3>1. slot[u].token = t /\ slot[u] = slot'[u] /\ slot[u].holder # g
      BY <1>14, <1>15, <2>1, <2>3
    <3>2. ~Vacated(u)
      BY <1>2, <2>1, <3>1, HolderType DEF Vacated, LeaveUnderway
    <3>3. Accounted(t)
      BY <3>1, <3>2 DEF Accounts, SeatKept
    <3> QED
      BY <1>2, <3>3 DEF Accounted, Phase
  <2> QED
    BY <2>2, <2>3
<1>22. store' # 0 => Past(store)'
  <2>1. PICK t \in Games \cup {0} : t = store
    BY Parts
  <2>2. t # 0 => Past(t)'
    BY <1>2, <2>1 DEF Accounts
  <2> QED
    BY <1>2, <2>1, <2>2 DEF Past, Phase
<1>23. \A i \in Games : Courteous(i)' /\ Attached(i)' /\ Worthless(i)'
  BY <1>18, <1>19
<1> QED
  BY <1>16, <1>20, <1>21, <1>22, <1>23 DEF Accounts

\* The room is full: there is no seat of the game.
LEMMA FullAccounted ==
  ASSUME TypeOK, Accounts, NEW g \in Games, Serve(g), Head(up[g]) = "join",
         down' = Post(down, g, Ended("room-full")), UNCHANGED slot
  PROVE  Accounts'
<1>1. down \in [Games -> Seq(DownMsgs)] /\ Courteous(g)
  BY Parts DEF Accounts
<1>2. /\ \A h \in Games \ {g} : up'[h] = up[h]
      /\ UNCHANGED <<backend, store, game, stray>>
      /\ Untaken(g) /\ \A h \in Games : Past(h) => Past(h)'
  BY AskedFor
<1>3. \/ Alive(g) /\ Phase(g) = "joining" /\ Asks(g) /\ up'[g] = <<>>
      \/ /\ ~Alive(g) /\ Phase(g) \in {"closed", "failed", "dead"} /\ g \in stray
         /\ \A i \in DOMAIN up'[g] : up'[g][i] = "eof"
  BY AskedFor
<1>4. PICK ms \in Seq(DownMsgs) : ms = Ended("room-full") /\ Len(ms) > 0 /\ ms[1].type # "joined"
  <2>1. "room-full" \in DownTypes
    BY DEF DownTypes
  <2>2. Ended("room-full")[1].type # "joined"
    BY DEF Ended
  <2> QED
    BY <2>1, <2>2, EndedType
<1>5. \A i \in Games : down'[i] = IF i = g /\ Alive(g) THEN down[i] \o ms ELSE down[i]
  <2>1. down \in [Games -> Seq(DownMsgs)] /\ down' = Post(down, g, ms)
    BY <1>1, <1>4
  <2>2. \A i \in Games : Post(down, g, ms)[i] = IF i = g /\ Alive(g) THEN down[i] \o ms ELSE down[i]
    BY <2>1, PostType
  <2> QED
    BY <2>1, <2>2
<1>6. \A s \in Slots : slot[s].holder # g
  BY <1>2, UntakenFree DEF Accounts
<1>7. Courteous(g)' /\ Attached(g)' /\ Worthless(g)' /\ (SeatNews(g)' => SeatNews(g))
  <2>1. Untaken(g)' /\ Attached(g)'
    BY <1>2, <1>6 DEF Untaken, Attached
  <2>2. Worthless(g)'
    BY <2>1 DEF Worthless
  <2>3. CASE Alive(g) /\ Phase(g) = "joining" /\ Asks(g) /\ up'[g] = <<>>
    <3>1. down'[g] = ms
      <4>1. down'[g] = <<>> \o ms
        BY <1>5, <2>3 DEF Asks
      <4>2. <<>> \o ms = ms
        BY <1>4, ConcatEmptySeq
      <4> QED
        BY <4>1, <4>2
    <3>2. ms # <<>>
      BY <1>4, EmptySeq
    <3>3. Answered(g)' /\ ~SeatNews(g)'
      BY <1>4, <2>1, <2>3, <3>1, <3>2 DEF Answered, SeatNews
    <3>4. Courteous(g)'
      BY <1>1, <1>2, <2>3, <3>3 DEF Courteous, Phase
    <3> QED
      BY <2>1, <2>2, <3>3, <3>4
  <2>4. CASE /\ ~Alive(g) /\ Phase(g) \in {"closed", "failed", "dead"} /\ g \in stray
             /\ \A i \in DOMAIN up'[g] : up'[g][i] = "eof"
    <3>1. Courteous(g)'
      BY <1>2, <2>4 DEF Courteous, Phase
    <3>2. down'[g] = down[g]
      BY <1>5, <2>4
    <3> QED
      BY <2>1, <2>2, <3>1, <3>2 DEF SeatNews
  <2> QED
    BY <1>3, <2>3, <2>4
<1>8. ASSUME NEW h \in Games
      PROVE  /\ Courteous(h)' /\ Attached(h)' /\ Worthless(h)' /\ (Past(h) => Past(h)')
             /\ SeatNews(h)' => SeatNews(h)
  <2>1. CASE h = g
    BY <1>2, <1>7, <2>1
  <2>2. CASE h # g
    <3>1. up'[h] = up[h] /\ down'[h] = down[h]
      BY <1>2, <1>5, <2>2
    <3> QED
      BY <1>2, <3>1, OthersAccounted DEF Untaken
  <2> QED
    BY <2>1, <2>2
<1>9. \A s \in Slots : /\ slot'[s].token \in {0, slot[s].token}
                       /\ slot'[s].holder \in {0, slot'[s].token}
                       /\ Vacated(s) => Vacated(s)'
  <2>1. ASSUME NEW s \in Slots
        PROVE  Vacated(s) => Vacated(s)'
    BY <1>2, <1>6, HolderType DEF Vacated, LeaveUnderway
  <2> QED
    BY <2>1 DEF Accounts, OneEach
<1> QED
  BY <1>2, <1>8, <1>9, FreesAccounted

\* A join is answered.
LEMMA JoinAccounted ==
  ASSUME TypeOK, Accounts, NEW g \in Games, Serve(g), Head(up[g]) = "join"
  PROVE  Accounts'
<1>1. Join(g) /\ Resumes(g)
  BY AskedFor DEF Accounts
<1>2. CASE game[g].claim
  <2>1. PICK s \in Slots : Seat(g, s, "replaced")
    BY <1>1, <1>2 DEF Join
  <2>2. "replaced" \in DownTypes
    BY DEF DownTypes, FatalCodes, GameOverCodes
  <2> QED
    BY <1>1, <1>2, <2>1, <2>2, SeatAccounted DEF Resumes
<1>3. ASSUME NEW s \in Kept(game[g].tried), Seat(g, s, "session-superseded")
      PROVE  Accounts'
  <2>1. /\ "session-superseded" \in DownTypes /\ s \in Slots
        /\ slot[s].token = game[g].tried /\ game[g].tried # 0
    BY <1>3 DEF DownTypes, FatalCodes, GameOverCodes, Kept
  <2>2. \A t \in Slots \ {s} : slot[t].token # game[g].tried
    BY <2>1 DEF Accounts, OneEach
  <2> QED
    BY <1>3, <2>1, <2>2, SeatAccounted
<1>4. ASSUME NEW s \in FreeSlots, Kept(game[g].tried) = {}, Seat(g, s, "")
      PROVE  Accounts'
  <2>1. game[g].tried # 0 => \A t \in Slots : slot[t].token # game[g].tried
    BY <1>4 DEF Kept
  <2> QED
    BY <1>4, <2>1, SeatAccounted DEF FreeSlots
<1>5. ASSUME down' = Post(down, g, Ended("room-full")), UNCHANGED slot
      PROVE  Accounts'
  BY <1>5, FullAccounted
<1> QED
  BY <1>1, <1>2, <1>3, <1>4, <1>5, Zenon DEF Join

----------------------------------------------------------------------------
(* The seats of the player *)

\* At first there is no game and no seat.
LEMMA InitAccounted == Init => Accounts
<1> SUFFICES ASSUME Init PROVE Accounts
  OBVIOUS
<1>1. \A s \in Slots : slot[s].token = 0 /\ slot[s].holder = 0
  BY DEF Init, Free
<1>2. \A g \in Games : /\ game[g].phase = "none" /\ up[g] = <<>> /\ down[g] = <<>> /\ g # 0
  <2>1. \A g \in Games : game[g] = NewGame /\ up[g] = <<>> /\ down[g] = <<>>
    BY DEF Init
  <2>2. NewGame.phase = "none"
    BY DEF NewGame
  <2>3. \A g \in Games : g # 0
    BY SessionConstants DEF Games
  <2> QED
    BY <2>1, <2>2, <2>3
<1>3. OneEach /\ store = 0
  BY <1>1 DEF OneEach, Init
<1>4. \A g \in Games : Courteous(g) /\ Attached(g) /\ Worthless(g) /\ Resumes(g)
  BY <1>1, <1>2 DEF Courteous, Attached, Worthless, Resumes, Untaken, Alive, Phase
<1>5. \A t \in Games : ~SeatKept(t)
  BY <1>1, <1>2 DEF SeatKept
<1> QED
  BY <1>3, <1>4, <1>5 DEF Accounts

\* Each step leaves every seat accounted for.
LEMMA NextAccounted == TypeOK /\ Accounts /\ [Next]_vars => Accounts'
<1> SUFFICES ASSUME TypeOK, Accounts, [Next]_vars PROVE Accounts'
  OBVIOUS
<1>1. CASE UNCHANGED vars
  <2>1. UNCHANGED <<backend, store, slot, game, up, down, stray>>
    BY <1>1 DEF vars
  <2>2. \A s \in Slots : /\ slot'[s].token \in {0, slot[s].token}
                         /\ slot'[s].holder \in {0, slot'[s].token}
                         /\ Vacated(s) => Vacated(s)'
    BY <2>1 DEF Accounts, OneEach, Vacated, LeaveUnderway
  <2>3. \A g \in Games : /\ Courteous(g)' /\ Attached(g)' /\ Worthless(g)'
                         /\ SeatNews(g)' = SeatNews(g)
    BY <2>1, OthersAccounted DEF Untaken
  <2>4. \A g \in Games : Past(g) => Past(g)'
    BY <2>1 DEF Past, Phase
  <2> QED
    BY <2>1, <2>2, <2>3, <2>4, FreesAccounted
<1>2. CASE Expire
  BY <1>2, ExpireAccounted
<1>3. ASSUME NEW s \in Slots, Cut(s)
      PROVE  Accounts'
  BY <1>3, CutAccounted
<1>4. ASSUME NEW g \in Games, Serve(g)
      PROVE  Accounts'
  BY <1>4, JoinAccounted, HangsUpAccounted
<1>5. ASSUME NEW g \in Games, ClientStep(g)
      PROVE  Accounts'
  <2>1. CASE NativeConnect(g)
    BY <2>1, BeginAccounted DEF NativeConnect
  <2>2. CASE WasmConnect(g)
    BY <2>2, BeginAccounted DEF WasmConnect
  <2>3. CASE NativeJoin(g)
    <3>1. PICK t0 \in Games \cup {0} : t0 = IF game[g].claim THEN 0 ELSE store
      BY Parts
    <3>2. t0 # 0 => ~game[g].claim /\ Past(t0)
      BY <3>1 DEF Accounts
    <3> QED
      BY <2>3, <3>1, <3>2, AskAccounted DEF NativeJoin
  <2>4. CASE WasmOnOpen(g)
    <3>1. game \in [Games -> Records] /\ game[g].tried \in Games \cup {0}
      BY Parts
    <3>2. game' = [game EXCEPT ![g].phase = "joining", ![g].tried = game[g].tried]
      BY <2>4, <3>1 DEF WasmOnOpen, Now, Records
    <3>3. game[g].tried # 0 => ~game[g].claim /\ Past(game[g].tried)
      BY <2>4 DEF WasmOnOpen, Accounts, Resumes
    <3> QED
      BY <2>4, <3>1, <3>2, <3>3, AskAccounted DEF WasmOnOpen
  <2>5. CASE Answer(g)
    BY <2>5, AnswerAccounted
  <2>6. CASE GivesUp(g)
    BY <2>6, AbandonAccounted DEF GivesUp, Alive
  <2>7. CASE NativeLoss(g) \/ WasmLoss(g)
    BY <2>7, LossAccounted DEF NativeLoss, WasmLoss
  <2>8. CASE NativeShutdown(g)
    BY <2>8, ShutdownAccounted DEF NativeShutdown
  <2>9. CASE WasmShutdown(g)
    BY <2>9, ShutdownAccounted DEF WasmShutdown
  <2>10. CASE NativeClear(g)
    BY <2>10, ClearAccounted
  <2>11. CASE Crash(g)
    BY <2>11, AbandonAccounted DEF Crash
  <2> QED
    BY <1>5, <2>1, <2>2, <2>3, <2>4, <2>5, <2>6, <2>7, <2>8, <2>9, <2>10, <2>11
       DEF ClientStep, NativeHandshake, WasmHandshake, NativeTimeout, WasmTimeout
<1> QED
  BY <1>1, <1>2, <1>3, <1>4, <1>5 DEF Next

\* Of all the seats that the games of a store keep, one at most is not accounted
\* for as written off or as that of a game which is still asking, and its token is
\* the stored one (storage::save, load and clear of the clients
\* against Manager.Join, Leave and Disconnect).  What writes a seat off is listed
\* at OneSeat: a connect given up or crashed in once it asked, a close after the
\* loss of the connection, a leave lost with it, a store cleared of or overwritten
\* with another game's token.
THEOREM OneSeatKept == Spec => []OneSeat
<1>1. TypeOK /\ Accounts => OneSeat
  <2> SUFFICES ASSUME TypeOK, Accounts, NEW s \in Owned
               PROVE  slot[s].token = store /\ Owned = {s}
    BY DEF OneSeat
  <2>1. ASSUME NEW t \in Owned
        PROVE  slot[t].token = store /\ store # 0
    <3>1. /\ t \in Slots /\ slot[t] # Free /\ ~Vacated(t) /\ slot[t].token \notin stray
          /\ Phase(slot[t].token) # "joining"
      BY DEF Owned
    <3>2. PICK g : g = slot[t].token
      OBVIOUS
    <3>3. g # 0 /\ g \in Games
      <4>1. slot \in [Slots -> [token : 0 .. MaxGames, holder : 0 .. MaxGames]]
        BY Parts
      <4>2. g # 0
        BY <3>1, <3>2, <4>1 DEF Accounts, OneEach, Free
      <4> QED
        BY <3>1, <3>2, <4>1, <4>2, SessionConstants DEF Games
    <3>4. Accounted(g)
      BY <3>1, <3>2, <3>3 DEF Accounts, SeatKept
    <3> QED
      BY <3>1, <3>2, <3>3, <3>4 DEF Accounted
  <2>2. \A t \in Owned : t = s
    BY <2>1 DEF Accounts, OneEach, Owned
  <2> QED
    BY <2>1, <2>2
<1>2. Spec => []TypeOK
  BY TypeCorrect
<1>3. TypeOK /\ Accounts /\ [Next]_vars => Accounts'
  BY NextAccounted
<1> QED
  BY <1>1, <1>2, <1>3, InitAccounted, PTL DEF Spec
=============================================================================
