----------------------------- MODULE DartProofs -----------------------------
(***************************************************************************)
(* Proofs about DartRoids, for every number of players and every setting   *)
(* of the game's durations: its types, that the ghost of a ship fades, and *)
(* that a hit is ignored only after its victim started over.               *)
(***************************************************************************)
EXTENDS DartRoids, TLAPS, SequenceTheorems

Phases == {"connecting", "lobby", "arena"}
Seqs == 0 .. SeqSpace - 1

Ships == [life : Nat, n : Nat, seq : Seqs, armed : BOOLEAN,
          silent : 0 .. DropAfter + 1, quiet : 0 .. DropAfter + 1]

Games == [phase : Phases, alive : BOOLEAN, deadFor : 0 .. RespawnDelay,
          invuln : 0 .. InvulnTime, bullets : 0 .. BulletLife,
          score : Nat, kills : Nat, seq : Seqs,
          seen : [Players -> Nat], remotes : [Players -> Ships]]

StateMsgs == [kind : {"state"}, from : Players, seq : Seqs, armed : BOOLEAN,
              life : Nat, n : Nat]
HitMsgs == [kind : {"hit"}, from : Players, to : Players, num : Nat]
Msgs == StateMsgs \cup HitMsgs

Links == [online : BOOLEAN, out : Seq(Msgs), sending : HitMsgs \cup {NoHit},
          inbox : Seq(Msgs)]

Datagrams == [from : Players, to : Players, age : Nat, state : StateMsgs]

\* A ship that is shown is as silent as it seems, and one that was silent too
\* long does not outlive the next frame.
Fading(r, isFramed) == r.silent = r.quiet /\ (isFramed => r.silent <= DropAfter)

Good(g, isFramed) ==
  /\ g \in Games
  /\ g.alive => g.phase = "arena"
  /\ \A q \in Players : Fading(g.remotes[q], isFramed)

IInv ==
  /\ DOMAIN game = Players /\ game = [p \in Players |-> game[p]]
  /\ \A p \in Players : Good(game[p], framed[p])
  /\ framed \in [Players -> BOOLEAN]
  /\ link \in [Players -> Links]
  /\ net \subseteq Datagrams
  /\ life \in [Players -> Nat] /\ sent \in [Players -> Nat]

----------------------------------------------------------------------------
(* What the operations make of a game *)

LEMMA Naturals0 ==
  /\ RespawnDelay \in Nat /\ InvulnTime \in Nat /\ BulletLife \in Nat
  /\ DropAfter \in Nat /\ SeqSpace \in Nat /\ SeqSpace > 0
BY DartConstants

LEMMA NoShipFades ==
  /\ NoShip \in Ships
  /\ \A f \in BOOLEAN : Fading(NoShip, f)
BY Naturals0 DEF NoShip, Ships, Seqs, Fading

LEMMA NewGameGood ==
  ASSUME NEW f \in BOOLEAN
  PROVE  Good(NewGame, f)
BY Naturals0, NoShipFades DEF Good, NewGame, Games, Phases, Seqs

LEMMA UpdateGood ==
  ASSUME NEW g, NEW f \in BOOLEAN, Good(g, f)
  PROVE  Good(UpdateRemotes(g), TRUE) /\ UpdateRemotes(g).phase = g.phase
<1> DEFINE rs == [q \in Players |->
                    IF g.remotes[q].silent > DropAfter THEN NoShip ELSE g.remotes[q]]
<1>1. ASSUME NEW q \in Players
      PROVE  rs[q] \in Ships /\ Fading(rs[q], TRUE)
  <2>1. g.remotes[q] \in Ships /\ g.remotes[q].silent = g.remotes[q].quiet
    BY DEF Good, Games, Fading
  <2>2. CASE g.remotes[q].silent > DropAfter
    BY <2>2, NoShipFades
  <2>3. CASE ~(g.remotes[q].silent > DropAfter)
    <3>1. g.remotes[q].silent \in Nat
      BY <2>1, Naturals0 DEF Ships
    <3> QED
      BY <2>1, <2>3, <3>1, Naturals0 DEF Fading
  <2> QED
    BY <2>2, <2>3
<1>2. rs \in [Players -> Ships]
  BY <1>1
<1> HIDE DEF rs
<1>3. UpdateRemotes(g) = [g EXCEPT !.remotes = rs]
  BY DEF UpdateRemotes, rs, Good, Games
<1> QED
  BY <1>1, <1>2, <1>3 DEF Good, Games

LEMMA RespawnGood ==
  ASSUME NEW g, NEW f \in BOOLEAN, Good(g, f), g.phase = "arena"
  PROVE  Good(Respawn(g), f) /\ Respawn(g).phase = "arena"
<1>1. InvulnTime \in 0 .. InvulnTime /\ 0 \in 0 .. BulletLife
  BY Naturals0
<1>2. Respawn(g) \in Games
  BY <1>1 DEF Good, Games, Respawn
<1> QED
  BY <1>2 DEF Good, Games, Respawn

LEMMA PhaseGood ==
  ASSUME NEW g, NEW f, Good(g, f), NEW phase \in Phases, g.alive => phase = "arena"
  PROVE  Good([g EXCEPT !.phase = phase], f)
BY DEF Good, Games

LEMMA LaunchedGood ==
  ASSUME NEW g, NEW f \in BOOLEAN, Good(g, f)
  PROVE  Good(Launched(g), f) /\ Launched(g).phase = "arena"
<1>1. Good([g EXCEPT !.phase = "arena"], f) /\ [g EXCEPT !.phase = "arena"].phase = "arena"
  BY DEF Good, Games, Phases
<1> QED
  BY <1>1, RespawnGood DEF Launched

LEMMA FlyGood ==
  ASSUME NEW g, NEW f \in BOOLEAN, Good(g, f), g.phase = "arena", NEW fire \in BOOLEAN
  PROVE  Good(Fly(g, fire), f) /\ Fly(g, fire).phase = "arena"
<1>1. Good([g EXCEPT !.bullets = IF fire THEN BulletLife ELSE @], f)
  BY Naturals0 DEF Good, Games
<1>2. [g EXCEPT !.bullets = IF fire THEN BulletLife ELSE @].phase = "arena"
  BY DEF Good, Games
<1> QED
  BY <1>1, <1>2, RespawnGood DEF Fly

LEMMA DieGood ==
  ASSUME NEW g, NEW f \in BOOLEAN, Good(g, f), NEW shooter
  PROVE  Good(Die(g, shooter), f)
<1> DEFINE k == IF shooter = Nobody THEN g.kills ELSE g.kills + 1
<1>1. RespawnDelay \in 0 .. RespawnDelay /\ k \in Nat
  BY Naturals0 DEF Good, Games
<1> HIDE DEF k
<1>2. Good([g EXCEPT !.alive = FALSE, !.deadFor = RespawnDelay, !.kills = k], f)
  BY <1>1 DEF Good, Games
<1> QED
  BY <1>2 DEF Die, k

LEMMA NextSeqWraps ==
  ASSUME NEW s \in Seqs
  PROVE  NextSeq(s) \in Seqs
BY Naturals0 DEF NextSeq, Seqs

LEMMA BroadcastGood ==
  ASSUME NEW g, NEW f \in BOOLEAN, Good(g, f)
  PROVE  Good([g EXCEPT !.seq = NextSeq(@)], f)
<1>1. NextSeq(g.seq) \in Seqs
  BY NextSeqWraps DEF Good, Games
<1> QED
  BY <1>1 DEF Good, Games

LEMMA OnStateGood ==
  ASSUME NEW g, NEW f \in BOOLEAN, Good(g, f), NEW s \in StateMsgs
  PROVE  Good(OnState(g, s), f)
<1>1. Seen(s) \in Ships /\ Fading(Seen(s), f)
  BY Naturals0 DEF Seen, StateMsgs, Ships, Fading
<1> DEFINE rs == [g.remotes EXCEPT ![s.from] = Seen(s)]
<1>2. rs \in [Players -> Ships] /\ \A q \in Players : Fading(rs[q], f)
  BY <1>1 DEF Good, Games
<1> HIDE DEF rs
<1>3. Good([g EXCEPT !.remotes = rs], f)
  BY <1>2 DEF Good, Games
<1>4. [g EXCEPT !.remotes = rs] = [g EXCEPT !.remotes[s.from] = Seen(s)]
  BY DEF rs, Good, Games
<1> QED
  BY <1>3, <1>4 DEF OnState

LEMMA OnHitGood ==
  ASSUME NEW g, NEW f \in BOOLEAN, Good(g, f), NEW m \in HitMsgs
  PROVE  Good(OnHit(g, m), f)
<1>1. [g.seen EXCEPT ![m.from] = m.num] \in [Players -> Nat] /\ g.score + 1 \in Nat
  BY DEF Good, Games, HitMsgs
<1>2. Good([g EXCEPT !.seen[m.from] = m.num, !.score = @ + 1], f)
  BY <1>1 DEF Good, Games
<1> QED
  BY <1>2 DEF OnHit

LEMMA LessBound ==
  ASSUME NEW b \in Nat, NEW n \in 0 .. b
  PROVE  Less(n) \in 0 .. b
BY DEF Less

LEMMA AgedShipFades ==
  ASSUME NEW r \in Ships, Fading(r, TRUE)
  PROVE  AgedShip(r) \in Ships /\ Fading(AgedShip(r), FALSE)
<1> DEFINE n == r.silent + 1
<1>1. r.silent = r.quiet /\ n \in 0 .. DropAfter + 1
  BY Naturals0 DEF Fading, Ships
<1>2. [r EXCEPT !.silent = n, !.quiet = n] \in Ships
  BY <1>1 DEF Ships
<1> QED
  BY <1>1, <1>2, NoShipFades DEF AgedShip, Ships, Fading

LEMMA AgedGood ==
  ASSUME NEW g, Good(g, TRUE)
  PROVE  Good(Aged(g), FALSE)
<1> DEFINE rs == [q \in Players |-> AgedShip(g.remotes[q])]
<1>1. ASSUME NEW q \in Players
      PROVE  rs[q] \in Ships /\ Fading(rs[q], FALSE)
  BY AgedShipFades DEF Good, Games
<1>2. rs \in [Players -> Ships]
  BY <1>1
<1>3. /\ Less(g.deadFor) \in 0 .. RespawnDelay /\ Less(g.invuln) \in 0 .. InvulnTime
      /\ Less(g.bullets) \in 0 .. BulletLife
  BY LessBound, Naturals0 DEF Good, Games
<1>4. Aged(g) = [g EXCEPT !.deadFor = Less(g.deadFor), !.invuln = Less(g.invuln),
                          !.bullets = Less(g.bullets), !.remotes = rs]
  BY DEF Aged
<1> HIDE DEF rs
<1> QED
  BY <1>1, <1>2, <1>3, <1>4 DEF Good, Games

----------------------------------------------------------------------------
(* The steps *)

\* The games are good, and the rest is typed.
GamesGood ==
  /\ DOMAIN game = Players /\ game = [p \in Players |-> game[p]]
  /\ \A p \in Players : Good(game[p], framed[p])

LEMMA OneGame ==
  ASSUME GamesGood, NEW p \in Players, NEW g, game' = [game EXCEPT ![p] = g],
         Good(g, framed'[p]), \A q \in Players \ {p} : framed'[q] = framed[q]
  PROVE  GamesGood'
<1>1. game' = [q \in Players |-> IF q = p THEN g ELSE game[q]]
  BY DEF GamesGood
<1>2. ASSUME NEW q \in Players  PROVE Good(game'[q], framed'[q])
  BY <1>1 DEF GamesGood
<1> QED
  BY <1>1, <1>2 DEF GamesGood

LEMMA SameGames ==
  ASSUME GamesGood, game' = game, framed' = framed
  PROVE  GamesGood'
BY DEF GamesGood

LEMMA OneLink ==
  ASSUME NEW ls \in [Players -> Links], NEW p \in Players
  PROVE  /\ \A b \in BOOLEAN : [ls EXCEPT ![p].online = b] \in [Players -> Links]
         /\ \A ms \in Seq(Msgs) : [ls EXCEPT ![p].out = ms] \in [Players -> Links]
         /\ \A ms \in Seq(Msgs) : [ls EXCEPT ![p].inbox = ms] \in [Players -> Links]
         /\ [ls EXCEPT ![p].sending = NoHit] \in [Players -> Links]
<1>1. ls[p] \in Links
  OBVIOUS
<1>2. ASSUME NEW b \in BOOLEAN  PROVE [ls[p] EXCEPT !.online = b] \in Links
  BY <1>1 DEF Links
<1>3. ASSUME NEW ms \in Seq(Msgs)
      PROVE  [ls[p] EXCEPT !.out = ms] \in Links /\ [ls[p] EXCEPT !.inbox = ms] \in Links
  BY <1>1 DEF Links
<1>4. [ls[p] EXCEPT !.sending = NoHit] \in Links
  BY <1>1 DEF Links
<1> QED
  BY <1>2, <1>3, <1>4

LEMMA LinksTyped == IInv => link \in [Players -> Links]
BY DEF IInv

LEMMA FrameArenaKeeps ==
  ASSUME IInv, NEW p \in Players, NEW g, Good(g, TRUE), g.phase = "arena",
         FrameArena(p, g)
  PROVE  /\ \E h : Good(h, TRUE) /\ game' = [game EXCEPT ![p] = h]
         /\ link' \in [Players -> Links] /\ sent' \in [Players -> Nat]
<1>1. PICK fire \in BOOLEAN, struck \in BOOLEAN, shooter \in Players \cup {Nobody} :
        LET flown == Fly(g, fire)
            after == IF struck THEN Die(flown, shooter) ELSE flown
            hits == IF shooter = Nobody THEN <<>> ELSE <<Hit(p, after, shooter)>>
        IN /\ fire => g.alive /\ p \in Heard /\ shots < MaxShots
           /\ struck => Vulnerable(flown)
           /\ struck /\ shooter = Nobody => rocks < MaxRocks /\ p \notin Heard
           /\ shooter # Nobody => struck /\ g.remotes[shooter].armed
           /\ shots' = IF fire THEN shots + 1 ELSE shots
           /\ rocks' = IF struck /\ shooter = Nobody THEN rocks + 1 ELSE rocks
           /\ game' = [game EXCEPT ![p] = [after EXCEPT !.seq = NextSeq(@)]]
           /\ link' = [link EXCEPT ![p].out = @ \o hits \o <<StateMsg(p, after)>>]
           /\ sent' = [sent EXCEPT ![p] = @ + 1]
  BY DEF FrameArena
<1> DEFINE flown == Fly(g, fire)
           after == IF struck THEN Die(flown, shooter) ELSE flown
           hits == IF shooter = Nobody THEN <<>> ELSE <<Hit(p, after, shooter)>>
<1>2. Good(after, TRUE)
  BY FlyGood, DieGood
<1>3. StateMsg(p, after) \in Msgs
  BY <1>2 DEF IInv, Good, Games, StateMsg, Msgs, StateMsgs
<1>4. hits \in Seq(Msgs)
  <2>1. CASE shooter = Nobody
    BY <2>1
  <2>2. CASE shooter # Nobody
    <3>1. Hit(p, after, shooter) \in Msgs
      BY <1>2, <2>2 DEF Good, Games, Hit, Msgs, HitMsgs
    <3> QED
      BY <2>2, <3>1
  <2> QED
    BY <2>1, <2>2
<1> HIDE DEF flown, after, hits
<1>5. Good([after EXCEPT !.seq = NextSeq(@)], TRUE)
  BY <1>2, BroadcastGood
<1>6. game' = [game EXCEPT ![p] = [after EXCEPT !.seq = NextSeq(@)]]
  BY <1>1 DEF flown, after
<1>7. link' = [link EXCEPT ![p].out = link[p].out \o hits \o <<StateMsg(p, after)>>]
  BY <1>1 DEF flown, after, hits
<1>8. link[p].out \o hits \o <<StateMsg(p, after)>> \in Seq(Msgs)
  BY <1>3, <1>4 DEF IInv, Links
<1>9. link' \in [Players -> Links]
  BY <1>7, <1>8, LinksTyped, OneLink, Zenon
<1>10. sent' \in [Players -> Nat]
  BY <1>1 DEF IInv
<1> QED
  BY <1>5, <1>6, <1>9, <1>10

\* A frame drops the ships that were silent too long, so that what is left has
\* room for one more tick.
LEMMA FrameKeeps ==
  ASSUME IInv, NEW p \in Players, Frame(p)
  PROVE  IInv'
<1> DEFINE g == UpdateRemotes(game[p])
<1>0. Good(g, TRUE)
  <2>1. Good(game[p], framed[p]) /\ framed[p] \in BOOLEAN
    BY DEF IInv
  <2> QED
    BY <2>1, UpdateGood
<1> HIDE DEF g
<1>1. /\ framed' = [framed EXCEPT ![p] = TRUE]
      /\ net' = net /\ life' = life
  BY DEF Frame
<1>2. /\ \E h : Good(h, TRUE) /\ game' = [game EXCEPT ![p] = h]
      /\ link' \in [Players -> Links] /\ sent' \in [Players -> Nat]
  <2>1. CASE g.phase = "arena" /\ FrameArena(p, g)
    BY <1>0, <2>1, FrameArenaKeeps
  <2>2. CASE FrameArena(p, Launched(g))
    BY <1>0, <2>2, LaunchedGood, FrameArenaKeeps
  <2>3. CASE game' = [game EXCEPT ![p] = g] /\ link' = link /\ sent' = sent
    BY <1>0, <2>3 DEF IInv
  <2> QED
    BY <2>1, <2>2, <2>3 DEF Frame, g
<1>3. GamesGood'
  BY <1>1, <1>2, OneGame DEF IInv, GamesGood
<1> QED
  BY <1>1, <1>2, <1>3 DEF IInv, GamesGood

LEMMA LaunchKeeps ==
  ASSUME IInv, NEW p \in Players, Launch(p)
  PROVE  IInv'
<1>1. Good(Launched(game[p]), framed[p])
  BY LaunchedGood DEF IInv
<1>2. GamesGood'
  BY <1>1, OneGame DEF Launch, IInv, GamesGood
<1> QED
  BY <1>2 DEF Launch, IInv, GamesGood

LEMMA RestartKeeps ==
  ASSUME IInv, NEW p \in Players, Restart(p)
  PROVE  IInv'
<1>0. Good(NewGame, framed[p])
  BY NewGameGood DEF IInv
<1>1. GamesGood'
  BY <1>0, OneGame DEF Restart, IInv, GamesGood
<1>2. NewLink \in Links
  BY DEF NewLink, Links
<1>3. link' \in [Players -> Links]
  BY <1>2 DEF Restart, IInv
<1>4. /\ framed' = framed /\ net' \subseteq net
      /\ life' = [life EXCEPT ![p] = @ + 1] /\ sent' = [sent EXCEPT ![p] = 0]
  BY DEF Restart
<1>5. life' \in [Players -> Nat] /\ sent' \in [Players -> Nat]
  BY <1>4 DEF IInv
<1> QED
  BY <1>1, <1>3, <1>4, <1>5 DEF IInv, GamesGood

LEMMA ReadyKeeps ==
  ASSUME IInv, NEW p \in Players, Ready(p)
  PROVE  IInv'
<1> DEFINE phase == IF game[p].phase = "connecting" THEN "lobby" ELSE game[p].phase
<1>1. Good([game[p] EXCEPT !.phase = phase], framed[p])
  <2>1. Good(game[p], framed[p])
    BY DEF IInv
  <2> QED
    BY <2>1, PhaseGood DEF Good, Games, Phases
<1>2. game' = [game EXCEPT ![p] = [game[p] EXCEPT !.phase = phase]]
  BY DEF Ready
<1> HIDE DEF phase
<1>3. GamesGood'
  BY <1>1, <1>2, OneGame DEF Ready, IInv, GamesGood
<1>4. link' \in [Players -> Links]
  BY LinksTyped, OneLink, Zenon DEF Ready
<1> QED
  BY <1>3, <1>4 DEF Ready, IInv, GamesGood

LEMMA OutKeeps ==
  ASSUME IInv, NEW p \in Players, Out(p)
  PROVE  IInv'
<1> DEFINE m == Head(link[p].out)
<1>1. link[p] \in Links /\ m \in Msgs /\ Tail(link[p].out) \in Seq(Msgs)
  BY HeadTailProperties DEF IInv, Links, Out
<1> HIDE DEF m
<1>2. GamesGood'
  BY SameGames DEF Out, IInv, GamesGood
<1>3. CASE /\ m.kind = "hit" /\ net' = net
           /\ link' = [link EXCEPT ![p] = [link[p] EXCEPT !.out = Tail(@), !.sending = m]]
  <2>1. m \in HitMsgs
    BY <1>1, <1>3 DEF Msgs, StateMsgs
  <2>2. link' \in [Players -> Links]
    BY <1>1, <1>3, <2>1 DEF IInv, Links
  <2> QED
    BY <1>2, <1>3, <2>2 DEF Out, IInv, GamesGood
<1>4. CASE /\ m.kind # "hit" /\ net' = net \cup Copies(p, m)
           /\ link' = [link EXCEPT ![p] = [link[p] EXCEPT !.out = Tail(@)]]
  <2>1. m \in StateMsgs
    BY <1>1, <1>4 DEF Msgs, HitMsgs
  <2>2. Copies(p, m) \subseteq Datagrams
    BY <2>1 DEF Copies, Datagrams
  <2>3. link' \in [Players -> Links]
    BY <1>1, <1>4 DEF IInv, Links
  <2> QED
    BY <1>2, <1>4, <2>2, <2>3 DEF Out, IInv, GamesGood
<1> QED
  BY <1>3, <1>4 DEF Out, m

LEMMA HitSentKeeps ==
  ASSUME IInv, NEW p \in Players, HitSent(p)
  PROVE  IInv'
<1> DEFINE m == link[p].sending
           done == [link EXCEPT ![p] = [link[p] EXCEPT !.sending = NoHit]]
           box == IF link[m.to].online THEN Append(done[m.to].inbox, m) ELSE done[m.to].inbox
<1>1. m \in HitMsgs /\ m.to \in Players
  BY DEF IInv, Links, HitSent, HitMsgs
<1>2. done \in [Players -> Links]
  BY LinksTyped, OneLink, Zenon
<1>3. box \in Seq(Msgs)
  BY <1>1, <1>2 DEF Links, Msgs
<1>4. link' = [done EXCEPT ![m.to] = [done[m.to] EXCEPT !.inbox = box]]
  BY DEF HitSent
<1> HIDE DEF done, box, m
<1>5. link' \in [Players -> Links]
  BY <1>1, <1>2, <1>3, <1>4 DEF Links
<1>6. GamesGood'
  BY SameGames DEF HitSent, IInv, GamesGood
<1> QED
  BY <1>5, <1>6 DEF HitSent, IInv, GamesGood

LEMMA HitFailsKeeps ==
  ASSUME IInv, NEW p \in Players, HitFails(p)
  PROVE  IInv'
<1>1. link' \in [Players -> Links]
  BY LinksTyped, OneLink, Zenon DEF HitFails
<1>2. GamesGood'
  BY SameGames DEF HitFails, IInv, GamesGood
<1> QED
  BY <1>1, <1>2 DEF HitFails, IInv, GamesGood

LEMMA ArriveKeeps ==
  ASSUME IInv, NEW d \in net, Arrive(d)
  PROVE  IInv'
<1>1. d.to \in Players /\ d.state \in Msgs
  BY DEF IInv, Datagrams, Msgs
<1>2. Append(link[d.to].inbox, d.state) \in Seq(Msgs)
  BY <1>1 DEF IInv, Links
<1>3. link' \in [Players -> Links]
  <2>1. link' = [link EXCEPT ![d.to].inbox = Append(link[d.to].inbox, d.state)]
    BY DEF Arrive
  <2> QED
    BY <1>1, <1>2, <2>1, LinksTyped, OneLink, Zenon
<1>4. GamesGood'
  BY SameGames DEF Arrive, IInv, GamesGood
<1> QED
  BY <1>3, <1>4 DEF Arrive, IInv, GamesGood

LEMMA ReceiveKeeps ==
  ASSUME IInv, NEW p \in Players, Receive(p)
  PROVE  IInv'
<1> DEFINE m == Head(link[p].inbox)
<1>1. link[p] \in Links /\ m \in Msgs /\ Tail(link[p].inbox) \in Seq(Msgs)
  BY HeadTailProperties DEF IInv, Links, Receive
<1>2. \/ m.kind = "state" /\ game' = [game EXCEPT ![p] = OnState(game[p], m)]
      \/ m.kind # "state" /\ game' = [game EXCEPT ![p] = OnHit(game[p], m)]
  BY DEF Receive
<1>3. link' = [link EXCEPT ![p] = [link[p] EXCEPT !.inbox = Tail(@)]]
  BY DEF Receive
<1> HIDE DEF m
<1>4. \E h : Good(h, framed[p]) /\ game' = [game EXCEPT ![p] = h]
  <2>1. Good(game[p], framed[p]) /\ framed[p] \in BOOLEAN
    BY DEF IInv
  <2>2. CASE m.kind = "state"
    <3>1. m \in StateMsgs
      BY <1>1, <2>2 DEF Msgs, HitMsgs
    <3> QED
      BY <1>2, <2>1, <2>2, <3>1, OnStateGood
  <2>3. CASE m.kind # "state"
    <3>1. m \in HitMsgs
      BY <1>1, <2>3 DEF Msgs, StateMsgs
    <3> QED
      BY <1>2, <2>1, <2>3, <3>1, OnHitGood
  <2> QED
    BY <2>2, <2>3
<1>5. GamesGood'
  BY <1>4, OneGame DEF Receive, IInv, GamesGood
<1>6. link' \in [Players -> Links]
  BY <1>1, <1>3 DEF IInv, Links
<1> QED
  BY <1>5, <1>6 DEF Receive, IInv, GamesGood

\* Time passes when every player has framed: no ship is silent too long before,
\* so none is silent for more than a tick too long after.
LEMMA TickKeeps ==
  ASSUME IInv, Tick
  PROVE  IInv'
<1>1. ASSUME NEW p \in Players  PROVE Good(Aged(game[p]), FALSE)
  <2>1. Good(game[p], TRUE)
    BY DEF IInv, Tick
  <2> QED
    BY <2>1, AgedGood
<1>2. GamesGood'
  <2>1. game' = [p \in Players |-> Aged(game[p])] /\ framed' = [p \in Players |-> FALSE]
    BY DEF Tick
  <2> QED
    BY <1>1, <2>1 DEF GamesGood
<1>3. net' \subseteq Datagrams
  <2>1. ASSUME NEW d \in net  PROVE [d EXCEPT !.age = @ + 1] \in Datagrams
    BY DEF IInv, Datagrams
  <2> QED
    BY <2>1 DEF Tick
<1> QED
  BY <1>2, <1>3 DEF Tick, IInv, GamesGood

LEMMA Invariant == Spec => []IInv
<1>1. Init => IInv
  <2> SUFFICES ASSUME Init  PROVE IInv
    OBVIOUS
  <2>1. NewLink \in Links
    BY DEF NewLink, Links
  <2>2. Good(NewGame, FALSE)
    BY NewGameGood
  <2> QED
    BY <2>1, <2>2 DEF Init, IInv
<1>2. IInv /\ [Next]_vars => IInv'
  <2> SUFFICES ASSUME IInv, [Next]_vars  PROVE IInv'
    OBVIOUS
  <2>1. CASE Tick
    BY <2>1, TickKeeps
  <2>2. ASSUME NEW d \in net, Arrive(d)  PROVE IInv'
    BY <2>2, ArriveKeeps
  <2>3. ASSUME NEW p \in Players, Out(p) \/ Receive(p)  PROVE IInv'
    BY <2>3, OutKeeps, ReceiveKeeps
  <2>4. ASSUME NEW p \in Players, Frame(p) \/ Launch(p) \/ Restart(p)  PROVE IInv'
    BY <2>4, FrameKeeps, LaunchKeeps, RestartKeeps
  <2>5. ASSUME NEW p \in Players, Ready(p) \/ HitSent(p) \/ HitFails(p)  PROVE IInv'
    BY <2>5, ReadyKeeps, HitSentKeeps, HitFailsKeeps
  <2>6. CASE UNCHANGED vars
    BY <2>6 DEF vars, IInv
  <2> QED
    BY <2>1, <2>2, <2>3, <2>4, <2>5, <2>6 DEF Next
<1> QED
  BY <1>1, <1>2, PTL DEF Spec

\* Every reachable state of the games is well typed, with its durations and
\* sequence numbers in their ranges, and no ship lives outside the arena.
THEOREM TypeCorrect == Spec => []TypeOK
<1>1. IInv => TypeOK
  <2> SUFFICES ASSUME IInv, NEW p \in Players
               PROVE  /\ game[p].phase \in {"connecting", "lobby", "arena"}
                      /\ game[p].alive \in BOOLEAN
                      /\ game[p].seq \in 0 .. SeqSpace - 1
                      /\ game[p].deadFor \in 0 .. RespawnDelay
                      /\ game[p].invuln \in 0 .. InvulnTime
                      /\ game[p].bullets \in 0 .. BulletLife
                      /\ game[p].score \in Nat /\ game[p].kills \in Nat
                      /\ \A q \in Players : game[p].remotes[q].silent \in 0 .. DropAfter + 1
                      /\ game[p].alive => game[p].phase = "arena"
    BY DEF TypeOK
  <2> QED
    BY DEF IInv, Good, Games, Ships, Phases, Seqs
<1> QED
  BY <1>1, Invariant, PTL

\* A ship of which nothing new was received is gone after DropAfter and a
\* frame, however many states of a later life are refused meanwhile.
THEOREM GhostsAreGone == Spec => []GhostsFade
<1>1. IInv => GhostsFade
  BY Naturals0 DEF IInv, Good, Games, Ships, GhostsFade
<1> QED
  BY <1>1, Invariant, PTL

----------------------------------------------------------------------------
(* The numbers of the hits *)

\* Message m is a hit of player q.
HitOf(m, q) == m.kind = "hit" /\ m.from = q

\* The hits that wait in the queue of a network loop k, and the numbers of all
\* that it has to send, with the one under way.
Hits(k) == {i \in 1 .. Len(k.out) : k.out[i].kind = "hit"}
Pending(k) == {k.out[i].num : i \in Hits(k)} \cup {m.num : m \in {k.sending} \ {NoHit}}

\* They are the last hits of q, who was struck so many times, in their order.
Numbered(k, q, kills) ==
  /\ \A i \in Hits(k) : k.out[i].from = q
  /\ \A i, j \in Hits(k) : i < j => k.out[i].num < k.out[j].num
  /\ k.sending # NoHit => /\ k.sending.from = q
                          /\ \A i \in Hits(k) : k.sending.num < k.out[i].num
  /\ \A n \in Pending(k) : 0 < n /\ n <= kills

\* The hit numbered n in life l is before the hit numbered k in life j.
Before(l, n, j, k) == l < j \/ (l = j /\ n < k)

\* It was sent by q, before all that q has still to send.
Past(q, l, n) ==
  /\ 0 < l /\ l <= life[q]
  /\ l = life[q] => n <= game[q].kills /\ \A k \in Pending(link[q]) : n < k

\* The life l of q that p last heard a hit of, and those that it has hits of in
\* its inbox: the hits come in the order in which q sent them, and p ignored one
\* at most for each life but the first.
InOrder(p, q, l, lives) ==
  LET seen == game[p].seen[q]
      box == link[p].inbox
  IN
  /\ Past(q, l, seen) /\ ignored[p][q] < l
  /\ \A i \in 1 .. Len(box) : HitOf(box[i], q) =>
       Past(q, lives[i], box[i].num) /\ Before(l, seen, lives[i], box[i].num)
  /\ \A i, j \in 1 .. Len(box) : i < j /\ HitOf(box[i], q) /\ HitOf(box[j], q) =>
       Before(lives[i], box[i].num, lives[j], box[j].num)

Ordered(p, q) ==
  \E l \in Nat : \E lives \in [1 .. Len(link[p].inbox) -> Nat] : InOrder(p, q, l, lives)

AllNumbered ==
  /\ ignored \in [Players -> [Players -> Nat]]
  /\ \A q \in Players : life[q] > 0 /\ Numbered(link[q], q, game[q].kills)

KillInv == AllNumbered /\ \A p, q \in Players : Ordered(p, q)

----------------------------------------------------------------------------
(* What is to be sent *)

\* The types of what is read.
LEMMA LinkParts ==
  ASSUME NEW k \in Links
  PROVE  /\ k.out \in Seq(Msgs) /\ k.inbox \in Seq(Msgs) /\ Hits(k) \subseteq 1 .. Len(k.out)
         /\ \A i \in 1 .. Len(k.out) : k.out[i] \in Msgs
         /\ \A i \in 1 .. Len(k.inbox) : k.inbox[i] \in Msgs
         /\ \A i \in Hits(k) : k.out[i].num \in Nat
         /\ k.sending # NoHit => k.sending \in HitMsgs /\ k.sending.num \in Nat
         /\ Pending(k) \subseteq Nat
<1>1. k.out \in Seq(Msgs) /\ k.inbox \in Seq(Msgs) /\ k.sending \in HitMsgs \cup {NoHit}
  BY DEF Links
<1>2. \A i \in 1 .. Len(k.out) : k.out[i] \in Msgs
  BY <1>1
<1>3. \A i \in 1 .. Len(k.inbox) : k.inbox[i] \in Msgs
  BY <1>1
<1>4. \A m \in Msgs : m.kind = "hit" => m.num \in Nat
  BY DEF Msgs, StateMsgs, HitMsgs
<1>5. \A i \in Hits(k) : k.out[i].num \in Nat
  BY <1>2, <1>4 DEF Hits
<1>6. k.sending # NoHit => k.sending \in HitMsgs /\ k.sending.num \in Nat
  BY <1>1 DEF HitMsgs
<1> QED
  BY <1>1, <1>2, <1>3, <1>5, <1>6 DEF Pending, Hits

\* What waits may be dropped when it was begun, and the count grows.
LEMMA NumberedKept ==
  ASSUME NEW k \in Links, NEW j, NEW q, NEW a \in Nat, NEW b \in Nat, a <= b,
         Numbered(k, q, a), j.out = k.out, j.sending \in {k.sending, NoHit}
  PROVE  Numbered(j, q, b) /\ Pending(j) \subseteq Pending(k)
<1>1. Hits(j) = Hits(k)
  BY DEF Hits
<1>2. Pending(j) \subseteq Pending(k)
  BY <1>1 DEF Pending
<1>3. \A n \in Pending(k) : n \in Nat
  BY LinkParts
<1>4. \A n \in Pending(j) : 0 < n /\ n <= b
  BY <1>2, <1>3 DEF Numbered
<1> QED
  BY <1>1, <1>2, <1>4 DEF Numbered

\* The first message of the queue is taken from it; a hit is begun.
LEMMA NumberedOut ==
  ASSUME NEW k \in Links, NEW j, NEW q, NEW a, Numbered(k, q, a), k.out # <<>>, k.sending = NoHit,
         j.out = Tail(k.out), j.sending = IF Head(k.out).kind = "hit" THEN Head(k.out) ELSE NoHit
  PROVE  Numbered(j, q, a) /\ Pending(j) \subseteq Pending(k)
<1>1. PICK n \in Nat : n + 1 = Len(k.out) /\ Len(j.out) = n
  <2>1. k.out \in Seq(Msgs)
    BY LinkParts
  <2>2. Len(k.out) \in Nat \ {0} /\ Len(Tail(k.out)) = Len(k.out) - 1
    BY <2>1, EmptySeq, HeadTailProperties
  <2>3. PICK l \in Nat \ {0} : l = Len(k.out)
    BY <2>2
  <2>4. l - 1 \in Nat /\ l - 1 + 1 = l
    BY <2>3
  <2> QED
    BY <2>2, <2>3, <2>4
<1>2. \A i \in 1 .. n : i + 1 \in 1 .. Len(k.out) /\ j.out[i] = k.out[i + 1]
  BY <1>1, LinkParts, HeadTailProperties
<1>3. k.out[1] = Head(k.out) /\ 1 \in 1 .. Len(k.out)
  BY <1>1, LinkParts
<1>4. \A i \in Hits(j) : i + 1 \in Hits(k) /\ j.out[i] = k.out[i + 1] /\ i \in Nat
  BY <1>1, <1>2 DEF Hits
<1>5. ASSUME NEW i \in Hits(j), NEW l \in Hits(j), i < l
      PROVE  j.out[i].num < j.out[l].num
  <2>1. i + 1 \in Hits(k) /\ l + 1 \in Hits(k) /\ i + 1 < l + 1
    BY <1>4, <1>5
  <2> QED
    BY <1>4, <2>1 DEF Numbered
<1>6. CASE Head(k.out).kind = "hit"
  <2>1. 1 \in Hits(k) /\ j.sending = k.out[1]
    BY <1>3, <1>6 DEF Hits
  <2>2. \A i \in Hits(j) : 1 < i + 1
    BY <1>1 DEF Hits
  <2>3. Pending(j) \subseteq Pending(k)
    <3>1. ASSUME NEW i \in Hits(j)  PROVE j.out[i].num \in Pending(k)
      BY <1>4 DEF Pending
    <3>2. j.sending.num \in Pending(k)
      BY <2>1 DEF Pending
    <3> QED
      BY <3>1, <3>2 DEF Pending
  <2>4. \A i \in Hits(j) : j.sending.num < j.out[i].num
    BY <1>4, <2>1, <2>2 DEF Numbered
  <2>5. j.sending.from = q
    BY <2>1 DEF Numbered
  <2> QED
    BY <1>4, <1>5, <2>3, <2>4, <2>5 DEF Numbered
<1>7. CASE Head(k.out).kind # "hit"
  <2>1. Pending(j) \subseteq Pending(k)
    BY <1>4, <1>7 DEF Pending
  <2> QED
    BY <1>4, <1>7, <1>5, <2>1 DEF Numbered
<1> QED
  BY <1>6, <1>7

\* A message is queued; a hit has the next number.
LEMMA NumberedMore ==
  ASSUME NEW k \in Links, NEW j, NEW q, NEW a \in Nat, NEW b \in Nat, a <= b, Numbered(k, q, a),
         NEW m \in Msgs, j.out = Append(k.out, m), j.sending = k.sending,
         m.kind = "hit" => m.from = q /\ a < m.num /\ m.num = b
  PROVE  Numbered(j, q, b) /\ \A x \in Pending(j) : x \in Pending(k) \/ x > a
<1>1. PICK n \in Nat : n = Len(k.out)
  BY LinkParts
<1>2. Len(j.out) = n + 1 /\ j.out[n + 1] = m /\ \A i \in 1 .. n : j.out[i] = k.out[i]
  BY <1>1, LinkParts
<1>3. \A i \in Hits(j) : (i \in Hits(k) /\ j.out[i] = k.out[i] /\ i <= n) \/ (i = n + 1 /\ m.kind = "hit")
  BY <1>1, <1>2 DEF Hits
<1>4. \A i \in Hits(k) : k.out[i].num \in Nat /\ k.out[i].num \in Pending(k) /\ k.out[i].num <= a /\ k.out[i].from = q
  BY LinkParts DEF Numbered, Pending
<1>5. \A x \in Pending(k) : x \in Nat /\ 0 < x /\ x <= a
  BY LinkParts DEF Numbered
<1>6. \A x \in Pending(j) : x \in Pending(k) \/ (x = m.num /\ m.kind = "hit")
  BY <1>2, <1>3 DEF Pending
<1>7. \A i, l \in Hits(j) : i < l => j.out[i].num < j.out[l].num
  <2>1. ASSUME NEW i \in Hits(j), NEW l \in Hits(j), i < l
        PROVE  j.out[i].num < j.out[l].num
    <3>1. i \in Hits(k) /\ j.out[i] = k.out[i]
      BY <1>1, <1>2, <1>3, <2>1 DEF Hits
    <3>2. CASE l \in Hits(k) /\ j.out[l] = k.out[l]
      BY <2>1, <3>1, <3>2 DEF Numbered
    <3>3. CASE l = n + 1 /\ m.kind = "hit"
      BY <1>2, <1>4, <3>1, <3>3
    <3> QED
      BY <1>3, <3>2, <3>3
  <2> QED
    BY <2>1
<1>8. j.sending # NoHit => /\ j.sending.from = q
                           /\ \A i \in Hits(j) : j.sending.num < j.out[i].num
  <2>1. ASSUME k.sending # NoHit, NEW i \in Hits(j)
        PROVE  k.sending.num < j.out[i].num
    <3>1. k.sending.num \in Pending(k) /\ k.sending.num \in Nat /\ k.sending.num <= a
      BY <1>5, <2>1 DEF Pending
    <3>2. CASE i \in Hits(k) /\ j.out[i] = k.out[i]
      BY <2>1, <3>2 DEF Numbered
    <3>3. CASE i = n + 1 /\ m.kind = "hit"
      BY <1>2, <3>1, <3>3
    <3> QED
      BY <1>3, <3>2, <3>3
  <2> QED
    BY <2>1 DEF Numbered
<1>9. \A x \in Pending(j) : 0 < x /\ x <= b
  BY <1>5, <1>6
<1>10. \A i \in Hits(j) : j.out[i].from = q
  BY <1>2, <1>3, <1>4
<1> QED
  BY <1>5, <1>6, <1>7, <1>8, <1>9, <1>10 DEF Numbered

----------------------------------------------------------------------------
(* The order in which hits come *)

\* Player q sends no number again: all that it has to send it had to send, or
\* is of a death since; or it has started over.
Goes(q) ==
  \/ /\ life'[q] = life[q] /\ game[q].kills <= game'[q].kills
     /\ \A n \in Pending(link'[q]) : n \in Pending(link[q]) \/ n > game[q].kills
  \/ life'[q] = life[q] + 1

\* The types that the order is about.
LEMMA OrderParts ==
  ASSUME IInv, AllNumbered, NEW p \in Players
  PROVE  /\ game[p] \in Games /\ game[p].kills \in Nat /\ game[p].seen \in [Players -> Nat]
         /\ link[p] \in Links /\ life[p] \in Nat \ {0}
         /\ \A q \in Players : ignored[p][q] \in Nat
         /\ Pending(link[p]) \subseteq Nat
<1>1. game[p] \in Games /\ link[p] \in Links /\ life[p] \in Nat \ {0} /\ ignored[p] \in [Players -> Nat]
  BY DEF IInv, Good, AllNumbered
<1>2. Pending(link[p]) \subseteq Nat
  BY <1>1, LinkParts
<1> QED
  BY <1>1, <1>2 DEF Games

LEMMA PastStays ==
  ASSUME IInv, AllNumbered, IInv', NEW q \in Players, Goes(q), NEW l \in Nat, NEW n \in Nat, Past(q, l, n)
  PROVE  Past(q, l, n)'
<1>1. game[q].kills \in Nat /\ life[q] \in Nat
  BY OrderParts
<1>2. CASE life'[q] = life[q] + 1
  BY <1>1, <1>2 DEF Past
<1>3. CASE /\ life'[q] = life[q] /\ game[q].kills <= game'[q].kills
           /\ \A k \in Pending(link'[q]) : k \in Pending(link[q]) \/ k > game[q].kills
  <2>1. game'[q].kills \in Nat /\ Pending(link'[q]) \subseteq Nat
    <3>1. link'[q] \in Links /\ game'[q] \in Games
      BY DEF IInv, Good
    <3> QED
      BY <3>1, LinkParts DEF Games
  <2> QED
    BY <1>1, <1>3, <2>1 DEF Past
<1> QED
  BY <1>2, <1>3 DEF Goes

\* The parts of Ordered, for p's view of q.
Reading(p, q, l, seen, n, box, lives) ==
  /\ seen = game[p].seen[q] /\ box = link[p].inbox /\ n = Len(box)
  /\ Past(q, l, seen) /\ ignored[p][q] < l
  /\ \A i \in 1 .. n : HitOf(box[i], q) => box[i] \in HitMsgs /\ box[i].num \in Nat
  /\ \A i \in 1 .. n : HitOf(box[i], q) =>
       Past(q, lives[i], box[i].num) /\ Before(l, seen, lives[i], box[i].num)
  /\ \A i, j \in 1 .. n : i < j /\ HitOf(box[i], q) /\ HitOf(box[j], q) =>
       Before(lives[i], box[i].num, lives[j], box[j].num)

LEMMA OrderedParts ==
  ASSUME IInv, AllNumbered, NEW p \in Players, NEW q \in Players, Ordered(p, q)
  PROVE  \E l \in Nat, seen \in Nat, n \in Nat, box \in Seq(Msgs), lives \in [1 .. Len(link[p].inbox) -> Nat] :
           Reading(p, q, l, seen, n, box, lives)
<1>1. PICK l \in Nat, lives \in [1 .. Len(link[p].inbox) -> Nat] : InOrder(p, q, l, lives)
  BY DEF Ordered
<1>2. PICK seen \in Nat, box \in Seq(Msgs) : seen = game[p].seen[q] /\ box = link[p].inbox
  BY OrderParts, LinkParts
<1>3. PICK n \in Nat : n = Len(box)
  BY <1>2
<1>4. \A i \in 1 .. n : HitOf(box[i], q) => box[i] \in HitMsgs /\ box[i].num \in Nat
  <2>1. \A m \in Msgs : m.kind = "hit" => m \in HitMsgs /\ m.num \in Nat
    BY DEF Msgs, StateMsgs, HitMsgs
  <2> QED
    BY <1>2, <1>3, <2>1 DEF HitOf
<1> QED
  BY <1>1, <1>2, <1>3, <1>4 DEF InOrder, Reading

\* p has read nothing and been sent nothing.
LEMMA OrderedSame ==
  ASSUME IInv, AllNumbered, IInv', NEW p \in Players, NEW q \in Players, Ordered(p, q), Goes(q),
         link'[p].inbox = link[p].inbox, game'[p].seen[q] = game[p].seen[q],
         ignored'[p][q] = ignored[p][q]
  PROVE  Ordered(p, q)'
<1>1. PICK l \in Nat, seen \in Nat, n \in Nat, box \in Seq(Msgs), lives \in [1 .. Len(link[p].inbox) -> Nat] :
        Reading(p, q, l, seen, n, box, lives)
  BY OrderedParts
<1> USE DEF Reading
<1>2. PICK k : k = lives
  OBVIOUS
<1>3. ASSUME NEW i \in 1 .. n, HitOf(box[i], q)
      PROVE  Past(q, k[i], box[i].num)'
  <2>1. PICK a \in Nat, b \in Nat : a = k[i] /\ b = box[i].num
    BY <1>1, <1>2, <1>3
  <2>2. Past(q, a, b)'
    BY <1>1, <1>2, <1>3, <2>1, PastStays
  <2> QED
    BY <2>1, <2>2 DEF Past
<1>4. Past(q, l, seen)'
  BY <1>1, PastStays
<1>5. InOrder(p, q, l, k)'
  BY <1>1, <1>2, <1>3, <1>4 DEF InOrder, Past
<1> QED
  BY <1>1, <1>2, <1>5 DEF Ordered

\* p has started over, and has heard nothing.
LEMMA OrderedFresh ==
  ASSUME IInv', AllNumbered', NEW p \in Players, NEW q \in Players,
         link'[p].inbox = <<>>, game'[p].seen[q] = 0, ignored'[p][q] = 0
  PROVE  Ordered(p, q)'
<1>1. Len(link'[p].inbox) = 0
  BY EmptySeq
<1>2. PICK k \in [1 .. Len(link'[p].inbox) -> Nat] : TRUE
  <2>1. [i \in 1 .. Len(link'[p].inbox) |-> 0] \in [1 .. Len(link'[p].inbox) -> Nat]
    OBVIOUS
  <2> QED
    BY <2>1
<1>3. game'[q].kills \in Nat /\ life'[q] \in Nat \ {0}
  BY DEF IInv, Good, Games, AllNumbered
<1>4. Past(q, 1, 0)'
  BY <1>3 DEF Past, AllNumbered, Numbered
<1>5. InOrder(p, q, 1, k)'
  BY <1>1, <1>4 DEF InOrder, Past
<1> QED
  BY <1>5 DEF Ordered

\* A hit that q had to send, and has no more.
Handed(q, m) ==
  /\ life'[q] = life[q] /\ m.num \in Pending(link[q])
  /\ m.num <= game'[q].kills /\ \A k \in Pending(link'[q]) : m.num < k

\* p is sent a message.
LEMMA OrderedMore ==
  ASSUME IInv, AllNumbered, IInv', NEW p \in Players, NEW q \in Players, Ordered(p, q), Goes(q),
         NEW m \in Msgs, link'[p].inbox = Append(link[p].inbox, m),
         game'[p].seen[q] = game[p].seen[q], ignored'[p][q] = ignored[p][q],
         HitOf(m, q) => Handed(q, m)
  PROVE  Ordered(p, q)'
<1>1. PICK l \in Nat, seen \in Nat, n \in Nat, box \in Seq(Msgs), lives \in [1 .. Len(link[p].inbox) -> Nat] :
        Reading(p, q, l, seen, n, box, lives)
  BY OrderedParts
<1> USE DEF Reading
<1>2. PICK y \in Nat \ {0} : y = life[q]
  BY OrderParts
<1>3. PICK more \in Seq(Msgs) : more = link'[p].inbox /\ Len(more) = n + 1 /\ more[n + 1] = m
                                /\ \A i \in 1 .. n : more[i] = box[i]
  <2>1. Append(box, m) \in Seq(Msgs) /\ Len(Append(box, m)) = n + 1
    BY <1>1
  <2>2. Append(box, m)[n + 1] = m /\ \A i \in 1 .. n : Append(box, m)[i] = box[i]
    BY <1>1
  <2> QED
    BY <1>1, <2>1, <2>2
<1>4. PICK k \in [1 .. n + 1 -> Nat] : k[n + 1] = y /\ \A i \in 1 .. n : k[i] = lives[i]
  <2> DEFINE f == [i \in 1 .. n + 1 |-> IF i = n + 1 THEN y ELSE lives[i]]
  <2>0. n \in Nat /\ n + 1 \in 1 .. n + 1 /\ \A i \in 1 .. n : i \in 1 .. n + 1 /\ i # n + 1
    BY <1>1
  <2>1. f \in [1 .. n + 1 -> Nat]
    <3>1. \A i \in 1 .. n + 1 : i = n + 1 \/ i \in 1 .. Len(link[p].inbox)
      BY <1>1, <2>0
    <3> QED
      BY <1>1, <3>1
  <2>2. f[n + 1] = y
    BY <2>0
  <2>3. \A i \in 1 .. n : f[i] = lives[i]
    BY <2>0
  <2> HIDE DEF f
  <2> QED
    BY <2>1, <2>2, <2>3
<1>5. \A a \in Nat, b \in Nat : Past(q, a, b) => Past(q, a, b)'
  BY PastStays
<1>6. HitOf(m, q) => m.num \in Nat /\ m.num \in Pending(link[q])
  BY OrderParts DEF Handed
<1>7. \A a \in Nat, b \in Nat : HitOf(m, q) /\ Past(q, a, b) => Before(a, b, y, m.num)
  BY <1>2, <1>6 DEF Past, Before
<1>8. HitOf(m, q) => Past(q, y, m.num)'
  <2>1. ASSUME HitOf(m, q)
        PROVE  0 < y /\ y = life'[q] /\ m.num <= game'[q].kills /\ \A x \in Pending(link'[q]) : m.num < x
    BY <1>2, <2>1 DEF Handed
  <2>2. PICK d : d = m.num
    OBVIOUS
  <2>3. HitOf(m, q) => Past(q, y, d)'
    BY <2>1, <2>2 DEF Past
  <2> QED
    BY <2>2, <2>3
<1>9. ASSUME NEW i \in 1 .. n + 1, HitOf(more[i], q)
      PROVE  Past(q, k[i], more[i].num)' /\ Before(l, seen, k[i], more[i].num)
  <2>1. CASE i = n + 1
    BY <1>1, <1>3, <1>4, <1>7, <1>8, <1>9, <2>1
  <2>2. CASE i \in 1 .. n
    <3>1. PICK a \in Nat, b \in Nat : a = k[i] /\ b = more[i].num
      BY <1>1, <1>3, <1>4, <1>9, <2>2
    <3>2. Past(q, a, b) /\ Before(l, seen, a, b)
      BY <1>1, <1>3, <1>4, <1>9, <2>2, <3>1
    <3> QED
      BY <1>5, <3>1, <3>2
  <2> QED
    BY <2>1, <2>2
<1>10. ASSUME NEW i \in 1 .. n + 1, NEW j \in 1 .. n + 1, i < j, HitOf(more[i], q), HitOf(more[j], q)
       PROVE  Before(k[i], more[i].num, k[j], more[j].num)
  <2>1. i \in 1 .. n /\ more[i] = box[i] /\ k[i] = lives[i]
    BY <1>3, <1>4, <1>10
  <2>2. CASE j = n + 1
    <3>1. HitOf(m, q) /\ more[j] = m /\ k[j] = y
      BY <1>3, <1>4, <1>10, <2>2
    <3>2. box[i].num \in Nat /\ lives[i] \in Nat /\ Past(q, lives[i], box[i].num)
      BY <1>1, <1>10, <2>1
    <3> QED
      BY <1>7, <2>1, <3>1, <3>2
  <2>3. CASE j \in 1 .. n
    BY <1>1, <1>3, <1>4, <1>10, <2>1, <2>3
  <2> QED
    BY <2>2, <2>3
<1>11. Past(q, l, seen)'
  BY <1>1, <1>5
<1>12. InOrder(p, q, l, k)'
  BY <1>1, <1>3, <1>9, <1>10, <1>11 DEF InOrder, Past
<1> QED
  BY <1>1, <1>3, <1>4, <1>12 DEF Ordered

\* p reads a message; a hit of q that it ignores has the number of the last one,
\* and so is of a later life.
LEMMA OrderedNext ==
  ASSUME IInv, AllNumbered, IInv', NEW p \in Players, NEW q \in Players, Ordered(p, q), Goes(q),
         NEW m, m = Head(link[p].inbox), link[p].inbox # <<>>, link'[p].inbox = Tail(link[p].inbox),
         ~HitOf(m, q) => game'[p].seen[q] = game[p].seen[q] /\ ignored'[p][q] = ignored[p][q],
         HitOf(m, q) =>
           /\ game'[p].seen[q] = m.num
           /\ \/ ignored'[p][q] = ignored[p][q]
              \/ ignored'[p][q] = ignored[p][q] + 1 /\ game[p].seen[q] = m.num
  PROVE  Ordered(p, q)'
<1>1. PICK l \in Nat, seen \in Nat, n \in Nat, box \in Seq(Msgs), lives \in [1 .. Len(link[p].inbox) -> Nat] :
        Reading(p, q, l, seen, n, box, lives)
  BY OrderedParts
<1> USE DEF Reading
<1>2. PICK k \in Nat : k + 1 = n
  <2>1. n \in Nat \ {0}
    BY <1>1, EmptySeq
  <2>2. n - 1 \in Nat /\ n - 1 + 1 = n
    BY <2>1
  <2> QED
    BY <2>2
<1>3. PICK rest \in Seq(Msgs) : rest = link'[p].inbox /\ Len(rest) = k /\ \A i \in 1 .. k : rest[i] = box[i + 1]
  <2>1. Tail(box) \in Seq(Msgs) /\ Len(Tail(box)) = n - 1 /\ \A i \in 1 .. Len(Tail(box)) : Tail(box)[i] = box[i + 1]
    BY <1>1, HeadTailProperties
  <2>2. Len(Tail(box)) = k
    BY <1>1, <1>2, <2>1
  <2> QED
    BY <1>1, <2>1, <2>2
<1>4. m = box[1] /\ 1 \in 1 .. n
  BY <1>1, <1>2
<1>5. PICK f \in [1 .. k -> Nat] : \A i \in 1 .. k : f[i] = lives[i + 1]
  <2>0. \A i \in 1 .. k : lives[i + 1] \in Nat
    <3>1. \A i \in 1 .. k : i + 1 \in 1 .. Len(link[p].inbox)
      BY <1>1, <1>2
    <3> QED
      BY <3>1
  <2>1. [i \in 1 .. k |-> lives[i + 1]] \in [1 .. k -> Nat]
    BY <2>0
  <2> QED
    BY <2>1
<1>6. \A a \in Nat, b \in Nat : Past(q, a, b) => Past(q, a, b)'
  BY PastStays
<1>7. \A i \in 1 .. k : i + 1 \in 1 .. n /\ 1 < i + 1 /\ rest[i] = box[i + 1] /\ f[i] = lives[i + 1]
  BY <1>2, <1>3, <1>5
<1>8. PICK d \in Nat, h \in Nat :
        /\ h = game'[p].seen[q] /\ Past(q, d, h) /\ ignored'[p][q] < d
        /\ \A i \in 1 .. k : HitOf(rest[i], q) => Before(d, h, f[i], rest[i].num)
  <2>0. ignored[p][q] \in Nat
    BY OrderParts
  <2>1. CASE ~HitOf(m, q)
    <3>1. \A i \in 1 .. k : HitOf(rest[i], q) => Before(l, seen, f[i], rest[i].num)
      BY <1>1, <1>7
    <3> QED
      BY <1>1, <2>1, <3>1
  <2>2. CASE HitOf(m, q)
    <3>1. PICK d \in Nat, h \in Nat : d = lives[1] /\ h = m.num
      BY <1>1, <1>4, <2>2
    <3>2. Past(q, d, h) /\ Before(l, seen, d, h)
      BY <1>1, <1>4, <2>2, <3>1
    <3>3. ignored'[p][q] < d
      <4>1. l < d \/ (l = d /\ seen < h)
        BY <3>2 DEF Before
      <4>2. ignored'[p][q] = ignored[p][q] \/ (ignored'[p][q] = ignored[p][q] + 1 /\ seen = h)
        BY <1>1, <2>2, <3>1
      <4> QED
        BY <1>1, <2>0, <4>1, <4>2
    <3>4. \A i \in 1 .. k : HitOf(rest[i], q) => Before(d, h, f[i], rest[i].num)
      BY <1>1, <1>4, <1>7, <2>2, <3>1
    <3> QED
      BY <2>2, <3>1, <3>2, <3>3, <3>4
  <2> QED
    BY <2>1, <2>2
<1>9. ASSUME NEW i \in 1 .. k, HitOf(rest[i], q)
      PROVE  Past(q, f[i], rest[i].num)'
  <2>1. PICK a \in Nat, b \in Nat : a = f[i] /\ b = rest[i].num
    BY <1>1, <1>7, <1>9
  <2>2. Past(q, a, b)
    BY <1>1, <1>7, <1>9, <2>1
  <2> QED
    BY <1>6, <2>1, <2>2
<1>10. ASSUME NEW i \in 1 .. k, NEW j \in 1 .. k, i < j, HitOf(rest[i], q), HitOf(rest[j], q)
       PROVE  Before(f[i], rest[i].num, f[j], rest[j].num)
  <2>1. i + 1 < j + 1
    BY <1>10
  <2> QED
    BY <1>1, <1>7, <1>10, <2>1
<1>11. Past(q, d, h)'
  BY <1>6, <1>8
<1>12. InOrder(p, q, d, f)'
  BY <1>3, <1>8, <1>9, <1>10, <1>11 DEF InOrder, Past
<1> QED
  BY <1>3, <1>5, <1>8, <1>12 DEF Ordered

----------------------------------------------------------------------------
(* The steps that read nothing *)

\* A frame counts what kills its player, and hears of no other's death.
LEMMA FrameCounts ==
  ASSUME NEW g, NEW f \in BOOLEAN, Good(g, f), NEW fire \in BOOLEAN, NEW shooter
  PROVE  /\ UpdateRemotes(g).kills = g.kills /\ UpdateRemotes(g).seen = g.seen
         /\ Launched(g).kills = g.kills /\ Launched(g).seen = g.seen
         /\ Fly(g, fire).kills = g.kills /\ Fly(g, fire).seen = g.seen
         /\ Die(g, shooter).kills = (IF shooter = Nobody THEN g.kills ELSE g.kills + 1)
         /\ Die(g, shooter).seen = g.seen
         /\ Aged(g).kills = g.kills /\ Aged(g).seen = g.seen
<1>1. g \in Games
  BY DEF Good
<1>2. UpdateRemotes(g).kills = g.kills /\ UpdateRemotes(g).seen = g.seen
  BY <1>1 DEF Games, UpdateRemotes
<1>3. Launched(g).kills = g.kills /\ Launched(g).seen = g.seen
  BY <1>1 DEF Games, Launched, Respawn
<1>4. Fly(g, fire).kills = g.kills /\ Fly(g, fire).seen = g.seen
  BY <1>1 DEF Games, Fly, Respawn
<1>5. /\ Die(g, shooter).kills = (IF shooter = Nobody THEN g.kills ELSE g.kills + 1)
      /\ Die(g, shooter).seen = g.seen
  BY <1>1 DEF Games, Die
<1>6. Aged(g).kills = g.kills /\ Aged(g).seen = g.seen
  BY <1>1 DEF Games, Aged
<1> QED
  BY <1>2, <1>3, <1>4, <1>5, <1>6

\* q reads and is sent nothing, and what it has to send is numbered as before.
Quiet(q) ==
  /\ link'[q].inbox = link[q].inbox /\ game'[q].seen = game[q].seen
  /\ game[q].kills <= game'[q].kills /\ Numbered(link'[q], q, game'[q].kills)
  /\ \A n \in Pending(link'[q]) : n \in Pending(link[q]) \/ n > game[q].kills

LEMMA StaysQuiet ==
  ASSUME IInv, AllNumbered, NEW q \in Players,
         link'[q].inbox = link[q].inbox, link'[q].out = link[q].out,
         link'[q].sending \in {link[q].sending, NoHit},
         game'[q].seen = game[q].seen, game'[q].kills = game[q].kills
  PROVE  Quiet(q)
<1>1. PICK k \in Links, n \in Nat : k = link[q] /\ n = game[q].kills
  BY OrderParts
<1>2. Numbered(k, q, n)
  BY <1>1 DEF AllNumbered
<1>3. PICK j : j = link'[q]
  OBVIOUS
<1>4. j.out = k.out /\ j.sending \in {k.sending, NoHit} /\ n <= n
  BY <1>1, <1>3
<1>5. Numbered(j, q, n) /\ Pending(j) \subseteq Pending(k)
  BY <1>2, <1>4, NumberedKept
<1> QED
  BY <1>1, <1>3, <1>5 DEF Quiet

LEMMA AllQuiet ==
  ASSUME IInv, KillInv, IInv', life' = life, ignored' = ignored, \A q \in Players : Quiet(q)
  PROVE  KillInv'
<1>1. AllNumbered'
  BY DEF KillInv, AllNumbered, Quiet
<1>2. ASSUME NEW p \in Players, NEW q \in Players  PROVE Ordered(p, q)'
  <2>1. Goes(q)
    BY DEF Goes, Quiet
  <2>2. /\ link'[p].inbox = link[p].inbox /\ game'[p].seen[q] = game[p].seen[q]
        /\ ignored'[p][q] = ignored[p][q]
    BY DEF Quiet
  <2> QED
    BY <2>1, <2>2, OrderedSame DEF KillInv
<1> QED
  BY <1>1, <1>2 DEF KillInv

\* A player that dies has a hit to send, with the next number.
LEMMA FrameArenaQuiet ==
  ASSUME IInv, AllNumbered, NEW p \in Players, NEW g, Good(g, TRUE), g.phase = "arena",
         g.kills = game[p].kills, g.seen = game[p].seen, FrameArena(p, g)
  PROVE  Quiet(p) /\ \A q \in Players \ {p} : game'[q] = game[q] /\ link'[q] = link[q]
<1>1. PICK fire \in BOOLEAN, struck \in BOOLEAN, shooter \in Players \cup {Nobody} :
        LET flown == Fly(g, fire)
            after == IF struck THEN Die(flown, shooter) ELSE flown
            hits == IF shooter = Nobody THEN <<>> ELSE <<Hit(p, after, shooter)>>
        IN /\ fire => g.alive /\ p \in Heard /\ shots < MaxShots
           /\ struck => Vulnerable(flown)
           /\ struck /\ shooter = Nobody => rocks < MaxRocks /\ p \notin Heard
           /\ shooter # Nobody => struck /\ g.remotes[shooter].armed
           /\ shots' = IF fire THEN shots + 1 ELSE shots
           /\ rocks' = IF struck /\ shooter = Nobody THEN rocks + 1 ELSE rocks
           /\ game' = [game EXCEPT ![p] = [after EXCEPT !.seq = NextSeq(@)]]
           /\ link' = [link EXCEPT ![p].out = @ \o hits \o <<StateMsg(p, after)>>]
           /\ sent' = [sent EXCEPT ![p] = @ + 1]
  BY DEF FrameArena
<1> DEFINE flown == Fly(g, fire)
<1>2. Good(flown, TRUE) /\ flown.kills = g.kills /\ flown.seen = g.seen
  BY FlyGood, FrameCounts
<1> HIDE DEF flown
<1> DEFINE after == IF struck THEN Die(flown, shooter) ELSE flown
<1>3. /\ Good(after, TRUE) /\ after.seen = g.seen
      /\ after.kills = (IF shooter = Nobody THEN g.kills ELSE g.kills + 1)
  <2>1. shooter # Nobody => struck
    BY <1>1
  <2>2. CASE struck
    <3>1. Good(Die(flown, shooter), TRUE)
      BY <1>2, DieGood
    <3>2. /\ Die(flown, shooter).kills = (IF shooter = Nobody THEN flown.kills ELSE flown.kills + 1)
          /\ Die(flown, shooter).seen = flown.seen
      BY <1>2, FrameCounts
    <3> QED
      BY <1>2, <2>2, <3>1, <3>2
  <2>3. CASE ~struck
    BY <1>2, <2>1, <2>3
  <2> QED
    BY <2>2, <2>3
<1>4. /\ game' = [game EXCEPT ![p] = [after EXCEPT !.seq = NextSeq(@)]]
      /\ link' = [link EXCEPT ![p].out =
                    @ \o (IF shooter = Nobody THEN <<>> ELSE <<Hit(p, after, shooter)>>)
                      \o <<StateMsg(p, after)>>]
  BY <1>1 DEF flown
<1> HIDE DEF after
<1>5. PICK a \in Nat, b \in Nat : a = game[p].kills /\ b = after.kills /\ a <= b
                                  /\ b = (IF shooter = Nobody THEN a ELSE a + 1)
  BY <1>3, OrderParts
<1>6. PICK k \in Links : k = link[p] /\ Numbered(k, p, a)
  BY <1>5, OrderParts DEF AllNumbered
<1>7. game'[p].kills = b /\ game'[p].seen = game[p].seen
  BY <1>3, <1>4, <1>5 DEF IInv, Good, Games
<1>8. PICK s : s = StateMsg(p, after) /\ s \in Msgs /\ s.kind = "state"
  <2>1. StateMsg(p, after) \in StateMsgs
    BY <1>3 DEF IInv, Good, Games, StateMsg, StateMsgs
  <2>2. \A m \in StateMsgs : m \in Msgs /\ m.kind = "state"
    BY DEF Msgs, StateMsgs
  <2> QED
    BY <2>1, <2>2
<1>9. PICK i \in Links : /\ i.inbox = k.inbox /\ i.sending = k.sending /\ Numbered(i, p, b)
                         /\ \A x \in Pending(i) : x \in Pending(k) \/ x > a
                         /\ link'[p] = [k EXCEPT !.out = i.out \o <<s>>]
  <2>1. CASE shooter = Nobody
    <3>1. k.out \o <<>> = k.out
      BY <1>6, LinkParts
    <3> QED
      BY <1>4, <1>5, <1>6, <1>8, <2>1, <3>1 DEF IInv, Links
  <2>2. CASE shooter # Nobody
    <3>0. Hit(p, after, shooter) \in HitMsgs /\ Hit(p, after, shooter).from = p
          /\ Hit(p, after, shooter).num = b
      BY <1>5, <2>2 DEF Hit, HitMsgs
    <3>1. PICK h \in Msgs : h = Hit(p, after, shooter) /\ h.kind = "hit" /\ h.from = p /\ h.num = b
      BY <3>0 DEF Msgs, HitMsgs
    <3>2. PICK i : i = [k EXCEPT !.out = Append(k.out, h)]
      OBVIOUS
    <3>3. i \in Links /\ i.out = Append(k.out, h) /\ i.inbox = k.inbox /\ i.sending = k.sending
      <4>1. Append(k.out, h) \in Seq(Msgs)
        BY <3>1, LinkParts, AppendProperties
      <4> QED
        BY <3>2, <4>1 DEF Links
    <3>4. Numbered(i, p, b) /\ \A x \in Pending(i) : x \in Pending(k) \/ x > a
      <4>1. h.kind = "hit" => h.from = p /\ a < h.num /\ h.num = b
        BY <1>5, <2>2, <3>1
      <4>2. a <= b /\ Numbered(k, p, a) /\ i.out = Append(k.out, h) /\ i.sending = k.sending
        BY <1>5, <1>6, <3>3
      <4>3. h \in Msgs /\ k \in Links /\ a \in Nat /\ b \in Nat
        BY <1>5, <1>6, <3>1
      <4> QED
        BY <4>1, <4>2, <4>3, NumberedMore, ZenonT(30)
    <3>5. k.out \o <<h>> = i.out
      BY <3>1, <3>3, LinkParts
    <3>6. link'[p] = [k EXCEPT !.out = i.out \o <<s>>]
      BY <1>4, <1>6, <1>8, <2>2, <3>1, <3>5 DEF IInv
    <3> QED
      BY <3>3, <3>4, <3>6
  <2> QED
    BY <2>1, <2>2
<1>10. link'[p].out = Append(i.out, s) /\ link'[p].inbox = k.inbox /\ link'[p].sending = k.sending
  <2>1. i.out \o <<s>> = Append(i.out, s)
    BY <1>8, LinkParts
  <2> QED
    BY <1>9, <2>1 DEF Links
<1>11. PICK j : j = link'[p]
  OBVIOUS
<1>12. Numbered(j, p, b) /\ \A x \in Pending(j) : x \in Pending(i) \/ x > b
  <2>1. j.out = Append(i.out, s) /\ j.sending = i.sending /\ b <= b
    BY <1>9, <1>10, <1>11
  <2>2. s.kind # "hit"
    BY <1>8
  <2> QED
    BY <1>8, <1>9, <2>1, <2>2, NumberedMore
<1>13. \A x \in Pending(j) : x \in Pending(k) \/ x > a
  <2>1. Pending(j) \subseteq Nat
    <3>1. Append(i.out, s) \in Seq(Msgs)
      BY <1>8, LinkParts, AppendProperties
    <3>2. i.out \o <<s>> = Append(i.out, s)
      BY <1>8, LinkParts
    <3>3. j \in Links
      BY <1>9, <1>11, <3>1, <3>2 DEF Links
    <3> QED
      BY <3>3, LinkParts
  <2> QED
    BY <1>5, <1>9, <1>12, <2>1
<1>14. Quiet(p)
  BY <1>5, <1>6, <1>7, <1>10, <1>11, <1>12, <1>13 DEF Quiet
<1> QED
  BY <1>4, <1>14 DEF IInv

\* The frames and the buttons, and what the network loop does but read.
LEMMA FrameQuiet ==
  ASSUME IInv, AllNumbered, NEW p \in Players, Frame(p)
  PROVE  \A q \in Players : Quiet(q)
<1> DEFINE g == UpdateRemotes(game[p])
<1>1. Good(game[p], framed[p]) /\ framed[p] \in BOOLEAN
  BY DEF IInv
<1>2. Good(g, TRUE) /\ g.kills = game[p].kills /\ g.seen = game[p].seen
  BY <1>1, UpdateGood, FrameCounts
<1> HIDE DEF g
<1>3. Quiet(p) /\ \A q \in Players \ {p} : game'[q] = game[q] /\ link'[q] = link[q]
  <2>1. CASE g.phase = "arena" /\ FrameArena(p, g)
    BY <1>2, <2>1, FrameArenaQuiet
  <2>2. CASE FrameArena(p, Launched(g))
    <3>1. PICK f : f = Launched(g)
      OBVIOUS
    <3>2. Good(f, TRUE) /\ f.phase = "arena" /\ f.kills = game[p].kills /\ f.seen = game[p].seen
      BY <1>2, <3>1, LaunchedGood, FrameCounts
    <3> QED
      BY <2>2, <3>1, <3>2, FrameArenaQuiet
  <2>3. CASE game' = [game EXCEPT ![p] = g] /\ link' = link
    <3>1. game'[p] = g
      BY <2>3 DEF IInv
    <3>2. Quiet(p)
      BY <1>2, <2>3, <3>1, StaysQuiet
    <3> QED
      BY <2>3, <3>2
  <2> QED
    BY <2>1, <2>2, <2>3 DEF Frame, g
<1> QED
  BY <1>3, StaysQuiet

LEMMA OthersQuiet ==
  ASSUME IInv, AllNumbered, NEW p \in Players, Quiet(p),
         \A q \in Players \ {p} : game'[q] = game[q] /\ link'[q] = link[q]
  PROVE  \A q \in Players : Quiet(q)
BY StaysQuiet

LEMMA LaunchQuiet ==
  ASSUME IInv, AllNumbered, NEW p \in Players, Launch(p)
  PROVE  \A q \in Players : Quiet(q)
<1>1. Good(game[p], framed[p]) /\ framed[p] \in BOOLEAN
  BY DEF IInv
<1>2. game' = [game EXCEPT ![p] = Launched(game[p])] /\ link' = link
  BY DEF Launch
<1>3. Launched(game[p]).kills = game[p].kills /\ Launched(game[p]).seen = game[p].seen
  BY <1>1, FrameCounts
<1>4. game'[p].kills = game[p].kills /\ game'[p].seen = game[p].seen
  BY <1>2, <1>3 DEF IInv
<1>5. Quiet(p)
  BY <1>2, <1>4, StaysQuiet
<1> QED
  BY <1>2, <1>5, OthersQuiet

LEMMA TickQuiet ==
  ASSUME IInv, AllNumbered, Tick, NEW p \in Players
  PROVE  Quiet(p)
<1>1. Good(game[p], framed[p]) /\ framed[p] \in BOOLEAN
  BY DEF IInv
<1>2. game'[p] = Aged(game[p]) /\ link' = link
  BY DEF Tick
<1>3. Aged(game[p]).kills = game[p].kills /\ Aged(game[p]).seen = game[p].seen
  BY <1>1, FrameCounts
<1> QED
  BY <1>2, <1>3, StaysQuiet

LEMMA ReadyQuiet ==
  ASSUME IInv, AllNumbered, NEW p \in Players, Ready(p)
  PROVE  \A q \in Players : Quiet(q)
<1>1. game[p] \in Games /\ link[p] \in Links
  BY OrderParts
<1>2. game'[p].kills = game[p].kills /\ game'[p].seen = game[p].seen
  BY <1>1 DEF Ready, Games, IInv
<1>3. /\ link'[p].inbox = link[p].inbox /\ link'[p].out = link[p].out
      /\ link'[p].sending = link[p].sending
  BY <1>1 DEF Ready, Links, IInv
<1>4. Quiet(p)
  BY <1>2, <1>3, StaysQuiet
<1>5. \A q \in Players \ {p} : game'[q] = game[q] /\ link'[q] = link[q]
  BY DEF Ready, IInv
<1> QED
  BY <1>4, <1>5, OthersQuiet

LEMMA HitFailsQuiet ==
  ASSUME IInv, AllNumbered, NEW p \in Players, HitFails(p)
  PROVE  \A q \in Players : Quiet(q)
<1>1. link[p] \in Links
  BY OrderParts
<1>2. /\ link'[p].inbox = link[p].inbox /\ link'[p].out = link[p].out
      /\ link'[p].sending = NoHit /\ game' = game
  BY <1>1 DEF HitFails, Links, IInv
<1>3. Quiet(p)
  BY <1>2, StaysQuiet
<1>4. \A q \in Players \ {p} : game'[q] = game[q] /\ link'[q] = link[q]
  BY DEF HitFails, IInv
<1> QED
  BY <1>3, <1>4, OthersQuiet

LEMMA OutQuiet ==
  ASSUME IInv, AllNumbered, NEW p \in Players, Out(p)
  PROVE  \A q \in Players : Quiet(q)
<1>1. PICK k \in Links, n \in Nat : k = link[p] /\ n = game[p].kills /\ Numbered(k, p, n)
  BY OrderParts DEF AllNumbered
<1>2. k.out # <<>> /\ k.sending = NoHit /\ game' = game
  BY <1>1 DEF Out, Selects
<1>3. PICK m : m = Head(k.out)
  OBVIOUS
<1>4. PICK j : j = link'[p]
  OBVIOUS
<1>5. /\ j.out = Tail(k.out) /\ j.inbox = k.inbox
      /\ j.sending = IF m.kind = "hit" THEN m ELSE NoHit
  <2>1. CASE m.kind = "hit"
    <3>1. link' = [link EXCEPT ![p].out = Tail(@), ![p].sending = m]
      BY <1>1, <1>3, <2>1 DEF Out
    <3> QED
      BY <1>1, <1>4, <2>1, <3>1 DEF IInv, Links
  <2>2. CASE m.kind # "hit"
    <3>1. link' = [link EXCEPT ![p].out = Tail(@)]
      BY <1>1, <1>3, <2>2 DEF Out
    <3> QED
      BY <1>1, <1>2, <1>4, <2>2, <3>1 DEF IInv, Links
  <2> QED
    BY <2>1, <2>2
<1>6. Numbered(j, p, n) /\ Pending(j) \subseteq Pending(k)
  <2>1. j.sending = IF Head(k.out).kind = "hit" THEN Head(k.out) ELSE NoHit
    BY <1>3, <1>5
  <2>2. j.out = Tail(k.out)
    BY <1>5
  <2>3. k \in Links /\ Numbered(k, p, n) /\ k.out # <<>> /\ k.sending = NoHit
    BY <1>1, <1>2
  <2> QED
    BY <2>1, <2>2, <2>3, NumberedOut
<1>7. Quiet(p)
  BY <1>1, <1>2, <1>4, <1>5, <1>6 DEF Quiet
<1>8. \A q \in Players \ {p} : game'[q] = game[q] /\ link'[q] = link[q]
  BY DEF Out, IInv
<1> QED
  BY <1>7, <1>8, OthersQuiet

----------------------------------------------------------------------------
(* The steps that hand over a message, or read one *)

\* The hits of the others are delivered to a player, or a datagram of theirs.
LEMMA HitSentCounts ==
  ASSUME IInv, KillInv, IInv', NEW p \in Players, HitSent(p)
  PROVE  KillInv'
<1>1. PICK k \in Links, n \in Nat : k = link[p] /\ n = game[p].kills /\ Numbered(k, p, n)
  BY OrderParts DEF KillInv, AllNumbered
<1>2. PICK m \in HitMsgs : m = k.sending
  BY <1>1, LinkParts DEF HitSent
<1>3. m \in Msgs /\ m.to \in Players /\ m.num \in Nat /\ m # NoHit
  BY <1>1, <1>2 DEF Msgs, HitMsgs, HitSent
<1>4. m.from = p /\ m.num \in Pending(k) /\ m.num <= n /\ \A i \in Hits(k) : m.num < k.out[i].num
  <2>1. m.num \in Pending(k)
    BY <1>2, <1>3 DEF Pending
  <2> QED
    BY <1>1, <1>2, <1>3, <2>1 DEF Numbered
<1>5. life' = life /\ ignored' = ignored /\ game' = game
  BY DEF HitSent
<1>6. link' = [link EXCEPT ![p].sending = NoHit,
                 ![m.to].inbox = IF link[m.to].online THEN Append(@, m) ELSE @]
  BY <1>1, <1>2 DEF HitSent
<1>7. ASSUME NEW q \in Players
      PROVE  /\ link'[q].out = link[q].out
             /\ link'[q].sending = IF q = p THEN NoHit ELSE link[q].sending
             /\ link'[q].inbox = IF q = m.to /\ link[q].online THEN Append(link[q].inbox, m)
                                 ELSE link[q].inbox
  <2>1. link[q] \in Links /\ link[p] \in Links /\ link \in [Players -> Links]
    BY DEF IInv
  <2> QED
    BY <1>3, <1>6, <2>1 DEF Links
<1>8. ASSUME NEW q \in Players
      PROVE  Numbered(link'[q], q, game'[q].kills) /\ Pending(link'[q]) \subseteq Pending(link[q])
  <2>1. PICK x \in Links, y \in Nat : x = link[q] /\ y = game[q].kills /\ Numbered(x, q, y)
    BY OrderParts DEF KillInv, AllNumbered
  <2>2. PICK z : z = link'[q]
    OBVIOUS
  <2>3. z.out = x.out /\ z.sending \in {x.sending, NoHit} /\ y <= y
    BY <1>7, <2>1, <2>2
  <2>4. Numbered(z, q, y) /\ Pending(z) \subseteq Pending(x)
    BY <2>1, <2>3, NumberedKept
  <2> QED
    BY <1>5, <2>1, <2>2, <2>4
<1>9. AllNumbered'
  BY <1>5, <1>8 DEF KillInv, AllNumbered
<1>10. ASSUME NEW q \in Players  PROVE Goes(q)
  <2>1. game[q].kills \in Nat
    BY OrderParts DEF KillInv
  <2> QED
    BY <1>5, <1>8, <2>1 DEF Goes
<1>11. Handed(p, m)
  <2>1. ASSUME NEW x \in Pending(link'[p])  PROVE m.num < x
    <3>1. link'[p].out = k.out /\ link'[p].sending = NoHit
      BY <1>1, <1>7
    <3>2. PICK i \in Hits(k) : x = k.out[i].num
      BY <3>1 DEF Pending, Hits
    <3> QED
      BY <1>4, <3>2
  <2> QED
    BY <1>1, <1>4, <1>5, <2>1 DEF Handed
<1>12. ASSUME NEW a \in Players, NEW q \in Players  PROVE Ordered(a, q)'
  <2>1. Ordered(a, q) /\ Goes(q) /\ AllNumbered
    BY <1>10 DEF KillInv
  <2>2. game'[a].seen[q] = game[a].seen[q] /\ ignored'[a][q] = ignored[a][q]
    BY <1>5
  <2>3. HitOf(m, q) => Handed(q, m)
    BY <1>4, <1>11 DEF HitOf
  <2>4. CASE link'[a].inbox = Append(link[a].inbox, m)
    BY <1>3, <2>1, <2>2, <2>3, <2>4, OrderedMore
  <2>5. CASE link'[a].inbox = link[a].inbox
    BY <2>1, <2>2, <2>5, OrderedSame
  <2> QED
    BY <1>7, <2>4, <2>5
<1> QED
  BY <1>9, <1>12 DEF KillInv

LEMMA ArriveCounts ==
  ASSUME IInv, KillInv, IInv', NEW d \in net, Arrive(d)
  PROVE  KillInv'
<1>1. PICK m \in Msgs, a \in Players : m = d.state /\ a = d.to /\ m.kind # "hit"
  BY DEF IInv, Datagrams, Msgs, StateMsgs
<1>2. life' = life /\ ignored' = ignored /\ game' = game
  BY DEF Arrive
<1>3. ASSUME NEW q \in Players
      PROVE  /\ link'[q].out = link[q].out /\ link'[q].sending = link[q].sending
             /\ link'[q].inbox = IF q = a THEN Append(link[q].inbox, m) ELSE link[q].inbox
  <2>1. link[q] \in Links /\ link \in [Players -> Links]
    BY DEF IInv
  <2> QED
    BY <1>1, <2>1 DEF Links, Arrive
<1>4. ASSUME NEW q \in Players
      PROVE  Numbered(link'[q], q, game'[q].kills) /\ Pending(link'[q]) \subseteq Pending(link[q])
  <2>1. PICK x \in Links, y \in Nat : x = link[q] /\ y = game[q].kills /\ Numbered(x, q, y)
    BY OrderParts DEF KillInv, AllNumbered
  <2>2. PICK z : z = link'[q]
    OBVIOUS
  <2>3. z.out = x.out /\ z.sending \in {x.sending, NoHit} /\ y <= y
    BY <1>3, <2>1, <2>2
  <2>4. Numbered(z, q, y) /\ Pending(z) \subseteq Pending(x)
    BY <2>1, <2>3, NumberedKept
  <2> QED
    BY <1>2, <2>1, <2>2, <2>4
<1>5. AllNumbered'
  BY <1>2, <1>4 DEF KillInv, AllNumbered
<1>6. ASSUME NEW p \in Players, NEW q \in Players  PROVE Ordered(p, q)'
  <2>1. Ordered(p, q) /\ AllNumbered
    BY DEF KillInv
  <2>2. Goes(q)
    <3>1. game[q].kills \in Nat
      BY <2>1, OrderParts
    <3> QED
      BY <1>2, <1>4, <3>1 DEF Goes
  <2>3. game'[p].seen[q] = game[p].seen[q] /\ ignored'[p][q] = ignored[p][q]
    BY <1>2
  <2>4. ~HitOf(m, q)
    BY <1>1 DEF HitOf
  <2>5. CASE p = a
    BY <1>3, <2>1, <2>2, <2>3, <2>4, <2>5, OrderedMore
  <2>6. CASE p # a
    BY <1>3, <2>1, <2>2, <2>3, <2>6, OrderedSame
  <2> QED
    BY <2>5, <2>6
<1> QED
  BY <1>5, <1>6 DEF KillInv

\* A hit that is ignored has the number of the last that was counted.
LEMMA ReceiveCounts ==
  ASSUME IInv, KillInv, IInv', NEW p \in Players, Receive(p)
  PROVE  KillInv'
<1>1. PICK g \in Games, k \in Links : g = game[p] /\ k = link[p]
  BY OrderParts DEF KillInv
<1>2. PICK m \in Msgs : m = Head(k.inbox)
  <2>1. k.inbox # <<>>
    BY <1>1 DEF Receive
  <2> QED
    BY <2>1, LinkParts, HeadTailProperties
<1>3. life' = life
  BY DEF Receive
<1>4. /\ link'[p].out = link[p].out /\ link'[p].sending = link[p].sending
      /\ link'[p].inbox = Tail(k.inbox) /\ k.inbox # <<>>
      /\ \A q \in Players \ {p} : link'[q] = link[q]
  BY <1>1 DEF Receive, IInv, Links
<1>5. PICK h : h = game'[p] /\ \A q \in Players \ {p} : game'[q] = game[q] /\ ignored'[q] = ignored[q]
  BY DEF Receive, IInv, KillInv, AllNumbered
<1>6. ASSUME m.kind = "state"
      PROVE  h.kills = g.kills /\ h.seen = g.seen /\ ignored' = ignored
  <2>1. h = OnState(g, m) /\ ignored' = ignored
    BY <1>1, <1>2, <1>5, <1>6 DEF Receive, IInv
  <2> QED
    BY <2>1 DEF OnState, Games
<1>7. ASSUME m.kind # "state"
      PROVE  /\ m \in HitMsgs /\ h.kills = g.kills /\ h.seen[m.from] = m.num
             /\ \A q \in Players \ {m.from} : h.seen[q] = g.seen[q] /\ ignored'[p][q] = ignored[p][q]
             /\ \/ ignored'[p][m.from] = ignored[p][m.from]
                \/ /\ ignored'[p][m.from] = ignored[p][m.from] + 1
                   /\ g.seen[m.from] = m.num
  <2>1. m \in HitMsgs /\ m.from \in Players
    BY <1>7 DEF Msgs, StateMsgs, HitMsgs
  <2>2. /\ h = OnHit(g, m)
        /\ ignored' = IF Counts(g, m) THEN ignored ELSE [ignored EXCEPT ![p][m.from] = @ + 1]
    BY <1>1, <1>2, <1>5, <1>7 DEF Receive, IInv
  <2>3. CASE Counts(g, m)
    BY <2>1, <2>2, <2>3 DEF OnHit, Games
  <2>4. CASE ~Counts(g, m)
    BY <2>1, <2>2, <2>4 DEF OnHit, Games, Counts, KillInv, AllNumbered
  <2> QED
    BY <2>1, <2>3, <2>4
<1>8. h.kills = g.kills
  BY <1>6, <1>7
<1>9. ASSUME NEW q \in Players
      PROVE  /\ Numbered(link'[q], q, game'[q].kills) /\ Pending(link'[q]) \subseteq Pending(link[q])
             /\ game'[q].kills = game[q].kills
  <2>1. PICK x \in Links, y \in Nat : x = link[q] /\ y = game[q].kills /\ Numbered(x, q, y)
    BY OrderParts DEF KillInv, AllNumbered
  <2>2. PICK z : z = link'[q]
    OBVIOUS
  <2>3. z.out = x.out /\ z.sending \in {x.sending, NoHit} /\ y <= y
    BY <1>4, <2>1, <2>2
  <2>4. Numbered(z, q, y) /\ Pending(z) \subseteq Pending(x)
    BY <2>1, <2>3, NumberedKept
  <2>5. game'[q].kills = y
    BY <1>1, <1>5, <1>8, <2>1
  <2> QED
    BY <2>1, <2>2, <2>4, <2>5
<1>10. AllNumbered'
  <2>1. ignored' \in [Players -> [Players -> Nat]]
    <3>1. CASE ignored' = ignored
      BY <3>1 DEF KillInv, AllNumbered
    <3>2. CASE m.from \in Players /\ ignored' = [ignored EXCEPT ![p][m.from] = @ + 1]
      BY <3>2 DEF KillInv, AllNumbered
    <3>3. m.from \in Players
      BY DEF Msgs, StateMsgs, HitMsgs
    <3>4. ignored' = ignored \/ ignored' = [ignored EXCEPT ![p][m.from] = @ + 1]
      BY <1>1, <1>2 DEF Receive
    <3> QED
      BY <3>1, <3>2, <3>3, <3>4
  <2> QED
    BY <1>3, <1>9, <2>1 DEF KillInv, AllNumbered
<1>11. ASSUME NEW q \in Players  PROVE Goes(q)
  <2>1. game[q].kills \in Nat
    BY OrderParts DEF KillInv
  <2> QED
    BY <1>3, <1>9, <2>1 DEF Goes
<1>12. ASSUME NEW q \in Players  PROVE Ordered(p, q)'
  <2>1. Ordered(p, q) /\ AllNumbered /\ Goes(q)
    BY <1>11 DEF KillInv
  <2>2. ~HitOf(m, q) => game'[p].seen[q] = game[p].seen[q] /\ ignored'[p][q] = ignored[p][q]
    <3>1. \A x \in Msgs : x.kind # "state" => x.kind = "hit"
      BY DEF Msgs, StateMsgs, HitMsgs
    <3> QED
      BY <1>1, <1>5, <1>6, <1>7, <3>1 DEF HitOf
  <2>3. HitOf(m, q) =>
          /\ game'[p].seen[q] = m.num
          /\ \/ ignored'[p][q] = ignored[p][q]
             \/ ignored'[p][q] = ignored[p][q] + 1 /\ game[p].seen[q] = m.num
    BY <1>1, <1>5, <1>7 DEF HitOf
  <2>4. m = Head(link[p].inbox) /\ link[p].inbox # <<>> /\ link'[p].inbox = Tail(link[p].inbox)
    BY <1>1, <1>2, <1>4
  <2> QED
    BY <2>1, <2>2, <2>3, <2>4, OrderedNext
<1>13. ASSUME NEW a \in Players \ {p}, NEW q \in Players  PROVE Ordered(a, q)'
  <2>1. Ordered(a, q) /\ AllNumbered /\ Goes(q)
    BY <1>11 DEF KillInv
  <2>2. /\ link'[a].inbox = link[a].inbox /\ game'[a].seen[q] = game[a].seen[q]
        /\ ignored'[a][q] = ignored[a][q]
    BY <1>4, <1>5
  <2> QED
    BY <2>1, <2>2, OrderedSame
<1> QED
  BY <1>10, <1>12, <1>13 DEF KillInv

\* Who starts over has no hit to send, and has heard none.
LEMMA RestartCounts ==
  ASSUME IInv, KillInv, IInv', NEW p \in Players, Restart(p)
  PROVE  KillInv'
<1>1. /\ game'[p] = NewGame /\ link'[p] = NewLink /\ life'[p] = life[p] + 1
      /\ ignored'[p] = [q \in Players |-> 0]
      /\ \A q \in Players \ {p} : /\ game'[q] = game[q] /\ link'[q] = link[q]
                                  /\ life'[q] = life[q] /\ ignored'[q] = ignored[q]
  BY DEF Restart, IInv, KillInv, AllNumbered
<1>2. /\ game'[p].kills = 0 /\ \A q \in Players : game'[p].seen[q] = 0 /\ ignored'[p][q] = 0
      /\ link'[p].inbox = <<>> /\ link'[p].out = <<>> /\ link'[p].sending = NoHit
  BY <1>1 DEF NewGame, NewLink
<1>3. Hits(link'[p]) = {} /\ Pending(link'[p]) = {}
  <2>1. Len(link'[p].out) = 0
    BY <1>2
  <2>2. Hits(link'[p]) = {}
    BY <2>1 DEF Hits
  <2> QED
    BY <1>2, <2>2 DEF Pending
<1>4. AllNumbered'
  <2>1. ignored' \in [Players -> [Players -> Nat]]
    BY DEF Restart, KillInv, AllNumbered
  <2>2. Numbered(link'[p], p, game'[p].kills)
    BY <1>2, <1>3 DEF Numbered
  <2>3. life'[p] > 0
    BY <1>1, OrderParts DEF KillInv
  <2> QED
    BY <1>1, <2>1, <2>2, <2>3 DEF KillInv, AllNumbered
<1>5. ASSUME NEW q \in Players  PROVE Goes(q)
  <2>1. game[q].kills \in Nat
    BY OrderParts DEF KillInv
  <2> QED
    BY <1>1, <2>1 DEF Goes
<1>6. ASSUME NEW q \in Players  PROVE Ordered(p, q)'
  BY <1>2, <1>4, OrderedFresh
<1>7. ASSUME NEW a \in Players \ {p}, NEW q \in Players  PROVE Ordered(a, q)'
  <2>1. Ordered(a, q) /\ AllNumbered /\ Goes(q)
    BY <1>5 DEF KillInv
  <2>2. /\ link'[a].inbox = link[a].inbox /\ game'[a].seen[q] = game[a].seen[q]
        /\ ignored'[a][q] = ignored[a][q]
    BY <1>1
  <2> QED
    BY <2>1, <2>2, OrderedSame
<1> QED
  BY <1>4, <1>6, <1>7 DEF KillInv

\* The hits of a player come in the order in which it was struck, life by life.
LEMMA Counting == Spec => []KillInv
<1>1. Init => KillInv
  <2> SUFFICES ASSUME Init  PROVE KillInv
    OBVIOUS
  <2>1. /\ life = [p \in Players |-> 1] /\ ignored = [p \in Players |-> [q \in Players |-> 0]]
        /\ game = [p \in Players |-> NewGame] /\ link = [p \in Players |-> NewLink]
    BY DEF Init
  <2>2. \A q \in Players : Hits(link[q]) = {} /\ Pending(link[q]) = {}
    BY <2>1, EmptySeq DEF NewLink, Hits, Pending
  <2>3. AllNumbered
    <3>1. ignored \in [Players -> [Players -> Nat]]
      BY <2>1
    <3>2. ASSUME NEW q \in Players  PROVE life[q] > 0 /\ Numbered(link[q], q, game[q].kills)
      <4>1. life[q] = 1 /\ link[q].sending = NoHit
        BY <2>1 DEF NewLink
      <4> QED
        BY <2>2, <4>1 DEF Numbered
    <3> QED
      BY <3>1, <3>2 DEF AllNumbered
  <2>4. ASSUME NEW p \in Players, NEW q \in Players  PROVE Ordered(p, q)
    <3>1. Len(link[p].inbox) = 0 /\ game[p].seen[q] = 0 /\ ignored[p][q] = 0
      BY <2>1, EmptySeq DEF NewLink, NewGame
    <3>2. PICK f \in [1 .. Len(link[p].inbox) -> Nat] : TRUE
      <4>1. [i \in 1 .. Len(link[p].inbox) |-> 0] \in [1 .. Len(link[p].inbox) -> Nat]
        OBVIOUS
      <4> QED
        BY <4>1
    <3>3. Past(q, 1, 0)
      BY <2>1, <2>2 DEF Past, NewGame
    <3>4. InOrder(p, q, 1, f)
      BY <3>1, <3>3 DEF InOrder
    <3> QED
      BY <3>4 DEF Ordered
  <2> QED
    BY <2>3, <2>4 DEF KillInv
<1>2. IInv /\ IInv' /\ KillInv /\ [Next]_vars => KillInv'
  <2> SUFFICES ASSUME IInv, IInv', KillInv, [Next]_vars  PROVE KillInv'
    OBVIOUS
  <2>0. AllNumbered
    BY DEF KillInv
  <2>1. CASE Tick
    <3>1. life' = life /\ ignored' = ignored
      BY <2>1 DEF Tick
    <3> QED
      BY <2>0, <2>1, <3>1, TickQuiet, AllQuiet
  <2>2. ASSUME NEW d \in net, Arrive(d)  PROVE KillInv'
    BY <2>2, ArriveCounts
  <2>3. ASSUME NEW p \in Players, Frame(p) \/ Launch(p) \/ Ready(p)  PROVE KillInv'
    <3>1. life' = life /\ ignored' = ignored
      BY <2>3 DEF Frame, Launch, Ready
    <3>2. \A q \in Players : Quiet(q)
      BY <2>0, <2>3, FrameQuiet, LaunchQuiet, ReadyQuiet
    <3> QED
      BY <3>1, <3>2, AllQuiet
  <2>4. ASSUME NEW p \in Players, Out(p) \/ HitFails(p)  PROVE KillInv'
    <3>1. life' = life /\ ignored' = ignored
      BY <2>4 DEF Out, HitFails
    <3>2. \A q \in Players : Quiet(q)
      BY <2>0, <2>4, OutQuiet, HitFailsQuiet
    <3> QED
      BY <3>1, <3>2, AllQuiet
  <2>5. ASSUME NEW p \in Players, Receive(p) \/ Restart(p) \/ HitSent(p)  PROVE KillInv'
    BY <2>5, ReceiveCounts, RestartCounts, HitSentCounts
  <2>6. CASE UNCHANGED vars
    <3>1. life' = life /\ ignored' = ignored /\ game' = game /\ link' = link
      BY <2>6 DEF vars
    <3>2. \A q \in Players : Quiet(q)
      BY <2>0, <3>1, StaysQuiet
    <3> QED
      BY <3>1, <3>2, AllQuiet
  <2> QED
    BY <2>1, <2>2, <2>3, <2>4, <2>5, <2>6 DEF Next
<1> QED
  BY <1>1, <1>2, Invariant, PTL DEF Spec

\* A shooter ignores a hit on a player at most once for each time that the
\* player started over: the number of a hit is that of the last that was
\* counted only when it was sent in a later life.
THEOREM KillsCounted == Spec => []KillsLostOnlyToRestarts
<1>1. IInv /\ KillInv => KillsLostOnlyToRestarts
  <2> SUFFICES ASSUME IInv, KillInv, NEW p \in Players, NEW q \in Players
               PROVE  ignored[p][q] <= life[q] - 1
    BY DEF KillsLostOnlyToRestarts
  <2>1. PICK l \in Nat : ignored[p][q] < l /\ l <= life[q]
    BY DEF KillInv, Ordered, InOrder, Past
  <2>2. ignored[p][q] \in Nat /\ life[q] \in Nat
    BY OrderParts DEF KillInv
  <2> QED
    BY <2>1, <2>2
<1> QED
  BY <1>1, Invariant, Counting, PTL
=============================================================================
