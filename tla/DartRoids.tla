----------------------------- MODULE DartRoids -----------------------------
(***************************************************************************)
(* The example game: each player flies its own ship, broadcasts it, and    *)
(* tells the owner of the bullet that killed it.  A player is a game loop  *)
(* and a network loop that share a queue: the native build runs them as    *)
(* two threads, the wasm build as two tasks of one browser tab.            *)
(*                                                                         *)
(* The game logic of the two builds is the same text.  What a ship's       *)
(* position decides (who is struck, what is shot) is left open, and time   *)
(* is counted in ticks that keep the order of the game's durations.        *)
(***************************************************************************)
EXTENDS Naturals, Sequences, Functions

CONSTANTS
  Players,        \* ids of the players
  WasmPlayers,    \* those in a browser, the others run the native build
  SeqSpace,       \* stands for 2^16, the sequence numbers of states
  RespawnDelay, InvulnTime, BulletLife, DropAfter,   \* in ticks
  MaxDelay,       \* a datagram is delivered within this many ticks, or lost
  Heard,          \* bound: whose datagrams may arrive; the others hold fire, only they meet rocks
  MaxTicks, MaxShots, MaxRocks, MaxRestarts, MaxOut, MaxInbox  \* bounds

ASSUME DartConstants ==
  /\ Players \subseteq Nat \ {0} /\ WasmPlayers \subseteq Players
  /\ {RespawnDelay, InvulnTime, BulletLife, DropAfter, MaxDelay} \subseteq Nat
  /\ Heard \subseteq Players /\ SeqSpace \in Nat \ {0}
  /\ {MaxTicks, MaxShots, MaxRocks, MaxRestarts, MaxOut, MaxInbox} \subseteq Nat

VARIABLES
  game,      \* the game of a player (struct Game)
  link,      \* its network loop, with the library's queue of events
  net,       \* the state datagrams on their way
  \* history and time
  ticks, shots, rocks, framed,
  life,      \* how many times a player has started
  sent,      \* the states that it queued in this life
  ignored    \* the hits of a player that another did not count

vars == <<game, link, net, ticks, shots, rocks, framed, life, sent, ignored>>

Nobody == 0
NoShip == [life |-> 0, n |-> 0, seq |-> 0, armed |-> FALSE, silent |-> 0, quiet |-> 0]
NoHit == [kind |-> "none"]

\* A game when its network task is started: at once in the native build, by the
\* menu in the wasm build.
NewGame ==
  [phase |-> "connecting",
   alive |-> FALSE, deadFor |-> 0, invuln |-> 0, bullets |-> 0,
   score |-> 0, kills |-> 0, seq |-> 0,
   seen |-> [q \in Players |-> 0], remotes |-> [q \in Players |-> NoShip]]

NewLink == [online |-> FALSE, out |-> <<>>, sending |-> NoHit, inbox |-> <<>>]

Init ==
  /\ game = [p \in Players |-> NewGame]
  /\ link = [p \in Players |-> NewLink]
  /\ net = {}
  /\ ticks = 0 /\ shots = 0 /\ rocks = 0
  /\ framed = [p \in Players |-> FALSE]
  /\ life = [p \in Players |-> 1] /\ sent = [p \in Players |-> 0]
  /\ ignored = [p \in Players |-> [q \in Players |-> 0]]

----------------------------------------------------------------------------
(* A frame *)

\* Mutant: any other number is newer.
SeqDiffers(seq, last) == seq # last

\* Is a state newer than the last, for numbers that wrap?
SeqNewer(seq, last) == (seq + SeqSpace - last) % SeqSpace < SeqSpace \div 2

\* Ships that were silent too long are dropped.
UpdateRemotes(g) ==
  [g EXCEPT !.remotes = [q \in Players |->
     IF @[q].silent > DropAfter THEN NoShip ELSE @[q]]]

Respawn(g) == [g EXCEPT !.alive = TRUE, !.bullets = 0, !.invuln = InvulnTime]

\* The input and the ship's own state: it fires, or it is time to respawn.
Fly(g, fire) ==
  IF g.alive THEN [g EXCEPT !.bullets = IF fire THEN BulletLife ELSE @]
  ELSE IF g.deadFor = 0 THEN Respawn(g) ELSE g

Vulnerable(g) == g.alive /\ g.invuln = 0

\* Mutant: the deaths are not numbered.
DieUnnumbered(g, shooter) ==
  [g EXCEPT !.alive = FALSE, !.deadFor = RespawnDelay, !.kills = 1]

\* A death; its own bullets fly on.
Die(g, shooter) ==
  [g EXCEPT !.alive = FALSE, !.deadFor = RespawnDelay,
            !.kills = IF shooter = Nobody THEN @ ELSE @ + 1]

Hit(p, g, shooter) == [kind |-> "hit", from |-> p, to |-> shooter, num |-> g.kills]

\* The state that is broadcast.
StateMsg(p, g) == [kind |-> "state", from |-> p, seq |-> g.seq,
                   armed |-> g.bullets > 0, life |-> life[p], n |-> sent[p]]

\* Mutant: the number is not wrapped.
NextSeqWide(s) == s + 1

NextSeq(s) == (s + 1) % SeqSpace

\* The rest of update(), in the arena: fly and fire, be struck by a rock or by
\* a bullet of a ship as that was last received, broadcast.
FrameArena(p, g) ==
  \E fire \in BOOLEAN, struck \in BOOLEAN, shooter \in Players \cup {Nobody} :
    LET flown == Fly(g, fire)
        after == IF struck THEN Die(flown, shooter) ELSE flown
        hits == IF shooter = Nobody THEN <<>> ELSE <<Hit(p, after, shooter)>>
    IN /\ fire => g.alive /\ p \in Heard /\ shots < MaxShots
       /\ struck => Vulnerable(flown)
       /\ struck /\ shooter = Nobody => rocks < MaxRocks /\ p \notin Heard
       /\ shooter # Nobody => struck /\ g.remotes[shooter].armed
       /\ shots' = IF fire THEN shots + 1 ELSE shots
       /\ rocks' = IF struck /\ shooter = Nobody THEN rocks + 1 ELSE rocks
       /\ game' = [game EXCEPT ![p] = [after EXCEPT !.seq = NextSeq(@)]]
       /\ link' = [link EXCEPT ![p].out = @ \o hits \o <<StateMsg(p, after)>>]
       /\ sent' = [sent EXCEPT ![p] = @ + 1]

Launched(g) == Respawn([g EXCEPT !.phase = "arena"])

\* A frame of the game loop.  In the native build Enter launches the ship.
Frame(p) ==
  LET g == UpdateRemotes(game[p]) IN
  /\ ~framed[p] /\ Len(link[p].out) < MaxOut
  /\ \/ g.phase = "arena" /\ FrameArena(p, g)
     \/ g.phase = "lobby" /\ p \notin WasmPlayers /\ FrameArena(p, Launched(g))
     \/ /\ g.phase # "arena"
        /\ game' = [game EXCEPT ![p] = g]
        /\ UNCHANGED <<link, shots, rocks, sent>>
  /\ framed' = [framed EXCEPT ![p] = TRUE]
  /\ UNCHANGED <<net, ticks, life, ignored>>

----------------------------------------------------------------------------
(* The buttons of the wasm build *)

\* "Launch", which is shown before the connection is there, and stays so until
\* it was pressed.
Launch(p) ==
  /\ p \in WasmPlayers /\ game[p].phase \in {"connecting", "lobby"}
  /\ game' = [game EXCEPT ![p] = Launched(@)]
  /\ UNCHANGED <<link, net, ticks, shots, rocks, framed, life, sent, ignored>>

\* The game of a player starts over in the same slot: "Leave" reloads the page,
\* whose session storage keeps the token, or another process takes the slot.
Restart(p) ==
  /\ FoldFunction(+, 0, [q \in Players |-> life[q] - 1]) < MaxRestarts
  /\ life' = [life EXCEPT ![p] = @ + 1]
  /\ game' = [game EXCEPT ![p] = NewGame]
  /\ link' = [link EXCEPT ![p] = NewLink]
  /\ net' = {d \in net : p \notin {d.from, d.to}}
  /\ sent' = [sent EXCEPT ![p] = 0]
  /\ ignored' = [ignored EXCEPT ![p] = [q \in Players |-> 0]]
  /\ UNCHANGED <<ticks, shots, rocks, framed>>

----------------------------------------------------------------------------
(* The network loop *)

\* The library is connected: Ready in the native build, the end of the await in
\* the wasm build, where the ship may be launched by now.
Ready(p) ==
  /\ ~link[p].online
  /\ link' = [link EXCEPT ![p].online = TRUE]
  /\ game' = [game EXCEPT ![p].phase = IF @ = "connecting" THEN "lobby" ELSE @]
  /\ UNCHANGED <<net, ticks, shots, rocks, framed, life, sent, ignored>>

\* The loop selects only when no reliable send is awaited.
Selects(p) == link[p].online /\ link[p].sending = NoHit

Copies(p, state) ==
  {[from |-> p, to |-> q, age |-> 0, state |-> state] :
     q \in {r \in Players \ {p} : p \in Heard /\ link[r].online}}

\* out_rx: a state is broadcast, a hit's send begins.
Out(p) ==
  /\ Selects(p) /\ link[p].out # <<>>
  /\ LET m == Head(link[p].out) IN
       IF m.kind = "hit"
       THEN /\ link' = [link EXCEPT ![p].out = Tail(@), ![p].sending = m]
            /\ UNCHANGED net
       ELSE /\ link' = [link EXCEPT ![p].out = Tail(@)]
            /\ net' = net \cup Copies(p, m)
  /\ UNCHANGED <<game, ticks, shots, rocks, framed, life, sent, ignored>>

\* The library, which may deliver a hit or fail to, after any time ...
HitSent(p) ==
  LET m == link[p].sending IN
  /\ m # NoHit
  /\ link' = [link EXCEPT ![p].sending = NoHit,
                ![m.to].inbox = IF link[m.to].online THEN Append(@, m) ELSE @]
  /\ UNCHANGED <<game, net, ticks, shots, rocks, framed, life, sent, ignored>>

HitFails(p) ==
  /\ link[p].sending # NoHit
  /\ link' = [link EXCEPT ![p].sending = NoHit]
  /\ UNCHANGED <<game, net, ticks, shots, rocks, framed, life, sent, ignored>>

\* ... and delivers datagrams in any order.
Arrive(d) ==
  /\ Len(link[d.to].inbox) < MaxInbox
  /\ net' = net \ {d}
  /\ link' = [link EXCEPT ![d.to].inbox = Append(@, d.state)]
  /\ UNCHANGED <<game, ticks, shots, rocks, framed, life, sent, ignored>>

\* on_state()
Seen(s) == [life |-> s.life, n |-> s.n, seq |-> s.seq, armed |-> s.armed,
            silent |-> 0, quiet |-> 0]

\* Mutant: a state that is refused keeps the ship alive all the same.
OnStateRefreshes(g, s) ==
  LET r == g.remotes[s.from] IN
  IF r = NoShip \/ SeqNewer(s.seq, r.seq)
  THEN [g EXCEPT !.remotes[s.from] = Seen(s)]
  ELSE [g EXCEPT !.remotes[s.from].silent = 0]

OnState(g, s) ==
  LET r == g.remotes[s.from] IN
  IF r = NoShip \/ SeqNewer(s.seq, r.seq)
  THEN [g EXCEPT !.remotes[s.from] = Seen(s)]
  ELSE g

\* on_msg() for a hit: counted unless its number is that of the last.
Counts(g, m) == g.seen[m.from] # m.num

OnHit(g, m) ==
  IF Counts(g, m)
  THEN [g EXCEPT !.seen[m.from] = m.num, !.score = @ + 1]
  ELSE g

\* next_event(): a message is taken to the game.  The native build queues it
\* for the next frame; to be read then is as good as to arrive then.
Receive(p) ==
  LET m == Head(link[p].inbox)
      before == game[p]
  IN
  /\ Selects(p) /\ link[p].inbox # <<>>
  /\ link' = [link EXCEPT ![p].inbox = Tail(@)]
  /\ IF m.kind = "state"
     THEN /\ game' = [game EXCEPT ![p] = OnState(before, m)]
          /\ UNCHANGED ignored
     ELSE /\ game' = [game EXCEPT ![p] = OnHit(before, m)]
          /\ ignored' = IF Counts(before, m) THEN ignored
                        ELSE [ignored EXCEPT ![p][m.from] = @ + 1]
  /\ UNCHANGED <<net, ticks, shots, rocks, framed, life, sent>>

----------------------------------------------------------------------------
(* Time *)

Less(n) == IF n = 0 THEN 0 ELSE n - 1

AgedShip(r) ==
  IF r = NoShip THEN NoShip ELSE [r EXCEPT !.silent = @ + 1, !.quiet = @ + 1]

Aged(g) ==
  [g EXCEPT !.deadFor = Less(@), !.invuln = Less(@), !.bullets = Less(@),
     !.remotes = [q \in Players |-> AgedShip(@[q])]]

\* Frames are much shorter than a tick.
Tick ==
  /\ ticks < MaxTicks /\ \A p \in Players : framed[p]
  /\ ticks' = ticks + 1
  /\ framed' = [p \in Players |-> FALSE]
  /\ game' = [p \in Players |-> Aged(game[p])]
  /\ net' = {[d EXCEPT !.age = @ + 1] : d \in {e \in net : e.age < MaxDelay}}
  /\ UNCHANGED <<link, shots, rocks, life, sent, ignored>>

\* A network loop that can run does so before anything else happens: to run
\* later is as good as a frame, or an arrival, that comes later.
Idle == \A p \in Players : Selects(p) => link[p].out = <<>> /\ link[p].inbox = <<>>

Next ==
  \/ \E p \in Players : Out(p) \/ Receive(p)
  \/ /\ Idle
     /\ \/ Tick
        \/ \E p \in Players :
             \/ Frame(p) \/ Launch(p) \/ Restart(p)
             \/ Ready(p) \/ HitSent(p) \/ HitFails(p)
        \/ \E d \in net : Arrive(d)

Spec == Init /\ [][Next]_vars

----------------------------------------------------------------------------
(* Properties *)

\* Every number and record is of its kind; a sequence number has the width of
\* the wire, and a dead ship waits no longer than the delay.
TypeOK ==
  \A p \in Players :
    /\ game[p].phase \in {"connecting", "lobby", "arena"}
    /\ game[p].alive \in BOOLEAN
    /\ game[p].seq \in 0 .. SeqSpace - 1
    /\ game[p].deadFor \in 0 .. RespawnDelay /\ game[p].invuln \in 0 .. InvulnTime
    /\ game[p].bullets \in 0 .. BulletLife
    /\ game[p].score \in Nat /\ game[p].kills \in Nat
    /\ \A q \in Players : game[p].remotes[q].silent \in 0 .. DropAfter + 1
    /\ game[p].alive => game[p].phase = "arena"

\* A hit that arrives is counted, except at most one for each time that the
\* victim started over: the shooter remembers the number of the last one only, and
\* the numbers of a new life start at one again.
KillsLostOnlyToRestarts ==
  \A p, q \in Players : ignored[p][q] <= life[q] - 1

\* A ship is shown no longer than DropAfter (and the frame that drops it) after
\* the last state of that life of the ship was received: the states of a new
\* life, which are refused as long as the old ship is there, do not keep it.
GhostsFade ==
  \A p, q \in Players : game[p].remotes[q].quiet <= DropAfter + 1

\* Whatever the order of the datagrams, a ship that is shown is not replaced by
\* an earlier state of the same player, across the wrap of the numbers.
Earlier(a, b) == a.life < b.life \/ (a.life = b.life /\ a.n < b.n)

StateNeverOlder ==
  [][\A p, q \in Players :
       LET old == game[p].remotes[q]
           new == game'[p].remotes[q]
       IN new # NoShip => ~Earlier(new, old)]_vars
=============================================================================
