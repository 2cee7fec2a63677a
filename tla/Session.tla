------------------------------ MODULE Session ------------------------------
(***************************************************************************)
(* The life of the games of one player on one token store (storage_path of *)
(* the native backend, storage_key of the browser's): connect, the stored  *)
(* token, the loss of the connection, close and crash, against the seats   *)
(* of one room.  Games of several processes or tabs may share the store.   *)
(*                                                                         *)
(* The server makes a new token whenever it seats a game, so the token of  *)
(* game g is g, and 0 is no token.                                         *)
(***************************************************************************)
EXTENDS Naturals, Sequences, FiniteSets

CONSTANTS
  MaxGames,    \* bound: calls of connect()
  MaxAlive,    \* bound: games of the store at one time
  Slots,       \* the slots of the room
  MaxFaults    \* bound: cuts, crashes, claims and expiries

ASSUME SessionConstants ==
  /\ MaxGames \in Nat /\ MaxAlive \in Nat /\ MaxFaults \in Nat
  /\ Slots \subseteq Nat /\ IsFiniteSet(Slots)

VARIABLES
  backend,   \* of the games, "native" or "wasm"
  store,     \* the stored token
  slot,      \* the server: the token a slot is kept by, and the game attached
  game,      \* the games
  up, down,  \* what a game has sent to the server, and the server to it
  faults,
  stray      \* tokens given up with a seat that they may keep (a record only)

vars == <<backend, store, slot, game, up, down, faults, stray>>

Games == 1 .. MaxGames
Free == [token |-> 0, holder |-> 0]

NewGame == [phase |-> "none", tried |-> 0, claim |-> FALSE, slot |-> 0, over |-> ""]

Init ==
  /\ backend \in {"native", "wasm"}
  /\ store = 0 /\ faults = 0 /\ stray = {}
  /\ slot = [s \in Slots |-> Free]
  /\ game = [g \in Games |-> NewGame]
  /\ up = [g \in Games |-> <<>>] /\ down = [g \in Games |-> <<>>]

Native == backend = "native"
Wasm == backend = "wasm"
Phase(g) == game[g].phase
Alive(g) == Phase(g) \in {"dialing", "joining", "playing", "closing"}

\* All the socket of g still carries to the server, ended by its end.
HangUp(g, last) == up' = [up EXCEPT ![g] = @ \o last \o <<"eof">>]

Deaf(g) == down' = [down EXCEPT ![g] = <<>>]

\* Messages for g, who may have gone.
Post(d, g, ms) == IF Alive(g) THEN [d EXCEPT ![g] = @ \o ms] ELSE d

Now(g, phase) == game' = [game EXCEPT ![g].phase = phase]

----------------------------------------------------------------------------
(* connect() *)

\* A game is begun, with a claim or to resume.  The games of a store are begun
\* one after the other, but one need not have ended for the next.
Begin(g, token) ==
  /\ Phase(g) = "none" /\ \A h \in 1 .. g - 1 : Phase(h) # "none"
  /\ Cardinality({h \in Games : Alive(h)}) < MaxAlive
  /\ \E claim \in BOOLEAN :
       /\ claim => faults < MaxFaults
       /\ game' = [game EXCEPT ![g] = [NewGame EXCEPT !.phase = "dialing",
                     !.claim = claim, !.tried = IF claim THEN 0 ELSE token]]
       /\ faults' = IF claim THEN faults + 1 ELSE faults

\* The native backend loads the token when the socket is open ...
NativeConnect(g) ==
  /\ Native /\ Begin(g, 0)
  /\ UNCHANGED <<backend, store, slot, up, down, stray>>

NativeJoin(g) ==
  /\ Native /\ Phase(g) = "dialing"
  /\ game' = [game EXCEPT ![g].phase = "joining",
                          ![g].tried = IF game[g].claim THEN 0 ELSE store]
  /\ up' = [up EXCEPT ![g] = <<"join">>]
  /\ UNCHANGED <<backend, store, slot, down, faults, stray>>

\* ... the browser backend before it opens one.
WasmConnect(g) ==
  /\ Wasm /\ Begin(g, store)
  /\ UNCHANGED <<backend, store, slot, up, down, stray>>

WasmOnOpen(g) ==
  /\ Wasm /\ Phase(g) = "dialing"
  /\ Now(g, "joining")
  /\ up' = [up EXCEPT ![g] = <<"join">>]
  /\ UNCHANGED <<backend, store, slot, down, faults, stray>>

\* The stored token is given up, unless it is among those that are spent.
Forget(spent) == stray' = stray \cup ({store} \ ({0} \cup spent))

\* The answer: the token is saved and the game runs, or connect() fails.  The
\* token it resumed with is spent; another one in the store is lost.
Answer(g) ==
  /\ Phase(g) = "joining" /\ down[g] # <<>>
  /\ LET m == Head(down[g]) IN
     IF m.type = "joined"
       THEN /\ game' = [game EXCEPT ![g].phase = "playing", ![g].slot = m.slot]
            /\ store' = g /\ Forget({game[g].tried})
            /\ down' = [down EXCEPT ![g] = Tail(@)]
            /\ UNCHANGED up
       ELSE /\ Now(g, "failed") /\ HangUp(g, <<>>) /\ Deaf(g)
            /\ UNCHANGED <<store, stray>>
  /\ UNCHANGED <<backend, slot, faults>>

NativeHandshake(g) == Native /\ Answer(g)
WasmHandshake(g) == Wasm /\ Answer(g)

\* A game that is given up once it has asked for a seat may have got one.
Abandon(g) == stray' = IF Phase(g) = "joining" THEN stray \cup {g} ELSE stray

\* Mutant: the socket of a connect that was given up stays open.
GivesUpHolding(g) ==
  /\ Phase(g) \in {"dialing", "joining"}
  /\ Now(g, "failed") /\ Deaf(g) /\ Abandon(g)
  /\ UNCHANGED <<backend, store, slot, up, faults>>

\* connect() gives up: the socket is dropped, the answer may be on its way.
GivesUp(g) ==
  /\ Phase(g) \in {"dialing", "joining"}
  /\ Now(g, "failed") /\ HangUp(g, <<>>) /\ Deaf(g) /\ Abandon(g)
  /\ UNCHANGED <<backend, store, slot, faults>>

NativeTimeout(g) == Native /\ GivesUp(g)
WasmTimeout(g) == Wasm /\ GivesUp(g)

----------------------------------------------------------------------------
(* A running game *)

GameOverCodes == {"replaced", "session-superseded", "room-expired"}
FatalCodes == GameOverCodes \cup {"slow-consumer"}
ClearingCodes == GameOverCodes \ {"session-superseded"}

\* The store as g clears it, whoever's token is in it by now.
Clear(g) == store' = 0 /\ Forget({g})

\* Mutant: the end of the socket is kept as the reason.
LossRaw(g, m) ==
  /\ game' = [game EXCEPT ![g].over = m.type]
  /\ IF m.type \in ClearingCodes THEN Clear(g) ELSE UNCHANGED <<store, stray>>
  /\ down' = [down EXCEPT ![g] = Tail(@)]
  /\ UNCHANGED <<backend, slot, up, faults>>

\* An error that ends the game takes the token with it, unless another game of
\* ours has the new one.
Loss(g, m) ==
  /\ game' = [game EXCEPT ![g].over =
       IF m.type \in FatalCodes THEN m.type ELSE IF @ = "" THEN "connection-lost" ELSE @]
  /\ IF m.type \in ClearingCodes THEN Clear(g) ELSE UNCHANGED <<store, stray>>
  /\ down' = [down EXCEPT ![g] = Tail(@)]
  /\ UNCHANGED <<backend, slot, up, faults>>

NativeLoss(g) == Native /\ Phase(g) = "playing" /\ down[g] # <<>> /\ Loss(g, Head(down[g]))
WasmLoss(g) == Wasm /\ Phase(g) = "playing" /\ down[g] # <<>> /\ Loss(g, Head(down[g]))

\* Mutant: the game goes without a word.
LeavingSilently(g) == <<>>

Leaving(g) == IF game[g].over = "" THEN <<"leave">> ELSE <<>>

\* Of a seat that is kept for it no leave is heard if the connection is lost.
Desert(g) == {h \in {g} : \E s \in Slots : slot[s].token = h /\ slot[s].holder # h}

\* close() or the drop of the game tell the actor, which leaves the room ...
NativeShutdown(g) ==
  /\ Native /\ Phase(g) = "playing"
  /\ Now(g, "closing") /\ HangUp(g, Leaving(g)) /\ Deaf(g)
  /\ stray' = stray \cup Desert(g)
  /\ UNCHANGED <<backend, store, slot, faults>>

\* ... and in the end clears the store.
NativeClear(g) ==
  /\ Native /\ Phase(g) = "closing"
  /\ Now(g, "closed") /\ Clear(g)
  /\ UNCHANGED <<backend, slot, up, down, faults>>

WasmShutdown(g) ==
  /\ Wasm /\ Phase(g) = "playing"
  /\ Now(g, "closed") /\ HangUp(g, Leaving(g)) /\ Deaf(g)
  /\ store' = 0
  /\ stray' = stray \cup Desert(g) \cup ({store} \ {0, g})
  /\ UNCHANGED <<backend, slot, faults>>

\* The process or the tab dies.
Crash(g) ==
  /\ Alive(g) /\ faults < MaxFaults
  /\ Now(g, "dead") /\ HangUp(g, <<>>) /\ Deaf(g) /\ Abandon(g)
  /\ faults' = faults + 1
  /\ UNCHANGED <<backend, store, slot>>

----------------------------------------------------------------------------
(* The server; Lobby has the whole of it. *)

Ended(code) == <<[type |-> code], [type |-> "closed"]>>

\* Mutant: the one who sat there is not kicked.
SeatedQuietly(g, s, code) == Post(down, g, <<[type |-> "joined", slot |-> s]>>)

\* down once g sits in s and whoever was attached there has been kicked.
Seated(g, s, code) ==
  LET h == slot[s].holder
      kicked == IF h = 0 THEN down ELSE Post(down, h, Ended(code)) IN
  Post(kicked, g, <<[type |-> "joined", slot |-> s]>>)

Seat(g, s, code) ==
  /\ slot' = [slot EXCEPT ![s] = [token |-> g, holder |-> g]]
  /\ down' = Seated(g, s, code)

Kept(token) == {s \in Slots : token # 0 /\ slot[s].token = token}
FreeSlots == {s \in Slots : slot[s] = Free}

Join(g) ==
  LET mine == Kept(game[g].tried) IN
  IF game[g].claim
    THEN \E s \in Slots : Seat(g, s, "replaced")
  ELSE IF mine # {}
    THEN \E s \in mine : Seat(g, s, "session-superseded")
  ELSE IF FreeSlots # {}
    THEN \E s \in FreeSlots : (\A f \in FreeSlots : s <= f) /\ Seat(g, s, "")
  ELSE /\ down' = Post(down, g, Ended("room-full"))
       /\ UNCHANGED slot

\* What g sends is read.  One that is not attached any more is not heard.
Serve(g) ==
  /\ up[g] # <<>>
  /\ up' = [up EXCEPT ![g] = Tail(@)]
  /\ \/ Head(up[g]) = "join" /\ Join(g)
     \/ /\ Head(up[g]) = "leave"
        /\ slot' = [s \in Slots |-> IF slot[s].holder = g THEN Free ELSE slot[s]]
        /\ UNCHANGED down
     \/ /\ Head(up[g]) = "eof"
        /\ slot' = [s \in Slots |-> IF slot[s].holder = g
                                      THEN [slot[s] EXCEPT !.holder = 0] ELSE slot[s]]
        /\ UNCHANGED down
  /\ UNCHANGED <<backend, store, game, faults, stray>>

LeaveUnderway(g) == \E i \in DOMAIN up[g] : up[g][i] = "leave"

\* A connection is lost, or the server drops a slow consumer.
Cut(s) ==
  LET g == slot[s].holder IN
  /\ g # 0 /\ faults < MaxFaults
  /\ slot' = [slot EXCEPT ![s].holder = 0]
  /\ up' = [up EXCEPT ![g] = <<>>]
  /\ \E last \in {Ended("slow-consumer"), <<[type |-> "closed"]>>} :
       down' = Post(down, g, last)
  /\ faults' = faults + 1
  /\ stray' = IF LeaveUnderway(g) THEN stray \cup {g} ELSE stray
  /\ UNCHANGED <<backend, store, game>>

Expire ==
  /\ \E s \in Slots : slot[s] # Free
  /\ faults < MaxFaults
  /\ slot' = [s \in Slots |-> Free]
  /\ down' = [g \in Games |->
       IF \E s \in Slots : slot[s].holder = g
         THEN Post(down, g, Ended("room-expired"))[g] ELSE down[g]]
  /\ faults' = faults + 1
  /\ UNCHANGED <<backend, store, game, up, stray>>

----------------------------------------------------------------------------
ClientStep(g) ==
  \/ NativeConnect(g) \/ NativeJoin(g) \/ NativeHandshake(g) \/ NativeTimeout(g)
  \/ NativeLoss(g) \/ NativeShutdown(g) \/ NativeClear(g)
  \/ WasmConnect(g) \/ WasmOnOpen(g) \/ WasmHandshake(g) \/ WasmTimeout(g)
  \/ WasmLoss(g) \/ WasmShutdown(g) \/ Crash(g)

Next ==
  \/ Expire
  \/ \E s \in Slots : Cut(s)
  \/ \E g \in Games : ClientStep(g) \/ Serve(g)

\* The server reads what is sent.
Spec == Init /\ [][Next]_vars /\ \A g \in Games : WF_vars(Serve(g))

----------------------------------------------------------------------------
DownTypes == FatalCodes \cup {"closed", "room-full"}

Records ==
  [phase : {"none", "dialing", "joining", "playing", "closing", "closed", "failed", "dead"},
   tried : 0 .. MaxGames, claim : BOOLEAN, slot : Slots \cup {0},
   over : FatalCodes \cup {"", "connection-lost"}]

\* The types of the store, the slots, the games and their sockets.
TypeOK ==
  /\ backend \in {"native", "wasm"} /\ store \in 0 .. MaxGames
  /\ slot \in [Slots -> [token : 0 .. MaxGames, holder : 0 .. MaxGames]]
  /\ game \in [Games -> Records]
  /\ up \in [Games -> Seq({"join", "leave", "eof"})]
  /\ down \in [Games -> Seq([type : DownTypes] \cup [type : {"joined"}, slot : Slots])]
  /\ faults \in 0 .. MaxFaults /\ stray \subseteq Games

\* A game that has heard all it was sent and still believes to be in the room
\* is the one attached to its slot: of games that contend for a slot with the
\* same token, or by claims, all but one are told.
BelievesRightly ==
  \A g \in Games :
    Phase(g) = "playing" /\ game[g].over = "" /\ down[g] = <<>> =>
      slot[game[g].slot].holder = g

\* The games of a store keep one seat, that of the stored token: through crashes,
\* losses and expiries each new game takes the seat of the last.  Each of these
\* may leave the seat of one token behind, and nothing else does: to give up a
\* connect or crash in it once it has asked for a seat, to close a game that has
\* lost its connection, to lose the connection while the leave is under way, to
\* clear the store of the token of another game, and to save a token over it.
Vacated(s) == slot[s].holder # 0 /\ LeaveUnderway(slot[s].holder)
Owned == {s \in Slots :
            slot[s] # Free /\ ~Vacated(s) /\ slot[s].token \notin stray
            /\ Phase(slot[s].token) # "joining"}
OneSeat == \A s \in Owned : slot[s].token = store /\ Owned = {s}

\* A game that is over, or a connect that was given up, does not stay attached,
\* though its answer was on the way: the seat comes to be vacant.
GhostsDetached ==
  \A g \in Games :
    []<>(Phase(g) \in {"failed", "closed", "dead"} =>
           \A s \in Slots : slot[s].holder # g)

\* A game whose session was superseded does not delete the token of the store
\* when it is closed, since the game that superseded it owns the token.
SupersededSparesToken ==
  [][ \A g \in Games :
        game[g].over = "session-superseded" /\ game'[g].phase # Phase(g) =>
          store' = store ]_vars
=============================================================================
