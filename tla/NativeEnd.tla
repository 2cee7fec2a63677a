----------------------------- MODULE NativeEnd -----------------------------
(***************************************************************************)
(* An end run by the native backend (clients/rust/src/native/actor.rs):    *)
(* one actor owns the state and handles one message at a time, awaiting    *)
(* WebRTC inside the handler.  WebRTC's callbacks only send it messages,   *)
(* which carry the epoch of their link; `work` holds those.                *)
(***************************************************************************)
EXTENDS Pairing

SendSignal(e, m) ==
  IF e.closed \/ ~e.open THEN e ELSE [e EXCEPT !.up = Append(@, m)]

ClosePeer(e) == [e EXCEPT !.link = NoLink]

CreateLink(e) ==
  [ClosePeer(e) EXCEPT !.epoch = @ + 1, !.link = LinkNumbered(e.epoch + 1),
                       !.tries = @ + 1]

InitiatePeer(e) ==
  IF e.closed THEN e
  ELSE LET c == CreateLink(e) IN
       SendSignal([c EXCEPT !.link.sdp = "have-local-offer"],
                  [type |-> "offer", id |-> c.link.id])

ResetPeer(p, e) ==
  LET r == [ClosePeer(e) EXCEPT !.rebuilds = 0, !.tries = 0] IN
  IF p < Other(p) THEN InitiatePeer(r) ELSE r

\* The offers the actor makes before its loop.
Run(p, e) == IF p < Other(p) /\ e.roster = Present THEN InitiatePeer(e) ELSE e

TeardownPeers(e) == ClosePeer(e)

Shutdown(e) ==
  [TeardownPeers(SendSignal(e, [type |-> "leave"]))
     EXCEPT !.closed = TRUE, !.open = FALSE, !.work = <<>>, !.timers = {}]

FlushCandidates(l) ==
  [AddCandidates(l, l.pending) EXCEPT !.pending = {}, !.flushed = TRUE]

OnOffer(p, e, m) ==
  IF p < Other(p) THEN e
  ELSE LET c == CreateLink(e)
           l == FlushCandidates([c.link EXCEPT !.remote = m.id]) IN
       SendSignal([c EXCEPT !.link = [l EXCEPT !.sdp = "stable"]],
                  [type |-> "answer", id |-> l.id])

OnAnswer(e, m) ==
  IF e.link.sdp # "have-local-offer" THEN e
  ELSE [e EXCEPT !.link = FlushCandidates([@ EXCEPT !.remote = m.id, !.sdp = "stable"])]

\* Mutant: a candidate is never held back.
OnIceAtOnce(e, m) ==
  IF e.link = NoLink THEN e ELSE [e EXCEPT !.link = AddCandidates(@, {m.id})]

OnIce(e, m) ==
  IF e.link = NoLink THEN e
  ELSE IF e.link.flushed THEN [e EXCEPT !.link = AddCandidates(@, {m.id})]
  ELSE [e EXCEPT !.link.pending = @ \cup {m.id}]

\* Mutant: the seat of a player that left is half cleared.
OnPlayerLeftHalf(e, m) ==
  IF m.explicit THEN ClosePeer([e EXCEPT !.roster.occupied = FALSE])
  ELSE [e EXCEPT !.roster.connected = FALSE]

OnPlayerLeft(e, m) ==
  IF m.explicit THEN ClosePeer([e EXCEPT !.roster = Nobody])
  ELSE [e EXCEPT !.roster.connected = FALSE]

OnError(e, m) ==
  [IF m.code = "slow-consumer" THEN e ELSE TeardownPeers(e)
     EXCEPT !.fatal = TRUE, !.reports = @ + 1]

\* Mutant: the end of the socket is reported after an error, too.
OnWsClosedAgain(e) ==
  IF e.closed THEN e ELSE [e EXCEPT !.fatal = TRUE, !.reports = @ + 1]

OnWsClosed(e) ==
  IF e.closed \/ e.fatal THEN e
  ELSE [e EXCEPT !.fatal = TRUE, !.reports = @ + 1]

HandleServerMessage(p, e, m) ==
  CASE m.type = "player-joined" -> ResetPeer(p, [e EXCEPT !.roster = m.roster])
    [] m.type = "player-rejoined" -> ResetPeer(p, [e EXCEPT !.roster = Present])
    [] m.type = "player-left" -> OnPlayerLeft(e, m)
    [] m.type = "room-started"  -> [e EXCEPT !.started = TRUE]
    [] m.type = "offer"         -> OnOffer(p, e, m)
    [] m.type = "answer"        -> OnAnswer(e, m)
    [] m.type = "ice"           -> OnIce(e, m)
    [] m.type = "error"         -> OnError(e, m)
    [] m.type = "ws-closed"     -> OnWsClosed(e)

LinkEpochCurrent(e, n) == e.link.id = n

\* Mutant: one rebuild too many.
HandlePeerFailureOnceMore(p, e) ==
  IF Other(p) < p THEN e
  ELSE [e EXCEPT !.rebuilds = @ + 1,
                 !.timers = IF e.rebuilds > MaxRebuilds THEN @ ELSE @ \cup {e.link.id}]

HandlePeerFailure(p, e) ==
  IF Other(p) < p THEN e
  ELSE [e EXCEPT !.rebuilds = @ + 1,
                 !.timers = IF e.rebuilds + 1 > MaxRebuilds THEN @
                            ELSE @ \cup {e.link.id}]

HandlePeerState(p, e, state) ==
  CASE state = "connected" -> [e EXCEPT !.rebuilds = 0, !.tries = 0]
    [] state = "failed"    -> HandlePeerFailure(p, e)

\* A message of a callback, told from those of an earlier link by its epoch.
HandleInternal(p, e, c) ==
  IF ~LinkEpochCurrent(e, c.epoch) THEN e
  ELSE IF c.kind = "ice" THEN SendSignal(e, [type |-> "ice", id |-> e.link.id])
  ELSE HandlePeerState(p, e, c.kind)

\* Mutant: the timer of a link that was replaced rebuilds its successor.
RebuildAnyway(e, n) == IF e.roster # Present THEN e ELSE InitiatePeer(e)

Rebuild(e, n) ==
  IF ~LinkEpochCurrent(e, n) \/ e.link.pc # "failed" \/ e.roster # Present
    THEN e ELSE InitiatePeer(e)

\* The actor receives the oldest message of its callbacks.
WorkTaken(e) == [e EXCEPT !.work = Tail(@)]

\* The callbacks of the peer connection.
OnIceCandidate(e) ==
  [e EXCEPT !.link.gathered = TRUE,
            !.work = Append(@, [kind |-> "ice", epoch |-> e.link.id])]

OnPeerConnectionState(e, state) ==
  [e EXCEPT !.link.pc = state,
            !.work = Append(@, [kind |-> state, epoch |-> e.link.id])]

----------------------------------------------------------------------------
Native(p) == backend[p] = "native" /\ ~end[p].closed

NativeReceives(p) ==
  /\ Native(p) /\ down[p] # <<>>
  /\ UNCHANGED <<backend, seat, started, drops, failures>>
  /\ down' = [down EXCEPT ![p] = Tail(@)]
  /\ end' = [end EXCEPT ![p] = HandleServerMessage(p, @, Head(down[p]))]

NativeWorks(p) ==
  /\ Native(p) /\ end[p].work # <<>>
  /\ UNCHANGED <<backend, seat, started, down, drops, failures>>
  /\ end' = [end EXCEPT
       ![p] = HandleInternal(p, WorkTaken(@), Head(@.work))]

NativeRebuilds(p) ==
  /\ Native(p)
  /\ UNCHANGED <<backend, seat, started, down, drops, failures>>
  /\ \E n \in end[p].timers :
       end' = [end EXCEPT ![p] = Rebuild(TimerTaken(@, n), n)]

\* The game is closed or dropped.
NativeCloses(p) ==
  /\ Native(p) /\ drops < MaxDrops
  /\ UNCHANGED <<backend, seat, started, failures>>
  /\ down' = [down EXCEPT ![p] = <<>>]
  /\ drops' = drops + 1
  /\ end' = [end EXCEPT ![p] = Shutdown(@)]
=============================================================================
