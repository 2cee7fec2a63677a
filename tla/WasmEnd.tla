------------------------------ MODULE WasmEnd ------------------------------
(***************************************************************************)
(* An end run by the browser backend (clients/rust/src/wasm/inner.rs and   *)
(* create_link of wasm/link.rs).  Callbacks run at once on the only        *)
(* thread, but what awaits a WebRTC promise is a task of its own: `work`   *)
(* holds the tasks, and between two of their steps any other may run.  The *)
(* handlers of a closed link are detached, so a task asks only whether its *)
(* own link is still the current one.                                      *)
(***************************************************************************)
EXTENDS Pairing

WasmSendSignal(e, m) ==
  IF e.closed \/ ~e.open THEN e ELSE [e EXCEPT !.up = Append(@, m)]

WasmClosePeer(e) == [e EXCEPT !.link = NoLink]

WasmCreateLink(e) ==
  [WasmClosePeer(e) EXCEPT !.epoch = @ + 1, !.link = LinkNumbered(e.epoch + 1),
                           !.tries = @ + 1]

Spawn(e, task, remote) ==
  [e EXCEPT !.work = Append(@, [task |-> task, link |-> e.link.id, remote |-> remote])]

WasmInitiatePeer(e) == IF e.closed THEN e ELSE Spawn(WasmCreateLink(e), "offer", 0)

WasmResetPeer(p, e) ==
  LET r == [WasmClosePeer(e) EXCEPT !.rebuilds = 0, !.tries = 0] IN
  IF p < Other(p) THEN WasmInitiatePeer(r) ELSE r

\* The offers connect() makes once it has joined.
WasmConnected(p, e) ==
  IF p < Other(p) /\ e.roster = Present THEN WasmInitiatePeer(e) ELSE e

WasmTeardownPeers(e) == WasmClosePeer(e)

WasmShutdown(e) ==
  [WasmTeardownPeers(WasmSendSignal(e, [type |-> "leave"]))
     EXCEPT !.closed = TRUE, !.open = FALSE, !.work = <<>>, !.timers = {}]

WasmFlush(l) ==
  [AddCandidates(l, l.pending) EXCEPT !.pending = {}, !.flushed = TRUE]

\* The start of handle_signal, up to its first await.
WasmOnOffer(p, e, m) ==
  IF p < Other(p) THEN e ELSE Spawn(WasmCreateLink(e), "take-offer", m.id)

WasmOnAnswer(e, m) ==
  IF e.link.sdp # "have-local-offer" THEN e ELSE Spawn(e, "take-answer", m.id)

WasmOnIce(e, m) ==
  IF e.link = NoLink THEN e
  ELSE IF e.link.flushed THEN [e EXCEPT !.link = AddCandidates(@, {m.id})]
  ELSE [e EXCEPT !.link.pending = @ \cup {m.id}]

WasmOnPlayerLeft(e, m) ==
  IF m.explicit THEN WasmClosePeer([e EXCEPT !.roster = Nobody])
  ELSE [e EXCEPT !.roster.connected = FALSE]

WasmOnError(e, m) ==
  [IF m.code = "slow-consumer" THEN e ELSE WasmTeardownPeers(e)
     EXCEPT !.fatal = TRUE, !.reports = @ + 1]

WasmOnClose(e) ==
  IF e.closed \/ e.fatal THEN e
  ELSE [e EXCEPT !.fatal = TRUE, !.reports = @ + 1]

WasmHandleServerMessage(p, e, m) ==
  CASE m.type = "player-joined" -> WasmResetPeer(p, [e EXCEPT !.roster = m.roster])
    [] m.type = "player-rejoined" -> WasmResetPeer(p, [e EXCEPT !.roster = Present])
    [] m.type = "player-left" -> WasmOnPlayerLeft(e, m)
    [] m.type = "room-started"  -> [e EXCEPT !.started = TRUE]
    [] m.type = "offer"         -> WasmOnOffer(p, e, m)
    [] m.type = "answer"        -> WasmOnAnswer(e, m)
    [] m.type = "ice"           -> WasmOnIce(e, m)
    [] m.type = "error"         -> WasmOnError(e, m)
    [] m.type = "ws-closed"     -> WasmOnClose(e)

\* offer_flow: create_offer and setLocalDescription, then the offer goes out.
OfferFlow(e) ==
  WasmSendSignal([e EXCEPT !.link.sdp = "have-local-offer"],
                 [type |-> "offer", id |-> e.link.id])

\* answer_flow up to its flush, and from there to the answer.
TakeOffer(e, remote) ==
  Spawn([e EXCEPT !.link = WasmFlush([@ EXCEPT !.remote = remote,
                                              !.sdp = "have-remote-offer"])],
        "answer", remote)

AnswerFlow(e) ==
  WasmSendSignal([e EXCEPT !.link.sdp = "stable"], [type |-> "answer", id |-> e.link.id])

\* Mutant: the candidates that came before the answer stay held back.
TakeAnswerHolds(e, remote) ==
  IF e.link.sdp # "have-local-offer" THEN e
  ELSE [e EXCEPT !.link.remote = remote, !.link.sdp = "stable"]

\* setRemoteDescription of an answer, refused when another came first.
TakeAnswer(e, remote) ==
  IF e.link.sdp # "have-local-offer" THEN e
  ELSE [e EXCEPT !.link = WasmFlush([@ EXCEPT !.remote = remote, !.sdp = "stable"])]

\* A task goes on; it ends when its link has been closed meanwhile.
Resume(e, t) ==
  IF e.link.id # t.link THEN e
  ELSE CASE t.task = "offer"       -> OfferFlow(e)
         [] t.task = "take-offer"  -> TakeOffer(e, t.remote)
         [] t.task = "answer"      -> AnswerFlow(e)
         [] t.task = "take-answer" -> TakeAnswer(e, t.remote)

\* The task goes on: it is no longer among those that wait.
TaskTaken(e, i) ==
  [e EXCEPT !.work = SubSeq(@, 1, i - 1) \o SubSeq(@, i + 1, Len(@))]

WasmHandlePeerFailure(p, e) ==
  IF Other(p) < p THEN e
  ELSE [e EXCEPT !.rebuilds = @ + 1,
                 !.timers = IF e.rebuilds + 1 > MaxRebuilds THEN @
                            ELSE @ \cup {e.link.id}]

WasmRebuild(e, n) ==
  IF e.link.id # n \/ e.link.pc # "failed" \/ e.roster # Present
    THEN e ELSE WasmInitiatePeer(e)

\* The handlers create_link installs on the peer connection.
WasmOnIceCandidate(e) ==
  WasmSendSignal([e EXCEPT !.link.gathered = TRUE], [type |-> "ice", id |-> e.link.id])

WasmOnConnectionState(p, e, state) ==
  LET s == [e EXCEPT !.link.pc = state] IN
  CASE state = "connected" -> [s EXCEPT !.rebuilds = 0, !.tries = 0]
    [] state = "failed"    -> WasmHandlePeerFailure(p, s)

----------------------------------------------------------------------------
Wasm(p) == backend[p] = "wasm" /\ ~end[p].closed

WasmReceives(p) ==
  /\ Wasm(p) /\ down[p] # <<>>
  /\ UNCHANGED <<backend, seat, started, drops, failures>>
  /\ down' = [down EXCEPT ![p] = Tail(@)]
  /\ end' = [end EXCEPT ![p] = WasmHandleServerMessage(p, @, Head(down[p]))]

\* WebRTC chains the operations of one connection: of the tasks of a link the
\* oldest goes on first.
WasmWorks(p) ==
  /\ Wasm(p)
  /\ UNCHANGED <<backend, seat, started, down, drops, failures>>
  /\ \E i \in 1 .. Len(end[p].work) :
       LET t == end[p].work[i] IN
       /\ \A j \in 1 .. i - 1 : end[p].work[j].link # t.link
       /\ end' = [end EXCEPT ![p] = Resume(TaskTaken(@, i), t)]

WasmRebuilds(p) ==
  /\ Wasm(p)
  /\ UNCHANGED <<backend, seat, started, down, drops, failures>>
  /\ \E n \in end[p].timers :
       end' = [end EXCEPT ![p] = WasmRebuild(TimerTaken(@, n), n)]

WasmCloses(p) ==
  /\ Wasm(p) /\ drops < MaxDrops
  /\ UNCHANGED <<backend, seat, started, failures>>
  /\ down' = [down EXCEPT ![p] = <<>>]
  /\ drops' = drops + 1
  /\ end' = [end EXCEPT ![p] = WasmShutdown(@)]
=============================================================================
