------------------------------ MODULE Interop ------------------------------
(***************************************************************************)
(* A pair of players of one room, each on either backend of clients/rust:  *)
(* NativeEnd and WasmEnd composed through the server's relay and WebRTC.   *)
(***************************************************************************)
EXTENDS NativeEnd, WasmEnd

CONSTANT Builds   \* the pairs <<backend of Low, backend of High>> considered

ASSUME BuildsAreBackends ==
  Builds \subseteq [Ends -> {"native", "wasm"}]

----------------------------------------------------------------------------
\* connect() has joined; the backend takes over and makes its first offers.
Joined(p, e) == IF backend[p] = "native" THEN Run(p, e) ELSE WasmConnected(p, e)

\* connect() of a new process succeeds at p.  The game it follows is dropped:
\* one whose signaling is lost, or one whose seat it takes over.
Enters(p) ==
  LET fresh == ~seat[p].occupied
      full == fresh /\ seat[Other(p)].occupied IN
  /\ Seat(p, fresh, TRUE)
  /\ end' = [end EXCEPT
       ![p] = Joined(p, Game(@.epoch, seat[Other(p)], started \/ full))]
  /\ UNCHANGED <<backend, failures>>

\* A new process takes the slot.
Enter(p) ==
  /\ ~seat[p].connected
  /\ end[p].refused => Len(down[Other(p)]) + Len(end[Other(p)].up) <= MaxBehind
  /\ Enters(p)
  /\ UNCHANGED drops

\* It takes it from a game that is still connected, with the token or by a claim.
\* The server kicks the transport of that game, which is not looked at any more.
TakeOver(p) ==
  /\ seat[p].connected /\ drops < MaxDrops
  /\ Enters(p)
  /\ drops' = drops + 1

\* It takes it in one of these ways and refuses the joined message: connect()
\* fails, and nobody is connected there.
Refuse(p) ==
  /\ drops < MaxDrops /\ failures < MaxFailures
  /\ Seat(p, ~seat[p].occupied, FALSE)
  /\ end' = [end EXCEPT ![p] = [Gone(@) EXCEPT !.refused = seat[p].occupied]]
  /\ drops' = drops + 1 /\ failures' = failures + 1
  /\ UNCHANGED backend

Gathered(p) ==
  /\ MayGather(p)
  /\ UNCHANGED <<backend, seat, started, down, drops, failures>>
  /\ end' = [end EXCEPT ![p] = IF backend[p] = "native" THEN OnIceCandidate(@)
                               ELSE WasmOnIceCandidate(@)]

StateChanges(p, state) ==
  /\ UNCHANGED <<backend, seat, started, down, drops>>
  /\ end' = [end EXCEPT
       ![p] = IF backend[p] = "native" THEN OnPeerConnectionState(@, state)
              ELSE WasmOnConnectionState(p, @, state)]

Connects(p) == MayConnect(p) /\ StateChanges(p, "connected") /\ UNCHANGED failures
Fails(p) == MayFail(p) /\ StateChanges(p, "failed") /\ UNCHANGED failures

\* A sound connection breaks, or is not established in time.
Breaks(p) ==
  /\ failures < MaxFailures
  /\ Negotiated(p) /\ end[p].link.pc # "failed"
  /\ StateChanges(p, "failed")
  /\ failures' = failures + 1

\* Low is in the room alone; High joins when it likes.
Init ==
  /\ backend \in Builds
  /\ seat = [p \in Ends |-> IF p = Low THEN Present ELSE Nobody]
  /\ started = FALSE
  /\ down = [p \in Ends |-> <<>>]
  /\ end = [p \in Ends |-> IF p = Low THEN Game(0, Nobody, FALSE)
                           ELSE Gone(Game(0, Nobody, FALSE))]
  /\ drops = 0 /\ failures = 0

Receives(p) == NativeReceives(p) \/ WasmReceives(p)
Works(p) == NativeWorks(p) \/ WasmWorks(p)
Rebuilds(p) == NativeRebuilds(p) \/ WasmRebuilds(p)
Closes(p) == NativeCloses(p) \/ WasmCloses(p)

Next ==
  \/ Expire
  \/ \E p \in Ends :
       \/ Relay(p) \/ Cut(p) \/ Crash(p) \/ Enter(p) \/ TakeOver(p) \/ Refuse(p)
       \/ Receives(p) \/ Works(p) \/ Rebuilds(p) \/ Closes(p)
       \/ Gathered(p) \/ Connects(p) \/ Fails(p) \/ Breaks(p)

\* What is started goes on: the relay, the client's loop or the browser's
\* event loop, the timers, and WebRTC.  Nobody has to enter, leave or fail.
Fairness ==
  \A p \in Ends :
    /\ WF_vars(Relay(p)) /\ WF_vars(Receives(p) \/ Works(p)) /\ WF_vars(Rebuilds(p))
    /\ WF_vars(Gathered(p) \/ Connects(p) \/ Fails(p))

Spec == Init /\ [][Next]_vars /\ Fairness

----------------------------------------------------------------------------
Messages ==
  [type : {"offer", "answer", "ice"}, id : Nat]
    \cup [type : {"leave", "room-started", "ws-closed", "player-rejoined"}]
    \cup [type : {"player-joined"}, roster : Seats]
    \cup [type : {"player-left"}, explicit : BOOLEAN]
    \cup [type : {"error"}, code : {"slow-consumer", "room-expired"}]

Links ==
  [id : Nat, sdp : {"new", "have-local-offer", "have-remote-offer", "stable"},
   remote : Nat, pending : SUBSET Nat, flushed : BOOLEAN, added : SUBSET Nat,
   early : BOOLEAN, gathered : BOOLEAN, pc : {"new", "connected", "failed"}]

WorkItems ==
  [kind : {"ice", "connected", "failed"}, epoch : Nat]
    \cup [task : {"offer", "take-offer", "answer", "take-answer"},
          link : Nat, remote : Nat]

Games ==
  [closed : BOOLEAN, fatal : BOOLEAN, open : BOOLEAN, roster : Seats,
   started : BOOLEAN, link : Links, epoch : Nat, rebuilds : Nat,
   timers : SUBSET Nat, work : Seq(WorkItems), up : Seq(Messages),
   tries : Nat, reports : Nat, refused : BOOLEAN]

\* The types of the state of both clients, of the relay and of the queues.
TypeOK ==
  /\ backend \in [Ends -> {"native", "wasm"}]
  /\ seat \in [Ends -> Seats]
  /\ started \in BOOLEAN
  /\ down \in [Ends -> Seq(Messages)]
  /\ end \in [Ends -> Games]
  /\ drops \in 0 .. MaxDrops /\ failures \in 0 .. MaxFailures

\* A client that keeps its room is told of the loss of its signaling once,
\* whichever of an error message and the end of the socket it learns first.
LossReportedOnce ==
  \A p \in Ends :
    /\ end[p].reports = IF end[p].fatal THEN 1 ELSE 0
    /\ ~end[p].closed /\ ~end[p].open /\ down[p] = <<>> => end[p].fatal

\* A client that has read all the server sent it has the server's view of the
\* other player and of the start of the room.  One thing may escape it: that the
\* last to retake the other seat, by its token or a claim, was detached at once,
\* its joined message refused.  No player who is connected is believed away, and
\* no free seat taken.
RosterInSync ==
  \A p \in Ends :
    ~end[p].closed /\ end[p].open /\ down[p] = <<>> =>
      /\ end[p].started = started
      /\ \/ end[p].roster = seat[Other(p)]
         \/ /\ end[Other(p)].refused
            /\ end[p].roster = Present /\ seat[Other(p)] = Away

\* No remote candidate is handed to WebRTC before the remote description.
CandidatesAfterDescription ==
  \A p \in Ends : ~end[p].link.early

\* A player who cannot be reached is offered a connection once and then at
\* most MaxRebuilds times, until a connection or news of the player.
RebuildsBounded == end[Low].tries <= MaxRebuilds + 1

\* A client in the room does not give up a connection that is up at both ends
\* before its game is closed or loses its seat to another process: no late timer,
\* callback, offer or news of the other player replaces it.
WorkingLinkKept ==
  [][ \A p \in Ends :
        Paired /\ end'[p].link.id # end[p].link.id =>
          end'[p].closed \/ ~end[p].open \/ TakeOver(p) ]_vars

\* Two clients that stay in the room end up connected, or the one who offers
\* has given up after its last rebuild; no negotiation is left hanging,
\* whatever was lost or late before.
Settled ==
  (\A p \in Ends : ~end[p].closed /\ end[p].open) => Paired \/ GivenUp(Low)
Settles == <>[]Settled
=============================================================================
