------------------------------ MODULE Pairing ------------------------------
(***************************************************************************)
(* What the two clients of one pair of players share: the room's relay as  *)
(* they see it, the ends they run, and WebRTC.  Low is the player with the *)
(* lower id, who offers; High answers.  NativeEnd and WasmEnd say what the *)
(* two backends of clients/rust do with an end, Interop lets them meet.    *)
(*                                                                         *)
(* A handler is an operator from the record of an end to its next value.   *)
(* A description stands for the link it describes, so a message carries    *)
(* the number of the sender's link; one candidate stands for all of them.  *)
(***************************************************************************)
EXTENDS Naturals, Sequences

CONSTANTS
  MaxRebuilds,   \* limits.rs MAX_PEER_REBUILDS
  MaxDrops,      \* bound: how often a session is cut, closed, taken over,
                 \* refused, crashes or expires
  MaxFailures,   \* bound: how often a sound connection fails by itself or a
                 \* session is refused
  MaxBehind      \* bound: how much is under way to and from the other player
                 \* when one who was refused a taken slot comes back

ASSUME BoundsAreNat ==
  /\ MaxRebuilds \in Nat /\ MaxDrops \in Nat
  /\ MaxFailures \in Nat /\ MaxBehind \in Nat

VARIABLES
  backend,   \* the backend an end is built with; it never changes
  seat,      \* the server: who sits in the slot, and whether it is connected
  started,   \* the server: the room has started
  down,      \* what the server has sent to an end
  end,       \* the process at an end, with what it has sent to the server
  drops, failures

vars == <<backend, seat, started, down, end, drops, failures>>

Low == 1
High == 2
Ends == {Low, High}
Other(p) == 3 - p

Nobody == [occupied |-> FALSE, connected |-> FALSE]
Present == [occupied |-> TRUE, connected |-> TRUE]
Away == [occupied |-> TRUE, connected |-> FALSE]
Seats == {Nobody, Present, Away}

\* A connection to the other player: its description, the remote one (0: none),
\* the remote candidates held back and added, and the state of the connection.
\* `early` records that one was added before there was a remote description.
LinkNumbered(n) ==
  [id |-> n, sdp |-> "new", remote |-> 0, pending |-> {}, flushed |-> FALSE,
   added |-> {}, early |-> FALSE, gathered |-> FALSE, pc |-> "new"]
NoLink == LinkNumbered(0)

\* The state of one P2PGame.  `tries` and `reports` only record: links made
\* since the last reset or success, SignalingClosed events of this session.
\* `refused` too: connect() to a taken slot failed for want of its joined message.
Game(n, other, running) ==
  [closed |-> FALSE, fatal |-> FALSE, open |-> TRUE, roster |-> other,
   started |-> running, link |-> NoLink, epoch |-> n, rebuilds |-> 0,
   timers |-> {}, work |-> <<>>, up |-> <<>>, tries |-> 0, reports |-> 0,
   refused |-> FALSE]

\* No game in the process.  The number of links goes on, so that links of
\* different sessions are told apart.
Gone(e) == [Game(e.epoch, Nobody, FALSE) EXCEPT !.closed = TRUE, !.open = FALSE]

\* The timer of link n has run out.
TimerTaken(e, n) == [e EXCEPT !.timers = @ \ {n}]

\* GivenUp: the other end is not tried again until it is heard of.
GivenUp(p) == end[p].rebuilds > MaxRebuilds

----------------------------------------------------------------------------
(* WebRTC *)

\* addIceCandidate: a candidate of another negotiation is of no use.
AddCandidates(l, ids) ==
  [l EXCEPT !.added = @ \cup (ids \cap {l.remote}),
            !.early = @ \/ (ids # {} /\ l.remote = 0)]

Matched ==
  /\ end[Low].link.id # 0 /\ end[High].link.id # 0
  /\ end[Low].link.remote = end[High].link.id
  /\ end[High].link.remote = end[Low].link.id

Reaches(p) == end[Other(p)].link.id \in end[p].link.added

Negotiated(p) == end[p].link.sdp = "stable"

\* The other end of the connection may still come up, or is up.
Responds(p) == Matched /\ end[Other(p)].link.pc # "failed"

MayConnect(p) ==
  /\ end[p].link.pc = "new" /\ \A q \in Ends : Negotiated(q)
  /\ Responds(p) /\ Reaches(Low) /\ Reaches(High)

\* High has answered and Low has yet to take the answer.
Answering(p) ==
  /\ p = High /\ end[Low].link.id = end[High].link.remote
  /\ end[Low].link.remote = 0

\* ICE gives up on an end that cannot answer.
MayFail(p) ==
  /\ end[p].link.pc # "failed" /\ Negotiated(p)
  /\ ~Responds(p) /\ ~Answering(p)

\* The candidates of a link are found once its local description is set.
MayGather(p) ==
  /\ end[p].link.sdp \in {"have-local-offer", "stable"}
  /\ ~end[p].link.gathered

Paired == Matched /\ \A p \in Ends : end[p].link.pc = "connected"

----------------------------------------------------------------------------
(* The server, as far as this pair sees it; Lobby has the whole of it. *)

\* down after m is sent to p, who may have no transport.
Tell(d, p, m) ==
  IF seat[p].connected /\ ~end[p].closed THEN [d EXCEPT ![p] = Append(@, m)] ELSE d

Relay(p) ==
  /\ end[p].up # <<>>
  /\ LET m == Head(end[p].up) IN
     /\ IF m.type = "leave"
          THEN /\ seat' = [seat EXCEPT ![p] = Nobody]
               /\ down' = Tell(down, Other(p), [type |-> "player-left", explicit |-> TRUE])
          ELSE /\ down' = Tell(down, Other(p), m)
               /\ UNCHANGED seat
     /\ end' = [end EXCEPT ![p].up = Tail(@)]
  /\ UNCHANGED <<backend, started, drops, failures>>

\* The transport of p ends: the network cuts it, and what was under way is lost,
\* or the server kicks a slow consumer, who learns why.
Cut(p) ==
  /\ seat[p].connected /\ drops < MaxDrops
  /\ seat' = [seat EXCEPT ![p].connected = FALSE]
  /\ \E rest \in {<<>>, down[p] \o <<[type |-> "error", code |-> "slow-consumer"]>>} :
       down' = Tell([down EXCEPT ![p] = IF end[p].closed THEN <<>>
                                        ELSE rest \o <<[type |-> "ws-closed"]>>],
                    Other(p), [type |-> "player-left", explicit |-> FALSE])
  /\ end' = [end EXCEPT ![p].open = FALSE, ![p].up = <<>>]
  /\ drops' = drops + 1
  /\ UNCHANGED <<backend, started, failures>>

\* The process of p dies with everything in it.
Crash(p) ==
  /\ ~end[p].closed /\ drops < MaxDrops
  /\ end' = [end EXCEPT ![p] = Gone(@)]
  /\ seat' = [seat EXCEPT ![p].connected = FALSE]
  /\ down' = LET d == [down EXCEPT ![p] = <<>>] IN
             IF seat[p].connected
               THEN Tell(d, Other(p), [type |-> "player-left", explicit |-> FALSE])
               ELSE d
  /\ drops' = drops + 1
  /\ UNCHANGED <<backend, started, failures>>

\* The room expires and everybody is told.
Expire ==
  /\ \E p \in Ends : seat[p].occupied
  /\ drops < MaxDrops
  /\ seat' = [p \in Ends |-> Nobody]
  /\ started' = FALSE
  /\ down' = [p \in Ends |->
                IF seat[p].connected /\ ~end[p].closed
                  THEN down[p] \o <<[type |-> "error", code |-> "room-expired"],
                                    [type |-> "ws-closed"]>>
                  ELSE down[p]]
  /\ end' = [p \in Ends |-> [end[p] EXCEPT !.open = FALSE, !.up = <<>>]]
  /\ drops' = drops + 1
  /\ UNCHANGED <<backend, failures>>

\* Mutant: the roster of player-joined is taken before the joined message is.
SeatAnnouncedFirst(p, fresh, delivered) ==
  LET full == fresh /\ ~started /\ seat[Other(p)].occupied
      taken == IF delivered THEN Present ELSE Away
      news == [type |-> "player-joined", roster |-> Present] IN
  /\ seat' = [seat EXCEPT ![p] = taken]
  /\ started' = (started \/ full)
  /\ down' = LET d == Tell([down EXCEPT ![p] = <<>>], Other(p),
                           IF fresh THEN news ELSE [type |-> "player-rejoined"]) IN
             IF full THEN Tell(d, Other(p), [type |-> "room-started"]) ELSE d

\* The server seats a new connection at p and tells the other player.  When the
\* connection refuses the joined message it is detached again before that, and
\* no player-left goes out: only the roster of a player-joined shows it.  The
\* player-rejoined here is also the player-replaced of a claim, which the
\* clients handle alike.
Seat(p, fresh, delivered) ==
  LET full == fresh /\ ~started /\ seat[Other(p)].occupied
      taken == IF delivered THEN Present ELSE Away
      news == [type |-> "player-joined", roster |-> taken] IN
  /\ seat' = [seat EXCEPT ![p] = taken]
  /\ started' = (started \/ full)
  /\ down' = LET d == Tell([down EXCEPT ![p] = <<>>], Other(p),
                           IF fresh THEN news ELSE [type |-> "player-rejoined"]) IN
             IF full THEN Tell(d, Other(p), [type |-> "room-started"]) ELSE d
=============================================================================
