--------------------------- MODULE InteropProofs ---------------------------
(***************************************************************************)
(* Proofs about Interop, for every choice of backends and all bounds: the  *)
(* types, the order of descriptions and candidates, what a client knows of *)
(* its session and of the other player, and how often it tries a player.   *)
(***************************************************************************)
EXTENDS Interop, TLAPS

(* What the links, the messages and the queued work look like. *)

Numbers == Nat \ {0}

Signals == [type : {"offer", "answer", "ice"}, id : Numbers]

\* What a client sends, and what the server sends to it.
Requests == Signals \cup [type : {"leave"}]

News ==
  Signals
    \cup [type : {"room-started", "ws-closed", "player-rejoined"}]
    \cup [type : {"player-joined"}, roster : {Present, Away}]
    \cup [type : {"player-left"}, explicit : BOOLEAN]
    \cup [type : {"error"}, code : {"slow-consumer", "room-expired"}]

\* Candidates go to WebRTC directly only once there is a remote description,
\* and no description is made without a link.
SoundLinks ==
  {l \in Links : /\ ~l.early
                 /\ l.flushed => l.remote # 0
                 /\ l.id = 0 => l.sdp = "new"}

\* The callbacks of a native link, and the tasks of one of a browser.
Items(b) ==
  IF b = "native"
    THEN [kind : {"ice", "connected", "failed"}, epoch : Numbers]
    ELSE [task : {"offer", "answer"}, link : Numbers, remote : Nat]
           \cup [task : {"take-offer", "take-answer"}, link : Numbers, remote : Numbers]

GamesOf(b) ==
  [closed : BOOLEAN, fatal : BOOLEAN, open : BOOLEAN, roster : Seats,
   started : BOOLEAN, link : SoundLinks, epoch : Nat, rebuilds : Nat,
   timers : SUBSET Nat, work : Seq(Items(b)), up : Seq(Requests),
   tries : Nat, reports : Nat, refused : BOOLEAN]

\* The types.
Typed ==
  /\ backend \in [Ends -> {"native", "wasm"}]
  /\ seat \in [Ends -> Seats]
  /\ started \in BOOLEAN
  /\ down \in [Ends -> Seq(News)]
  /\ DOMAIN end = Ends /\ \A p \in Ends : end[p] \in GamesOf(backend[p])
  /\ end = [p \in Ends |-> end[p]]
  /\ drops \in 0 .. MaxDrops /\ failures \in 0 .. MaxFailures

----------------------------------------------------------------------------
(* What a client knows of its session. *)

\* What a message says of the other player.
Seen(r, m) ==
  CASE m.type = "player-joined" -> m.roster
    [] m.type = "player-rejoined" -> Present
    [] m.type = "player-left" -> IF m.explicit THEN Nobody
                                 ELSE [r EXCEPT !.connected = FALSE]
    [] OTHER -> r

\* A client e that has d still to read is on the way to the server's view: s
\* of the other player, st of the start of the room.
Caught(e, d, s, st) ==
  /\ st <=> (e.started \/ \E i \in 1 .. Len(d) : d[i].type = "room-started")
  /\ \E v \in [0 .. Len(d) -> Seats] :
       /\ v[0] = e.roster /\ v[Len(d)] = s
       /\ \A i \in 1 .. Len(d) : v[i] = Seen(v[i - 1], d[i])

\* A client whose signaling works has nothing to read that says it ended; one
\* whose signaling ended knows, or has that to read, and after that nothing.
Warned(e, d) ==
  /\ e.reports = IF e.fatal THEN 1 ELSE 0
  /\ e.closed => ~e.open /\ d = <<>>
  /\ e.open => ~e.fatal /\ \A i \in 1 .. Len(d) : d[i].type \notin {"error", "ws-closed"}
  /\ ~e.closed /\ ~e.open /\ e.fatal =>
       d = <<>> \/ (Len(d) = 1 /\ d[1].type = "ws-closed")
  /\ ~e.closed /\ ~e.open /\ ~e.fatal =>
       /\ Len(d) > 0 /\ d[Len(d)].type = "ws-closed"
       /\ \A i \in 1 .. Len(d) : /\ i < Len(d) => d[i].type # "ws-closed"
                                 /\ i + 1 < Len(d) => d[i].type # "error"

\* A client has sent that it leaves.
Leaves(up) == \E i \in 1 .. Len(up) : up[i].type = "leave"

\* A client e with d still to read and s its own seat; o and st are what it is
\* told in the end of the other player and of the start.  The server holds it
\* for connected as long as its game is open and has signaling, and whose
\* joined message was refused has no game.
ToldOf(e, d, s, o, st) ==
  /\ Warned(e, d)
  /\ e.open => Caught(e, d, o, st)
  /\ e.open <=> s.connected /\ ~e.closed
  /\ Leaves(e.up) => e.closed
  /\ e.refused => e.closed

\* What may have been told of the seat s, whose last client is f: when its joined
\* message was refused, that it is back, too.
Views(f, s) == IF f.refused /\ s = Away THEN {Present, Away} ELSE {s}

Told ==
  \A p \in Ends : \E o \in Views(end[Other(p)], seat[Other(p)]) :
    ToldOf(end[p], down[p], seat[p], o, started)

----------------------------------------------------------------------------
(* How often the end that offers tries the other one. *)

\* A failure of the current link that is reported but not handled yet.
Pending(e, i) ==
  i \in 1 .. Len(e.work) /\ e.work[i].kind = "failed" /\ e.work[i].epoch = e.link.id

\* Timers and callbacks are those of links made so far.  A link fails once: a
\* failure that is not handled yet is the only one of its link, and the timer
\* of a link that has failed waits for no other.
Dated(b, e) ==
  /\ e.link.id <= e.epoch /\ \A n \in e.timers : 0 < n /\ n <= e.epoch
  /\ e.link.id \in e.timers => e.link.pc = "failed"
  /\ b = "native" =>
       /\ \A i \in 1 .. Len(e.work) : e.work[i].epoch <= e.epoch
       /\ \A i \in 1 .. Len(e.work) :
            Pending(e, i) =>
              /\ e.link.pc = "failed" /\ e.link.id \notin e.timers
              /\ \A j \in 1 .. Len(e.work) : Pending(e, j) => i = j

\* Every try but the first answers a failure, and the last one is in bounds.
Counted(e) ==
  /\ e.tries <= e.rebuilds + 1 /\ e.tries <= MaxRebuilds + 1
  /\ e.link.id \in e.timers => e.tries <= e.rebuilds /\ e.rebuilds <= MaxRebuilds

Bounded == Dated(backend[Low], end[Low]) /\ Counted(end[Low])

\* The inductive invariant.
IInv == Typed /\ Told /\ Bounded

----------------------------------------------------------------------------
(* What the handlers change *)

\* The client's session and what it knows of the other player are kept.
Keeps(e, f) ==
  /\ f.closed = e.closed /\ f.fatal = e.fatal /\ f.open = e.open
  /\ f.roster = e.roster /\ f.started = e.started /\ f.reports = e.reports
  /\ f.refused = e.refused
  /\ Leaves(f.up) => Leaves(e.up)

\* It goes on with its link, its timers, its counters.
SameLink(e, f) ==
  /\ f.link.id = e.link.id /\ f.link.pc = e.link.pc /\ f.epoch = e.epoch
  /\ f.rebuilds = e.rebuilds /\ f.timers = e.timers /\ f.tries = e.tries

\* It has made a link, after n tries.
Renews(e, f, n) ==
  /\ f.epoch = e.epoch + 1 /\ f.link.id = e.epoch + 1 /\ f.link.pc = "new"
  /\ f.timers = e.timers /\ f.tries = n + 1

\* It has no link any more.
Drops(e, f) ==
  /\ f.link.id = 0 /\ f.link.pc = "new" /\ f.epoch = e.epoch /\ f.timers = e.timers
  /\ f.rebuilds = e.rebuilds /\ f.tries = e.tries

\* It has heard of the other player, and starts over if it is the one to offer.
Resets(e, f) ==
  /\ f.timers = e.timers /\ f.rebuilds = 0
  /\ Renews(e, f, 0) \/ (f.link.id = 0 /\ f.link.pc = "new" /\ f.epoch = e.epoch /\ f.tries = 0)

\* A new link is sound.
LEMMA LinkMade ==
  ASSUME NEW n \in Nat
  PROVE  LinkNumbered(n) \in SoundLinks
BY DEF LinkNumbered, SoundLinks, Links

\* SendSignal changes only what was sent.
LEMMA Sends ==
  ASSUME NEW b, NEW e \in GamesOf(b), NEW m \in Requests
  PROVE  /\ SendSignal(e, m) \in GamesOf(b)
         /\ m \in Signals => Keeps(e, SendSignal(e, m))
         /\ SameLink(e, SendSignal(e, m))
         /\ SendSignal(e, m).work = e.work
         /\ SendSignal(e, m).closed = e.closed /\ SendSignal(e, m).fatal = e.fatal
         /\ SendSignal(e, m).reports = e.reports /\ SendSignal(e, m).refused = e.refused
<1>1. e.up \in Seq(Requests)
  BY DEF GamesOf
<1> DEFINE u == Append(e.up, m)
<1>2. u \in Seq(Requests)
  BY <1>1
<1>3. m \in Signals /\ Leaves(u) => Leaves(e.up)
  <2>1. Len(u) = Len(e.up) + 1 /\ u[Len(e.up) + 1] = m /\ \A i \in 1 .. Len(e.up) : u[i] = e.up[i]
    BY <1>1
  <2> HIDE DEF u
  <2>2. m \in Signals => m.type # "leave"
    BY DEF Signals
  <2> QED
    BY <1>1, <2>1, <2>2 DEF Leaves
<1>4. SendSignal(e, m) = IF e.closed \/ ~e.open THEN e ELSE [e EXCEPT !.up = u]
  BY DEF SendSignal
<1> HIDE DEF u
<1> QED
  BY <1>2, <1>3, <1>4 DEF GamesOf, Keeps, SameLink

\* Another link is made, and that is one more try.
LEMMA Creates ==
  ASSUME NEW b, NEW e \in GamesOf(b)
  PROVE  /\ CreateLink(e) \in GamesOf(b)
         /\ Keeps(e, CreateLink(e)) /\ Renews(e, CreateLink(e), e.tries)
         /\ CreateLink(e).link = LinkNumbered(e.epoch + 1) /\ CreateLink(e).link.id \in Numbers
         /\ CreateLink(e).work = e.work /\ CreateLink(e).rebuilds = e.rebuilds
<1>1. e.epoch \in Nat /\ e.epoch + 1 \in Nat /\ e.tries + 1 \in Nat
  BY DEF GamesOf
<1>2. CreateLink(e) \in GamesOf(b) /\ CreateLink(e).link = LinkNumbered(e.epoch + 1)
  BY <1>1, LinkMade DEF CreateLink, ClosePeer, GamesOf
<1>3. CreateLink(e).link.id = e.epoch + 1 /\ CreateLink(e).link.pc = "new"
  BY <1>2 DEF LinkNumbered
<1>4. e.epoch + 1 \in Numbers
  BY <1>1 DEF Numbers
<1> QED
  BY <1>1, <1>2, <1>3, <1>4, LinkMade DEF CreateLink, ClosePeer, GamesOf, Keeps, Renews

\* A link is offered, unless there is one.
LEMMA Initiates ==
  ASSUME NEW b, NEW e \in GamesOf(b)
  PROVE  /\ InitiatePeer(e) \in GamesOf(b)
         /\ Keeps(e, InitiatePeer(e))
         /\ InitiatePeer(e).work = e.work /\ InitiatePeer(e).rebuilds = e.rebuilds
         /\ InitiatePeer(e) = e \/ Renews(e, InitiatePeer(e), e.tries)
<1> DEFINE c == CreateLink(e)
           o == [c EXCEPT !.link.sdp = "have-local-offer"]
           m == [type |-> "offer", id |-> c.link.id]
<1>1. /\ c \in GamesOf(b) /\ Keeps(e, c) /\ Renews(e, c, e.tries) /\ c.link.id \in Numbers
      /\ c.work = e.work /\ c.rebuilds = e.rebuilds
  BY Creates
<1> HIDE DEF c
<1>2. o \in GamesOf(b) /\ Keeps(c, o) /\ SameLink(c, o) /\ o.work = c.work
  <2>1. [c.link EXCEPT !.sdp = "have-local-offer"] \in SoundLinks
    BY <1>1 DEF GamesOf, SoundLinks, Links, Numbers
  <2>2. [c.link EXCEPT !.sdp = "have-local-offer"].id = c.link.id
        /\ [c.link EXCEPT !.sdp = "have-local-offer"].pc = c.link.pc
    BY <1>1 DEF GamesOf, SoundLinks, Links
  <2> QED BY <1>1, <2>1, <2>2 DEF GamesOf, Keeps, SameLink
<1>3. m \in Signals /\ m \in Requests
  BY <1>1 DEF Requests, Signals
<1> HIDE DEF o, m
<1>4. SendSignal(o, m) \in GamesOf(b) /\ Keeps(o, SendSignal(o, m))
  BY Sends, <1>2, <1>3
<1>5. SameLink(o, SendSignal(o, m)) /\ SendSignal(o, m).work = o.work
  BY Sends, <1>2, <1>3
<1>6. InitiatePeer(e) = IF e.closed THEN e ELSE SendSignal(o, m)
  BY DEF InitiatePeer, c, o, m
<1>7. Keeps(e, SendSignal(o, m))
  BY <1>1, <1>2, <1>4 DEF Keeps
<1>8. Renews(e, SendSignal(o, m), e.tries) /\ SendSignal(o, m).work = e.work
      /\ SendSignal(o, m).rebuilds = e.rebuilds
  BY <1>1, <1>2, <1>5 DEF Renews, SameLink
<1>9. Keeps(e, e)
  BY DEF Keeps
<1> QED
  BY <1>4, <1>6, <1>7, <1>8, <1>9

\* The link and its timer go, and the tries are still counted.
LEMMA ClosesPeer ==
  ASSUME NEW b, NEW e \in GamesOf(b)
  PROVE  /\ ClosePeer(e) \in GamesOf(b)
         /\ Keeps(e, ClosePeer(e)) /\ Drops(e, ClosePeer(e))
         /\ ClosePeer(e).work = e.work
<1>1. NoLink \in SoundLinks /\ NoLink.id = 0 /\ NoLink.pc = "new"
  BY LinkMade DEF NoLink, LinkNumbered
<1> QED
  BY <1>1 DEF ClosePeer, GamesOf, Keeps, Drops

\* News of the other player: a new link, or none, and the count starts over.
LEMMA ResetsPeer ==
  ASSUME NEW b, NEW e \in GamesOf(b), NEW p \in Ends
  PROVE  /\ ResetPeer(p, e) \in GamesOf(b)
         /\ Keeps(e, ResetPeer(p, e)) /\ Resets(e, ResetPeer(p, e))
         /\ ResetPeer(p, e).work = e.work
<1> DEFINE c == ClosePeer(e)
           r == [c EXCEPT !.rebuilds = 0, !.tries = 0]
<1>0. c \in GamesOf(b) /\ Keeps(e, c) /\ Drops(e, c) /\ c.work = e.work
  BY ClosesPeer
<1> HIDE DEF c
<1>1. /\ r \in GamesOf(b) /\ Keeps(e, r) /\ r.work = e.work /\ r.rebuilds = 0 /\ r.tries = 0
      /\ r.link.id = 0 /\ r.link.pc = "new" /\ r.epoch = e.epoch /\ r.timers = e.timers
  BY <1>0 DEF GamesOf, Keeps, Drops
<1>2. ResetPeer(p, e) = IF p < Other(p) THEN InitiatePeer(r) ELSE r
  BY DEF ResetPeer, c
<1> HIDE DEF r
<1>3. /\ InitiatePeer(r) \in GamesOf(b) /\ Keeps(r, InitiatePeer(r))
      /\ InitiatePeer(r).work = r.work /\ InitiatePeer(r).rebuilds = r.rebuilds
  BY <1>1, Initiates
<1>4. InitiatePeer(r) = r \/ Renews(r, InitiatePeer(r), r.tries)
  BY <1>1, Initiates
<1>5. Resets(e, r)
  BY <1>1 DEF Resets
<1>6. Resets(e, InitiatePeer(r))
  BY <1>1, <1>3, <1>4 DEF Resets, Renews
<1>7. Keeps(e, InitiatePeer(r))
  BY <1>1, <1>3 DEF Keeps
<1> QED
  BY <1>1, <1>2, <1>3, <1>5, <1>6, <1>7

\* A game that is closed has no link, no timer and nothing left to do.
LEMMA ShutsDown ==
  ASSUME NEW b, NEW e \in GamesOf(b)
  PROVE  LET f == Shutdown(e)
         IN /\ f \in GamesOf(b)
            /\ f.closed /\ ~f.open /\ f.fatal = e.fatal /\ f.reports = e.reports
            /\ f.link.id = 0 /\ f.epoch = e.epoch /\ f.timers = {} /\ f.work = <<>>
            /\ f.tries = e.tries /\ f.rebuilds = e.rebuilds /\ f.refused = e.refused
<1> DEFINE s == SendSignal(e, [type |-> "leave"])
           c == ClosePeer(s)
<1>1. [type |-> "leave"] \in Requests
  BY DEF Requests
<1>2. s \in GamesOf(b) /\ SameLink(e, s)
      /\ s.closed = e.closed /\ s.fatal = e.fatal /\ s.reports = e.reports
      /\ s.refused = e.refused
  BY <1>1, Sends
<1>3. <<>> \in Seq(Items(b))
  OBVIOUS
<1> HIDE DEF s
<1>4. c \in GamesOf(b) /\ Keeps(s, c) /\ Drops(s, c)
  BY <1>2, ClosesPeer
<1>5. Shutdown(e) = [c EXCEPT !.closed = TRUE, !.open = FALSE, !.work = <<>>, !.timers = {}]
  BY DEF Shutdown, TeardownPeers, s, c
<1> HIDE DEF c
<1>6. PICK f : f = Shutdown(e)
  OBVIOUS
<1>7. /\ f \in GamesOf(b) /\ f.closed /\ ~f.open /\ f.work = <<>> /\ f.timers = {}
      /\ f.link = c.link /\ f.reports = c.reports /\ f.fatal = c.fatal /\ f.refused = c.refused
      /\ f.epoch = c.epoch /\ f.tries = c.tries /\ f.rebuilds = c.rebuilds
  BY <1>3, <1>4, <1>5, <1>6 DEF GamesOf
<1> QED
  BY <1>2, <1>4, <1>6, <1>7 DEF Keeps, SameLink, Drops

\* Candidates given to WebRTC after the remote description leave the link sound.
LEMMA Adds ==
  ASSUME NEW l \in SoundLinks, NEW ids \in SUBSET Nat, ids = {} \/ l.remote # 0
  PROVE  /\ AddCandidates(l, ids) \in SoundLinks
         /\ AddCandidates(l, ids).id = l.id /\ AddCandidates(l, ids).pc = l.pc
BY DEF AddCandidates, SoundLinks, Links

\* So does giving it those that were held back.
LEMMA Flushes ==
  ASSUME NEW l \in SoundLinks, l.remote # 0
  PROVE  /\ FlushCandidates(l) \in SoundLinks
         /\ FlushCandidates(l).id = l.id /\ FlushCandidates(l).pc = l.pc
BY DEF FlushCandidates, AddCandidates, SoundLinks, Links

\* High answers an offer on a link of its own; Low ignores it.
LEMMA TakesOffer ==
  ASSUME NEW b, NEW e \in GamesOf(b), NEW p \in Ends, NEW m \in News, m.type = "offer"
  PROVE  /\ OnOffer(p, e, m) \in GamesOf(b)
         /\ Keeps(e, OnOffer(p, e, m))
         /\ p = Low => OnOffer(p, e, m) = e
<1> DEFINE c == CreateLink(e)
           k == [c.link EXCEPT !.remote = m.id]
           l == FlushCandidates(k)
           f == [c EXCEPT !.link = [l EXCEPT !.sdp = "stable"]]
           a == [type |-> "answer", id |-> l.id]
<1>1. m.id \in Numbers
  BY DEF News, Signals
<1>2. /\ c \in GamesOf(b) /\ Keeps(e, c) /\ c.link.id \in Numbers /\ c.link \in SoundLinks
  BY Creates DEF GamesOf
<1>0. OnOffer(p, e, m) = IF p < Other(p) THEN e ELSE SendSignal(f, a)
  BY DEF OnOffer
<1> HIDE DEF c
<1>3. k \in SoundLinks /\ k.remote = m.id /\ k.id = c.link.id
  BY <1>1, <1>2 DEF SoundLinks, Links, Numbers
<1> HIDE DEF k
<1>4. l \in SoundLinks /\ l.id = c.link.id
  BY <1>1, <1>3, Flushes DEF Numbers
<1> HIDE DEF l
<1>5. [l EXCEPT !.sdp = "stable"] \in SoundLinks
  BY <1>2, <1>4 DEF SoundLinks, Links, Numbers
<1>6. f \in GamesOf(b) /\ Keeps(c, f)
  BY <1>2, <1>5 DEF GamesOf, Keeps
<1>7. a \in Signals /\ a \in Requests
  BY <1>2, <1>4 DEF Requests, Signals
<1> HIDE DEF f, a
<1>8. SendSignal(f, a) \in GamesOf(b)
  BY Sends, <1>6, <1>7
<1>9. Keeps(f, SendSignal(f, a))
  BY Sends, <1>6, <1>7
<1>10. Keeps(e, SendSignal(f, a)) /\ Keeps(e, e)
  BY <1>2, <1>6, <1>9 DEF Keeps
<1> QED
  BY <1>0, <1>8, <1>10 DEF Low, Other

\* The answer to the offer of the current link.
LEMMA TakesAnswer ==
  ASSUME NEW b, NEW e \in GamesOf(b), NEW n \in Numbers,
         NEW f, f = [e EXCEPT !.link = FlushCandidates([@ EXCEPT !.remote = n, !.sdp = "stable"])],
         e.link.sdp = "have-local-offer"
  PROVE  f \in GamesOf(b) /\ Keeps(e, f) /\ SameLink(e, f) /\ f.work = e.work
<1> DEFINE k == [e.link EXCEPT !.remote = n, !.sdp = "stable"]
           l == FlushCandidates(k)
<1>1. k \in SoundLinks /\ k.remote = n /\ k.id = e.link.id /\ k.pc = e.link.pc
  BY DEF GamesOf, SoundLinks, Links, Numbers
<1>2. f = [e EXCEPT !.link = l]
  OBVIOUS
<1> HIDE DEF k
<1>3. l \in SoundLinks /\ l.id = e.link.id /\ l.pc = e.link.pc
  BY <1>1, Flushes DEF Numbers
<1> HIDE DEF l
<1> QED
  BY <1>2, <1>3 DEF GamesOf, Keeps, SameLink

\* A candidate is held back or given to WebRTC.
LEMMA TakesIce ==
  ASSUME NEW b, NEW e \in GamesOf(b), NEW m \in News, m.type = "ice"
  PROVE  /\ OnIce(e, m) \in GamesOf(b)
         /\ Keeps(e, OnIce(e, m)) /\ SameLink(e, OnIce(e, m)) /\ OnIce(e, m).work = e.work
<1>1. m.id \in Numbers
  BY DEF News, Signals
<1>2. e.link \in SoundLinks
  BY DEF GamesOf
<1> DEFINE a == AddCandidates(e.link, {m.id})
           h == [e.link EXCEPT !.pending = @ \cup {m.id}]
<1>3. e.link.flushed => a \in SoundLinks /\ a.id = e.link.id /\ a.pc = e.link.pc
  BY <1>1, <1>2, Adds DEF SoundLinks, Numbers
<1>4. h \in SoundLinks /\ h.id = e.link.id /\ h.pc = e.link.pc
  BY <1>1, <1>2 DEF SoundLinks, Links, Numbers
<1>5. OnIce(e, m) = IF e.link = NoLink THEN e ELSE IF e.link.flushed THEN [e EXCEPT !.link = a]
                    ELSE [e EXCEPT !.link = h]
  BY DEF OnIce
<1> HIDE DEF a, h
<1>6. PICK f : f = OnIce(e, m)
  OBVIOUS
<1>7. PICK l : l = IF e.link = NoLink THEN e.link ELSE IF e.link.flushed THEN a ELSE h
  OBVIOUS
<1>8. l \in SoundLinks /\ l.id = e.link.id /\ l.pc = e.link.pc
  BY <1>2, <1>3, <1>4, <1>7
<1>9. f = [e EXCEPT !.link = l]
  BY <1>5, <1>6, <1>7 DEF GamesOf
<1>10. f \in GamesOf(b) /\ Keeps(e, f) /\ SameLink(e, f) /\ f.work = e.work
  BY <1>8, <1>9 DEF GamesOf, Keeps, SameLink
<1> QED
  BY <1>6, <1>10

----------------------------------------------------------------------------
(* The native backend *)

\* What a message from the server does to a client, whichever its backend.
Hears(e, m, f) ==
  /\ f.closed = e.closed /\ f.open = e.open /\ f.refused = e.refused
  /\ f.roster = Seen(e.roster, m)
  /\ f.started <=> (e.started \/ m.type = "room-started")
  /\ f.fatal <=> (e.fatal \/ m.type \in {"error", "ws-closed"})
  /\ f.reports = IF m.type = "error" \/ (m.type = "ws-closed" /\ ~e.fatal)
                   THEN e.reports + 1 ELSE e.reports
  /\ Leaves(f.up) => Leaves(e.up)

\* And to the link of the end that offers.
Relinks(e, f) == SameLink(e, f) \/ Drops(e, f) \/ Resets(e, f)

\* A player whose transport ends is away, if it has a seat.
LEMMA Disconnects ==
  ASSUME NEW r \in Seats
  PROVE  [r EXCEPT !.connected = FALSE] = IF r.occupied THEN Away ELSE Nobody
<1> DEFINE R == [occupied : BOOLEAN, connected : BOOLEAN]
           x == [r EXCEPT !.connected = FALSE]
           y == IF r.occupied THEN Away ELSE Nobody
<1>1. r \in R /\ (~r.occupied => ~r.connected)
  <2>1. Nobody \in R /\ ~Nobody.connected
    BY DEF Nobody
  <2>2. Present \in R /\ Present.occupied
    BY DEF Present
  <2>3. Away \in R /\ Away.occupied
    BY DEF Away
  <2> QED
    BY <2>1, <2>2, <2>3 DEF Seats
<1>2. x \in R /\ x.occupied = r.occupied /\ x.connected = FALSE
  BY <1>1
<1>3. y \in R /\ y.occupied = r.occupied /\ y.connected = FALSE
  BY <1>1 DEF Away, Nobody
<1> HIDE DEF x, y
<1>4. x = y
  BY <1>2, <1>3
<1> QED
  BY <1>4 DEF x, y

\* handle_server_message: what the client comes to know, and what becomes of its link.
LEMMA NativeHears ==
  ASSUME NEW b, NEW e \in GamesOf(b), NEW p \in Ends, NEW m \in News, ~e.closed
  PROVE  LET f == HandleServerMessage(p, e, m)
         IN f \in GamesOf(b) /\ Hears(e, m, f) /\ (p = Low => Relinks(e, f) /\ f.work = e.work)
<1> DEFINE f == HandleServerMessage(p, e, m)
<1> SUFFICES f \in GamesOf(b) /\ Hears(e, m, f) /\ (p = Low => Relinks(e, f) /\ f.work = e.work)
  OBVIOUS
<1>0. /\ e.roster \in Seats /\ Keeps(e, e) /\ SameLink(e, e)
      /\ e.closed \in BOOLEAN /\ e.open \in BOOLEAN /\ e.fatal \in BOOLEAN /\ e.started \in BOOLEAN
  BY DEF GamesOf, Keeps, SameLink
<1>1. ASSUME NEW r \in Seats, NEW x, x = [e EXCEPT !.roster = r]
      PROVE  /\ x \in GamesOf(b) /\ x.roster = r /\ SameLink(e, x) /\ x.work = e.work
             /\ x.closed = e.closed /\ x.fatal = e.fatal /\ x.open = e.open
             /\ x.started = e.started /\ x.reports = e.reports /\ x.up = e.up
             /\ x.refused = e.refused
  BY <1>1 DEF GamesOf, SameLink
<1>2. ASSUME NEW r \in Seats, NEW x, x = [e EXCEPT !.roster = r]
      PROVE  /\ ResetPeer(p, x) \in GamesOf(b) /\ Keeps(x, ResetPeer(p, x))
             /\ Resets(e, ResetPeer(p, x)) /\ ResetPeer(p, x).work = e.work
  <2>1. x \in GamesOf(b) /\ SameLink(e, x) /\ x.work = e.work
    BY <1>1, <1>2
  <2>2. ResetPeer(p, x) \in GamesOf(b) /\ Keeps(x, ResetPeer(p, x))
        /\ Resets(x, ResetPeer(p, x)) /\ ResetPeer(p, x).work = x.work
    BY <2>1, ResetsPeer
  <2> QED
    BY <2>1, <2>2 DEF Resets, SameLink, Renews
<1>3. CASE m.type \in {"player-joined", "player-rejoined"}
  <2> DEFINE r == IF m.type = "player-joined" THEN m.roster ELSE Present
             x == [e EXCEPT !.roster = r]
  <2>1. f = ResetPeer(p, x)
    BY <1>3 DEF HandleServerMessage
  <2>2. Seen(e.roster, m) = r
    BY <1>3 DEF Seen
  <2>3. r \in Seats
    BY DEF Seats, News, Signals
  <2> HIDE DEF r, x, f
  <2>4. x = [e EXCEPT !.roster = r]
    BY DEF x
  <2>5. /\ x.roster = r
        /\ x.closed = e.closed /\ x.fatal = e.fatal /\ x.open = e.open
        /\ x.started = e.started /\ x.reports = e.reports /\ x.up = e.up
        /\ x.refused = e.refused
    BY <1>1, <2>3, <2>4
  <2>6. f \in GamesOf(b) /\ Keeps(x, f) /\ Resets(e, f) /\ f.work = e.work
    BY <1>2, <2>1, <2>3, <2>4
  <2> QED
    BY <1>3, <2>2, <2>5, <2>6 DEF Hears, Keeps, Relinks
<1>4. CASE m.type = "player-left"
  <2>1. f = IF m.explicit THEN ClosePeer([e EXCEPT !.roster = Nobody])
            ELSE [e EXCEPT !.roster.connected = FALSE]
    BY <1>4 DEF HandleServerMessage, OnPlayerLeft
  <2>2. Seen(e.roster, m) = IF m.explicit THEN Nobody ELSE [e.roster EXCEPT !.connected = FALSE]
    BY <1>4 DEF Seen
  <2>3. m.explicit \in BOOLEAN
    BY <1>4 DEF News, Signals
  <2> DEFINE x == [e EXCEPT !.roster = Nobody]
             y == [e EXCEPT !.roster = [e.roster EXCEPT !.connected = FALSE]]
  <2>4. Nobody \in Seats /\ [e.roster EXCEPT !.connected = FALSE] \in Seats
    BY <1>0, Disconnects DEF Seats
  <2>5. /\ x \in GamesOf(b) /\ x.roster = Nobody /\ SameLink(e, x) /\ x.work = e.work
        /\ x.closed = e.closed /\ x.fatal = e.fatal /\ x.open = e.open
        /\ x.started = e.started /\ x.reports = e.reports /\ x.up = e.up
        /\ x.refused = e.refused
    BY <1>1, <2>4
  <2>6. /\ y \in GamesOf(b) /\ y.roster = [e.roster EXCEPT !.connected = FALSE]
        /\ SameLink(e, y) /\ y.work = e.work
        /\ y.closed = e.closed /\ y.fatal = e.fatal /\ y.open = e.open
        /\ y.started = e.started /\ y.reports = e.reports /\ y.up = e.up
        /\ y.refused = e.refused
    BY <1>1, <2>4
  <2> HIDE DEF f, x
  <2>7. /\ ClosePeer(x) \in GamesOf(b) /\ Keeps(x, ClosePeer(x)) /\ Drops(x, ClosePeer(x))
        /\ ClosePeer(x).work = x.work
    BY <2>5, ClosesPeer
  <2>8. CASE m.explicit
    <3>1. f = ClosePeer(x)
      BY <2>1, <2>8 DEF x
    <3>2. Drops(e, f)
      BY <2>5, <2>7, <3>1 DEF Drops, SameLink
    <3> QED
      BY <1>4, <2>2, <2>5, <2>7, <2>8, <3>1, <3>2 DEF Hears, Keeps, Relinks
  <2>9. CASE ~m.explicit
    <3>1. f = y
      BY <2>1, <2>9
    <3> HIDE DEF y
    <3> QED
      BY <1>4, <2>2, <2>6, <2>9, <3>1 DEF Hears, Relinks
  <2> QED
    BY <2>3, <2>8, <2>9
<1>5. CASE m.type = "room-started"
  <2>1. f = [e EXCEPT !.started = TRUE]
    BY <1>5 DEF HandleServerMessage
  <2>2. Seen(e.roster, m) = e.roster
    BY <1>5 DEF Seen
  <2> QED
    BY <1>0, <1>5, <2>1, <2>2 DEF Hears, Relinks, SameLink, GamesOf
<1>6. CASE m.type \in {"offer", "answer", "ice"}
  <2>1. Seen(e.roster, m) = e.roster
    BY <1>6 DEF Seen
  <2>2. f \in GamesOf(b) /\ Keeps(e, f) /\ (p = Low => SameLink(e, f) /\ f.work = e.work)
    <3>1. CASE m.type = "offer"
      <4>1. f = OnOffer(p, e, m)
        BY <3>1 DEF HandleServerMessage
      <4> QED
        BY <1>0, <3>1, <4>1, TakesOffer
    <3>2. CASE m.type = "answer"
      <4> DEFINE g == [e EXCEPT !.link = FlushCandidates([@ EXCEPT !.remote = m.id, !.sdp = "stable"])]
      <4>1. f = IF e.link.sdp # "have-local-offer" THEN e ELSE g
        BY <3>2 DEF HandleServerMessage, OnAnswer
      <4>2. m.id \in Numbers
        BY <3>2 DEF News, Signals
      <4>3. e.link.sdp = "have-local-offer" =>
              g \in GamesOf(b) /\ Keeps(e, g) /\ SameLink(e, g) /\ g.work = e.work
        BY <4>2, TakesAnswer
      <4> HIDE DEF g, f
      <4> QED
        BY <1>0, <4>1, <4>3
    <3>3. CASE m.type = "ice"
      <4>1. f = OnIce(e, m)
        BY <3>3 DEF HandleServerMessage
      <4> HIDE DEF f
      <4> QED
        BY <3>3, <4>1, TakesIce
    <3> QED
      BY <1>6, <3>1, <3>2, <3>3
  <2> HIDE DEF f
  <2> QED
    BY <1>0, <1>6, <2>1, <2>2 DEF Hears, Keeps, Relinks
<1>7. CASE m.type = "error"
  <2> DEFINE x == IF m.code = "slow-consumer" THEN e ELSE ClosePeer(e)
  <2>1. f = [x EXCEPT !.fatal = TRUE, !.reports = @ + 1]
    BY <1>7 DEF HandleServerMessage, OnError, TeardownPeers
  <2>2. Seen(e.roster, m) = e.roster
    BY <1>7 DEF Seen
  <2>3. x \in GamesOf(b) /\ Keeps(e, x) /\ (SameLink(e, x) \/ Drops(e, x)) /\ x.work = e.work
    BY <1>0, ClosesPeer
  <2> HIDE DEF x, f
  <2>7. x.reports + 1 \in Nat
    BY <2>3 DEF GamesOf
  <2>8. /\ f \in GamesOf(b) /\ f.fatal = TRUE /\ f.reports = x.reports + 1 /\ f.closed = x.closed
        /\ f.open = x.open /\ f.roster = x.roster /\ f.started = x.started /\ f.up = x.up
        /\ f.refused = x.refused
    BY <2>1, <2>3, <2>7 DEF GamesOf
  <2>4. f \in GamesOf(b) /\ Hears(e, m, f)
    BY <1>7, <2>2, <2>3, <2>8 DEF Hears, Keeps
  <2>5. SameLink(x, f) /\ f.work = x.work
    BY <2>1, <2>3 DEF GamesOf, SameLink
  <2>6. Relinks(e, f)
    BY <2>3, <2>5 DEF Relinks, SameLink, Drops
  <2> QED
    BY <2>3, <2>4, <2>5, <2>6
<1>8. CASE m.type = "ws-closed"
  <2>1. f = IF e.fatal THEN e ELSE [e EXCEPT !.fatal = TRUE, !.reports = @ + 1]
    BY <1>8 DEF HandleServerMessage, OnWsClosed
  <2>2. Seen(e.roster, m) = e.roster
    BY <1>8 DEF Seen
  <2> HIDE DEF f
  <2>5. e.reports + 1 \in Nat
    BY DEF GamesOf
  <2>6. f \in GamesOf(b)
    BY <2>1, <2>5 DEF GamesOf
  <2>7. /\ f.fatal = TRUE /\ f.reports = IF e.fatal THEN e.reports ELSE e.reports + 1
        /\ f.closed = e.closed
        /\ f.open = e.open /\ f.roster = e.roster /\ f.started = e.started /\ f.up = e.up
        /\ f.refused = e.refused
    BY <1>0, <2>1 DEF GamesOf
  <2>3. f \in GamesOf(b) /\ Hears(e, m, f)
    BY <1>8, <2>2, <2>6, <2>7 DEF Hears
  <2>4. SameLink(e, f) /\ f.work = e.work
    BY <2>1 DEF GamesOf, SameLink
  <2> QED
    BY <2>3, <2>4 DEF Relinks
<1>9. m.type \in {"player-joined", "player-rejoined", "player-left",
                  "room-started", "offer", "answer", "ice", "error", "ws-closed"}
  BY DEF News, Signals
<1> QED
  BY <1>3, <1>4, <1>5, <1>6, <1>7, <1>8, <1>9

\* A failure of the current link makes the end that offers count it, and wait
\* for the time of a rebuild if one is left.
Retries(e, f) ==
  /\ f.link.id = e.link.id /\ f.epoch = e.epoch /\ f.tries = e.tries
  /\ f.rebuilds = e.rebuilds + 1
  /\ f.timers = IF e.rebuilds + 1 > MaxRebuilds THEN e.timers ELSE e.timers \cup {e.link.id}

\* A connection makes it forget the tries.
Succeeds(e, f) ==
  /\ f.link.id = e.link.id /\ f.epoch = e.epoch /\ f.tries = 0 /\ f.rebuilds = 0
  /\ f.timers = e.timers

\* A timer of link n has run out.
Rebuilt(e, n, f) ==
  /\ f.timers = e.timers \ {n} /\ f.rebuilds = e.rebuilds
  /\ \/ f.link.id = e.link.id /\ f.link.pc = e.link.pc /\ f.epoch = e.epoch /\ f.tries = e.tries
     \/ /\ n = e.link.id
        /\ f.link.id = e.epoch + 1 /\ f.epoch = e.epoch + 1 /\ f.link.pc = "new"
        /\ f.tries = e.tries + 1

\* handle_peer_failure: the next try is due once, or the player is given up.
LEMMA NativeFailure ==
  ASSUME NEW b, NEW e \in GamesOf(b), NEW p \in Ends
  PROVE  /\ HandlePeerFailure(p, e) \in GamesOf(b)
         /\ Keeps(e, HandlePeerFailure(p, e)) /\ HandlePeerFailure(p, e).work = e.work
         /\ HandlePeerFailure(p, e).link = e.link
         /\ p = Low => Retries(e, HandlePeerFailure(p, e))
<1> DEFINE t == IF e.rebuilds + 1 > MaxRebuilds THEN e.timers ELSE e.timers \cup {e.link.id}
           g == [e EXCEPT !.rebuilds = @ + 1, !.timers = t]
<1>1. e.rebuilds + 1 \in Nat /\ e.timers \in SUBSET Nat /\ e.link.id \in Nat
  BY DEF GamesOf, SoundLinks, Links
<1>2. t \in SUBSET Nat
  BY <1>1
<1>3. HandlePeerFailure(p, e) = IF Other(p) < p THEN e ELSE g
  BY DEF HandlePeerFailure
<1> HIDE DEF t
<1>4. g \in GamesOf(b) /\ Keeps(e, g) /\ g.work = e.work /\ g.link = e.link
  BY <1>1, <1>2 DEF GamesOf, Keeps
<1>5. g.epoch = e.epoch /\ g.tries = e.tries /\ g.rebuilds = e.rebuilds + 1 /\ g.timers = t
  BY DEF GamesOf
<1> HIDE DEF g
<1>6. Retries(e, g)
  BY <1>4, <1>5 DEF Retries, t
<1>7. p = Low => ~(Other(p) < p)
  BY DEF Low, Other
<1>8. Keeps(e, e)
  BY DEF Keeps
<1> QED
  BY <1>3, <1>4, <1>6, <1>7, <1>8

\* handle_internal: a callback counts only for the link it was made for.
LEMMA NativeInternal ==
  ASSUME NEW e \in GamesOf("native"), NEW p \in Ends, e.work # <<>>
  PROVE  LET f == HandleInternal(p, WorkTaken(e), Head(e.work))
         IN /\ f \in GamesOf("native") /\ Keeps(e, f) /\ f.work = Tail(e.work)
            /\ f.link.id = e.link.id /\ f.link.pc = e.link.pc
            /\ p = Low => \/ SameLink(e, f) /\ ~Pending(e, 1)
                          \/ Succeeds(e, f) /\ ~Pending(e, 1)
                          \/ Retries(e, f) /\ Pending(e, 1)
<1> DEFINE d == WorkTaken(e)
           c == Head(e.work)
           f == HandleInternal(p, d, c)
           i == [type |-> "ice", id |-> d.link.id]
           s == [d EXCEPT !.rebuilds = 0, !.tries = 0]
<1>1. e.work \in Seq(Items("native"))
  BY DEF GamesOf
<1>2. c \in Items("native") /\ Tail(e.work) \in Seq(Items("native")) /\ c = e.work[1]
      /\ 1 \in 1 .. Len(e.work)
  BY <1>1
<1>3. c.kind \in {"ice", "connected", "failed"} /\ c.epoch \in Numbers
  BY <1>2 DEF Items
<1>4. d \in GamesOf("native") /\ Keeps(e, d) /\ SameLink(e, d) /\ d.work = Tail(e.work)
  BY <1>2 DEF WorkTaken, GamesOf, Keeps, SameLink
<1>5. Pending(e, 1) <=> c.kind = "failed" /\ c.epoch = d.link.id
  BY <1>2, <1>4 DEF Pending, SameLink
<1>6. f = IF d.link.id # c.epoch THEN d
          ELSE IF c.kind = "ice" THEN SendSignal(d, i)
          ELSE IF c.kind = "connected" THEN s ELSE HandlePeerFailure(p, d)
  BY <1>3 DEF HandleInternal, LinkEpochCurrent, HandlePeerState
<1> SUFFICES /\ f \in GamesOf("native") /\ Keeps(e, f) /\ f.work = Tail(e.work)
             /\ f.link.id = e.link.id /\ f.link.pc = e.link.pc
             /\ p = Low => \/ SameLink(e, f) /\ ~Pending(e, 1)
                           \/ Succeeds(e, f) /\ ~Pending(e, 1)
                           \/ Retries(e, f) /\ Pending(e, 1)
  OBVIOUS
<1> HIDE DEF c, d, f
<1>7. CASE d.link.id # c.epoch
  BY <1>4, <1>5, <1>6, <1>7 DEF SameLink
<1>8. CASE d.link.id = c.epoch /\ c.kind = "ice"
  <2>1. i \in Signals /\ i \in Requests
    BY <1>3, <1>8 DEF Requests, Signals
  <2> HIDE DEF i
  <2>2. SendSignal(d, i) \in GamesOf("native") /\ Keeps(d, SendSignal(d, i))
        /\ SameLink(d, SendSignal(d, i)) /\ SendSignal(d, i).work = d.work
    BY <1>4, <2>1, Sends
  <2> QED
    BY <1>4, <1>5, <1>6, <1>8, <2>2 DEF Keeps, SameLink
<1>9. CASE d.link.id = c.epoch /\ c.kind = "connected"
  <2>1. s \in GamesOf("native") /\ Keeps(d, s) /\ s.work = d.work /\ s.link = d.link
        /\ s.rebuilds = 0 /\ s.tries = 0 /\ s.timers = d.timers /\ s.epoch = d.epoch
    BY <1>4 DEF GamesOf, Keeps
  <2> HIDE DEF s
  <2> QED
    BY <1>4, <1>5, <1>6, <1>9, <2>1 DEF Keeps, SameLink, Succeeds
<1>10. CASE d.link.id = c.epoch /\ c.kind = "failed"
  <2>1. HandlePeerFailure(p, d) \in GamesOf("native") /\ Keeps(d, HandlePeerFailure(p, d))
    BY <1>4, NativeFailure
  <2>2. HandlePeerFailure(p, d).work = d.work /\ HandlePeerFailure(p, d).link = d.link
        /\ (p = Low => Retries(d, HandlePeerFailure(p, d)))
    BY <1>4, NativeFailure
  <2> QED
    BY <1>4, <1>5, <1>6, <1>10, <2>1, <2>2 DEF Keeps, SameLink, Retries
<1> QED
  BY <1>3, <1>7, <1>8, <1>9, <1>10

\* The timer of a link makes the next one only if that link is still there.
LEMMA NativeTimer ==
  ASSUME NEW b, NEW e \in GamesOf(b), NEW n \in e.timers
  PROVE  LET f == Rebuild(TimerTaken(e, n), n)
         IN f \in GamesOf(b) /\ Keeps(e, f) /\ Rebuilt(e, n, f) /\ f.work = e.work
<1> DEFINE d == TimerTaken(e, n)
           f == Rebuild(d, n)
<1>1. d \in GamesOf(b) /\ Keeps(e, d) /\ d.work = e.work /\ d.link = e.link /\ d.epoch = e.epoch
      /\ d.timers = e.timers \ {n} /\ d.rebuilds = e.rebuilds /\ d.tries = e.tries
  BY DEF TimerTaken, GamesOf, Keeps
<1>2. f = IF d.link.id # n \/ d.link.pc # "failed" \/ d.roster # Present
          THEN d ELSE InitiatePeer(d)
  BY DEF Rebuild, LinkEpochCurrent
<1> SUFFICES f \in GamesOf(b) /\ Keeps(e, f) /\ Rebuilt(e, n, f) /\ f.work = e.work
  OBVIOUS
<1> HIDE DEF d, f
<1>3. Rebuilt(e, n, d)
  BY <1>1 DEF Rebuilt
<1>4. InitiatePeer(d) \in GamesOf(b) /\ Keeps(d, InitiatePeer(d))
      /\ InitiatePeer(d).work = d.work /\ InitiatePeer(d).rebuilds = d.rebuilds
      /\ (InitiatePeer(d) = d \/ Renews(d, InitiatePeer(d), d.tries))
  BY <1>1, Initiates
<1>5. d.link.id = n => Rebuilt(e, n, InitiatePeer(d))
  BY <1>1, <1>3, <1>4 DEF Rebuilt, Renews
<1> QED
  BY <1>1, <1>2, <1>3, <1>4, <1>5 DEF Keeps

\* The callback of a candidate only sends the actor a message.
LEMMA NativeGathers ==
  ASSUME NEW e \in GamesOf("native"), e.link.sdp # "new"
  PROVE  LET f == OnIceCandidate(e)
         IN /\ f \in GamesOf("native") /\ Keeps(e, f)
            /\ f.work = Append(e.work, [kind |-> "ice", epoch |-> e.link.id])
            /\ f.link.id = e.link.id /\ f.epoch = e.epoch /\ f.timers = e.timers
            /\ f.rebuilds = e.rebuilds /\ f.tries = e.tries /\ f.link.pc = e.link.pc
<1> DEFINE l == [e.link EXCEPT !.gathered = TRUE]
           w == Append(e.work, [kind |-> "ice", epoch |-> e.link.id])
           f == OnIceCandidate(e)
<1>1. e.link \in SoundLinks /\ e.work \in Seq(Items("native"))
  BY DEF GamesOf
<1>2. e.link.id \in Numbers
  BY <1>1 DEF SoundLinks, Links, Numbers
<1>3. [kind |-> "ice", epoch |-> e.link.id] \in Items("native")
  BY <1>2 DEF Items
<1>4. w \in Seq(Items("native"))
  BY <1>1, <1>3
<1>5. l \in SoundLinks /\ l.id = e.link.id /\ l.pc = e.link.pc
  BY <1>1 DEF SoundLinks, Links
<1>6. f = [e EXCEPT !.link = l, !.work = w]
  BY DEF OnIceCandidate, OnPeerConnectionState, GamesOf
<1> SUFFICES /\ f \in GamesOf("native") /\ Keeps(e, f) /\ f.work = w
             /\ f.link.id = e.link.id /\ f.epoch = e.epoch /\ f.timers = e.timers
             /\ f.rebuilds = e.rebuilds /\ f.tries = e.tries /\ f.link.pc = e.link.pc
  OBVIOUS
<1> HIDE DEF f, l, w
<1>7. f \in GamesOf("native") /\ Keeps(e, f) /\ f.work = w /\ f.link = l /\ f.epoch = e.epoch
      /\ f.timers = e.timers /\ f.rebuilds = e.rebuilds /\ f.tries = e.tries
  BY <1>4, <1>5, <1>6 DEF GamesOf, Keeps
<1> QED
  BY <1>5, <1>7

\* That of a state notes the state, too.
LEMMA NativeNotes ==
  ASSUME NEW e \in GamesOf("native"), e.link.sdp # "new", NEW k \in {"connected", "failed"}
  PROVE  LET f == OnPeerConnectionState(e, k)
         IN /\ f \in GamesOf("native") /\ Keeps(e, f)
            /\ f.work = Append(e.work, [kind |-> k, epoch |-> e.link.id])
            /\ f.link.id = e.link.id /\ f.epoch = e.epoch /\ f.timers = e.timers
            /\ f.rebuilds = e.rebuilds /\ f.tries = e.tries /\ f.link.pc = k
<1> DEFINE l == [e.link EXCEPT !.pc = k]
           w == Append(e.work, [kind |-> k, epoch |-> e.link.id])
           f == OnPeerConnectionState(e, k)
<1>1. e.link \in SoundLinks /\ e.work \in Seq(Items("native"))
  BY DEF GamesOf
<1>2. e.link.id \in Numbers
  BY <1>1 DEF SoundLinks, Links, Numbers
<1>3. [kind |-> k, epoch |-> e.link.id] \in Items("native")
  BY <1>2 DEF Items
<1>4. w \in Seq(Items("native"))
  BY <1>1, <1>3
<1>5. l \in SoundLinks /\ l.id = e.link.id /\ l.pc = k
  BY <1>1 DEF SoundLinks, Links
<1>6. f = [e EXCEPT !.link = l, !.work = w]
  BY DEF OnIceCandidate, OnPeerConnectionState, GamesOf
<1> SUFFICES /\ f \in GamesOf("native") /\ Keeps(e, f) /\ f.work = w
             /\ f.link.id = e.link.id /\ f.epoch = e.epoch /\ f.timers = e.timers
             /\ f.rebuilds = e.rebuilds /\ f.tries = e.tries /\ f.link.pc = k
  OBVIOUS
<1> HIDE DEF f, l, w
<1>7. f \in GamesOf("native") /\ Keeps(e, f) /\ f.work = w /\ f.link = l /\ f.epoch = e.epoch
      /\ f.timers = e.timers /\ f.rebuilds = e.rebuilds /\ f.tries = e.tries
  BY <1>4, <1>5, <1>6 DEF GamesOf, Keeps
<1> QED
  BY <1>5, <1>7

----------------------------------------------------------------------------
(* The browser backend *)

\* What the two backends do alike, line by line.
LEMMA Alike ==
  ASSUME NEW e, NEW m, NEW l, NEW p, NEW n
  PROVE  /\ WasmSendSignal(e, m) = SendSignal(e, m)
         /\ WasmClosePeer(e) = ClosePeer(e)
         /\ WasmCreateLink(e) = CreateLink(e)
         /\ WasmShutdown(e) = Shutdown(e)
         /\ WasmFlush(l) = FlushCandidates(l)
         /\ WasmOnIce(e, m) = OnIce(e, m)
         /\ WasmOnPlayerLeft(e, m) = OnPlayerLeft(e, m)
         /\ WasmOnError(e, m) = OnError(e, m)
         /\ WasmOnClose(e) = OnWsClosed(e)
         /\ WasmHandlePeerFailure(p, e) = HandlePeerFailure(p, e)
<1>1. WasmSendSignal(e, m) = SendSignal(e, m) /\ WasmClosePeer(e) = ClosePeer(e)
      /\ WasmFlush(l) = FlushCandidates(l) /\ WasmOnIce(e, m) = OnIce(e, m)
  BY DEF WasmSendSignal, SendSignal, WasmClosePeer, ClosePeer, WasmFlush, FlushCandidates,
         WasmOnIce, OnIce
<1>2. WasmCreateLink(e) = CreateLink(e)
  BY DEF WasmCreateLink, WasmClosePeer, CreateLink, ClosePeer
<1>3. WasmShutdown(e) = Shutdown(e)
  BY DEF WasmShutdown, WasmTeardownPeers, WasmSendSignal, WasmClosePeer,
         Shutdown, TeardownPeers, SendSignal, ClosePeer
<1>4. WasmOnPlayerLeft(e, m) = OnPlayerLeft(e, m)
  BY DEF WasmOnPlayerLeft, WasmClosePeer, OnPlayerLeft, ClosePeer
<1>5. WasmOnError(e, m) = OnError(e, m)
  BY DEF WasmOnError, WasmTeardownPeers, WasmClosePeer, OnError, TeardownPeers, ClosePeer
<1>6. WasmOnClose(e) = OnWsClosed(e)
  BY DEF WasmOnClose, OnWsClosed
<1>7. WasmHandlePeerFailure(p, e) = HandlePeerFailure(p, e)
  BY DEF WasmHandlePeerFailure, HandlePeerFailure
<1> QED
  BY <1>1, <1>2, <1>3, <1>4, <1>5, <1>6, <1>7

\* The tasks that handle an offer and an answer have what they need of them.
LEMMA Spawns ==
  ASSUME NEW e \in GamesOf("wasm"), e.link.id \in Numbers, NEW n \in Nat,
         NEW task \in {"offer", "take-offer", "answer", "take-answer"},
         task \in {"take-offer", "take-answer"} => n \in Numbers
  PROVE  /\ Spawn(e, task, n) \in GamesOf("wasm")
         /\ Keeps(e, Spawn(e, task, n)) /\ SameLink(e, Spawn(e, task, n))
         /\ Spawn(e, task, n).rebuilds = e.rebuilds
<1> DEFINE t == [task |-> task, link |-> e.link.id, remote |-> n]
<1>1. e.work \in Seq(Items("wasm"))
  BY DEF GamesOf
<1>2. t \in Items("wasm")
  BY DEF Items
<1>3. Append(e.work, t) \in Seq(Items("wasm"))
  BY <1>1, <1>2
<1>4. Spawn(e, task, n) = [e EXCEPT !.work = Append(e.work, t)]
  BY DEF Spawn
<1> HIDE DEF t
<1> QED
  BY <1>3, <1>4 DEF GamesOf, Keeps, SameLink

\* A link is offered, unless there is one.
LEMMA WasmInitiates ==
  ASSUME NEW e \in GamesOf("wasm")
  PROVE  /\ WasmInitiatePeer(e) \in GamesOf("wasm")
         /\ Keeps(e, WasmInitiatePeer(e)) /\ WasmInitiatePeer(e).rebuilds = e.rebuilds
         /\ WasmInitiatePeer(e) = e \/ Renews(e, WasmInitiatePeer(e), e.tries)
<1> DEFINE c == CreateLink(e)
           s == Spawn(c, "offer", 0)
<1>1. /\ c \in GamesOf("wasm") /\ Keeps(e, c) /\ Renews(e, c, e.tries) /\ c.link.id \in Numbers
      /\ c.rebuilds = e.rebuilds
  BY Creates
<1>2. WasmInitiatePeer(e) = IF e.closed THEN e ELSE s
  BY Alike DEF WasmInitiatePeer
<1> HIDE DEF c
<1>3. s \in GamesOf("wasm") /\ Keeps(c, s) /\ SameLink(c, s) /\ s.rebuilds = c.rebuilds
  BY <1>1, Spawns
<1> HIDE DEF s
<1>4. Keeps(e, s) /\ Keeps(e, e)
  BY <1>1, <1>3 DEF Keeps
<1>5. Renews(e, s, e.tries) /\ s.rebuilds = e.rebuilds
  BY <1>1, <1>3 DEF Renews, SameLink
<1> QED
  BY <1>2, <1>3, <1>4, <1>5

\* News of the other player: a new link, or none, and the count starts over.
LEMMA WasmResetsPeer ==
  ASSUME NEW e \in GamesOf("wasm"), NEW p \in Ends
  PROVE  /\ WasmResetPeer(p, e) \in GamesOf("wasm")
         /\ Keeps(e, WasmResetPeer(p, e)) /\ Resets(e, WasmResetPeer(p, e))
<1> DEFINE c == ClosePeer(e)
           r == [c EXCEPT !.rebuilds = 0, !.tries = 0]
<1>0. c \in GamesOf("wasm") /\ Keeps(e, c) /\ Drops(e, c)
  BY ClosesPeer
<1>2. WasmResetPeer(p, e) = IF p < Other(p) THEN WasmInitiatePeer(r) ELSE r
  BY Alike DEF WasmResetPeer
<1> HIDE DEF c
<1>1. /\ r \in GamesOf("wasm") /\ Keeps(e, r) /\ r.rebuilds = 0 /\ r.tries = 0
      /\ r.link.id = 0 /\ r.link.pc = "new" /\ r.epoch = e.epoch /\ r.timers = e.timers
  BY <1>0 DEF GamesOf, Keeps, Drops
<1> HIDE DEF r
<1>3. /\ WasmInitiatePeer(r) \in GamesOf("wasm") /\ Keeps(r, WasmInitiatePeer(r))
      /\ WasmInitiatePeer(r).rebuilds = r.rebuilds
  BY <1>1, WasmInitiates
<1>4. WasmInitiatePeer(r) = r \/ Renews(r, WasmInitiatePeer(r), r.tries)
  BY <1>1, WasmInitiates
<1>5. Resets(e, r)
  BY <1>1 DEF Resets
<1>6. Resets(e, WasmInitiatePeer(r))
  BY <1>1, <1>3, <1>4 DEF Resets, Renews
<1>7. Keeps(e, WasmInitiatePeer(r))
  BY <1>1, <1>3 DEF Keeps
<1> QED
  BY <1>1, <1>2, <1>3, <1>5, <1>6, <1>7

\* A message from the server, to either backend, that makes no link and starts
\* no task of its own.
LEMMA WasmHearsAlike ==
  ASSUME NEW e, NEW p, NEW m \in News,
         m.type \in {"player-left", "room-started", "ice", "error", "ws-closed"}
  PROVE  WasmHandleServerMessage(p, e, m) = HandleServerMessage(p, e, m)
<1>1. /\ WasmOnIce(e, m) = OnIce(e, m) /\ WasmOnPlayerLeft(e, m) = OnPlayerLeft(e, m)
      /\ WasmOnError(e, m) = OnError(e, m) /\ WasmOnClose(e) = OnWsClosed(e)
  BY Alike
<1> QED
  BY <1>1 DEF WasmHandleServerMessage, HandleServerMessage

\* handle_server_message: what the client comes to know, and what becomes of its link.
LEMMA WasmHears ==
  ASSUME NEW e \in GamesOf("wasm"), NEW p \in Ends, NEW m \in News, ~e.closed
  PROVE  LET f == WasmHandleServerMessage(p, e, m)
         IN f \in GamesOf("wasm") /\ Hears(e, m, f) /\ (p = Low => Relinks(e, f))
<1> DEFINE f == WasmHandleServerMessage(p, e, m)
<1> SUFFICES f \in GamesOf("wasm") /\ Hears(e, m, f) /\ (p = Low => Relinks(e, f))
  OBVIOUS
<1>0. /\ Keeps(e, e) /\ SameLink(e, e)
      /\ e.closed \in BOOLEAN /\ e.open \in BOOLEAN /\ e.fatal \in BOOLEAN /\ e.started \in BOOLEAN
  BY DEF GamesOf, Keeps, SameLink
<1>1. CASE m.type \in {"player-left", "room-started", "ice", "error", "ws-closed"}
  <2>1. f = HandleServerMessage(p, e, m)
    BY <1>1, WasmHearsAlike
  <2> QED
    BY <2>1, NativeHears
<1>2. CASE m.type \in {"player-joined", "player-rejoined"}
  <2> DEFINE r == IF m.type = "player-joined" THEN m.roster ELSE Present
             x == [e EXCEPT !.roster = r]
  <2>1. f = WasmResetPeer(p, x)
    BY <1>2 DEF WasmHandleServerMessage
  <2>2. Seen(e.roster, m) = r
    BY <1>2 DEF Seen
  <2>3. r \in Seats
    BY DEF Seats, News, Signals
  <2> HIDE DEF r
  <2>4. /\ x \in GamesOf("wasm") /\ x.roster = r /\ SameLink(e, x)
        /\ x.closed = e.closed /\ x.fatal = e.fatal /\ x.open = e.open
        /\ x.started = e.started /\ x.reports = e.reports /\ x.up = e.up
        /\ x.refused = e.refused
    BY <2>3 DEF GamesOf, SameLink
  <2> HIDE DEF x, f
  <2>5. f \in GamesOf("wasm") /\ Keeps(x, f) /\ Resets(x, f)
    BY <2>1, <2>4, WasmResetsPeer
  <2>6. Resets(e, f)
    BY <2>4, <2>5 DEF Resets, SameLink, Renews
  <2> QED
    BY <1>2, <2>2, <2>4, <2>5, <2>6 DEF Hears, Keeps, Relinks
<1>3. CASE m.type \in {"offer", "answer"}
  <2>1. Seen(e.roster, m) = e.roster
    BY <1>3 DEF Seen
  <2>2. m.id \in Numbers /\ m.id \in Nat
    BY <1>3 DEF News, Signals, Numbers
  <2>3. f \in GamesOf("wasm") /\ Keeps(e, f) /\ (p = Low => SameLink(e, f))
    <3>1. CASE m.type = "offer"
      <4> DEFINE c == CreateLink(e)
                 s == Spawn(c, "take-offer", m.id)
      <4>1. f = IF p < Other(p) THEN e ELSE s
        BY <3>1, Alike DEF WasmHandleServerMessage, WasmOnOffer
      <4>2. /\ c \in GamesOf("wasm") /\ Keeps(e, c) /\ c.link.id \in Numbers
        BY Creates
      <4> HIDE DEF c
      <4>3. s \in GamesOf("wasm") /\ Keeps(c, s)
        BY <2>2, <4>2, Spawns
      <4> HIDE DEF s, f
      <4>4. Keeps(e, s)
        BY <4>2, <4>3 DEF Keeps
      <4>5. p = Low => p < Other(p)
        BY DEF Low, Other
      <4> QED
        BY <1>0, <4>1, <4>3, <4>4, <4>5
    <3>2. CASE m.type = "answer"
      <4> DEFINE s == Spawn(e, "take-answer", m.id)
      <4>1. f = IF e.link.sdp # "have-local-offer" THEN e ELSE s
        BY <3>2 DEF WasmHandleServerMessage, WasmOnAnswer
      <4>2. e.link.sdp = "have-local-offer" => e.link.id \in Numbers
        BY DEF GamesOf, SoundLinks, Links, Numbers
      <4>3. e.link.sdp = "have-local-offer" =>
              s \in GamesOf("wasm") /\ Keeps(e, s) /\ SameLink(e, s)
        BY <2>2, <4>2, Spawns
      <4> HIDE DEF s, f
      <4> QED
        BY <1>0, <4>1, <4>3
    <3> QED
      BY <1>3, <3>1, <3>2
  <2> HIDE DEF f
  <2> QED
    BY <1>0, <1>3, <2>1, <2>3 DEF Hears, Keeps, Relinks
<1>4. m.type \in {"player-joined", "player-rejoined", "player-left",
                  "room-started", "offer", "answer", "ice", "error", "ws-closed"}
  BY DEF News, Signals
<1> QED
  BY <1>1, <1>2, <1>3, <1>4

\* A task that goes on changes neither the session nor the tries.
LEMMA WasmResumes ==
  ASSUME NEW e \in GamesOf("wasm"), NEW t \in Items("wasm")
  PROVE  Resume(e, t) \in GamesOf("wasm") /\ Keeps(e, Resume(e, t)) /\ SameLink(e, Resume(e, t))
<1> DEFINE f == Resume(e, t)
<1>1. t.task \in {"offer", "take-offer", "answer", "take-answer"} /\ t.link \in Numbers
      /\ t.remote \in Nat
  BY DEF Items, Numbers
<1>2. t.task \in {"take-offer", "take-answer"} => t.remote \in Numbers
  BY DEF Items
<1>3. Keeps(e, e) /\ SameLink(e, e) /\ e.link \in SoundLinks
  BY DEF Keeps, SameLink, GamesOf
<1>4. CASE e.link.id # t.link
  BY <1>3, <1>4 DEF Resume
<1>5. ASSUME e.link.id = t.link, NEW sdp \in {"have-local-offer", "stable"},
             NEW ty \in {"offer", "answer"}
      PROVE  LET g == SendSignal([e EXCEPT !.link.sdp = sdp], [type |-> ty, id |-> e.link.id])
             IN g \in GamesOf("wasm") /\ Keeps(e, g) /\ SameLink(e, g)
  <2> DEFINE l == [e.link EXCEPT !.sdp = sdp]
             d == [e EXCEPT !.link = l]
             m == [type |-> ty, id |-> e.link.id]
  <2>1. l \in SoundLinks /\ l.id = e.link.id /\ l.pc = e.link.pc
    BY <1>1, <1>3, <1>5 DEF SoundLinks, Links, Numbers
  <2>2. m \in Signals /\ m \in Requests
    BY <1>1, <1>5 DEF Requests, Signals
  <2>3. [e EXCEPT !.link.sdp = sdp] = d
    BY DEF GamesOf
  <2> HIDE DEF l, m
  <2>4. d \in GamesOf("wasm") /\ Keeps(e, d) /\ SameLink(e, d)
    BY <2>1 DEF GamesOf, Keeps, SameLink
  <2> HIDE DEF d
  <2>5. SendSignal(d, m) \in GamesOf("wasm") /\ Keeps(d, SendSignal(d, m))
        /\ SameLink(d, SendSignal(d, m))
    BY <2>2, <2>4, Sends
  <2>6. Keeps(e, SendSignal(d, m))
    BY <2>4, <2>5 DEF Keeps
  <2>7. SameLink(e, SendSignal(d, m))
    BY <2>4, <2>5 DEF SameLink
  <2> QED
    BY <2>3, <2>5, <2>6, <2>7 DEF m
<1>6. CASE e.link.id = t.link /\ t.task = "offer"
  <2>1. f = SendSignal([e EXCEPT !.link.sdp = "have-local-offer"],
                       [type |-> "offer", id |-> e.link.id])
    BY <1>6, Alike DEF Resume, OfferFlow
  <2> QED
    BY <1>5, <1>6, <2>1
<1>7. CASE e.link.id = t.link /\ t.task = "answer"
  <2>1. f = SendSignal([e EXCEPT !.link.sdp = "stable"], [type |-> "answer", id |-> e.link.id])
    BY <1>7, Alike DEF Resume, AnswerFlow
  <2> QED
    BY <1>5, <1>7, <2>1
<1>8. CASE e.link.id = t.link /\ t.task = "take-offer"
  <2> DEFINE k == [e.link EXCEPT !.remote = t.remote, !.sdp = "have-remote-offer"]
             l == FlushCandidates(k)
             d == [e EXCEPT !.link = l]
  <2>1. k \in SoundLinks /\ k.remote # 0 /\ k.id = e.link.id /\ k.pc = e.link.pc
    BY <1>1, <1>2, <1>3, <1>8 DEF SoundLinks, Links, Numbers
  <2>2. f = Spawn(d, "answer", t.remote)
    BY <1>8, Alike DEF Resume, TakeOffer
  <2> HIDE DEF k
  <2>3. l \in SoundLinks /\ l.id = e.link.id /\ l.pc = e.link.pc
    BY <2>1, Flushes
  <2> HIDE DEF l
  <2>4. d \in GamesOf("wasm") /\ Keeps(e, d) /\ SameLink(e, d) /\ d.link.id \in Numbers
    BY <1>1, <1>8, <2>3 DEF GamesOf, Keeps, SameLink
  <2> HIDE DEF d
  <2>5. Spawn(d, "answer", t.remote) \in GamesOf("wasm") /\ Keeps(d, Spawn(d, "answer", t.remote))
        /\ SameLink(d, Spawn(d, "answer", t.remote))
    BY <1>1, <2>4, Spawns
  <2>6. Keeps(e, f) /\ SameLink(e, f)
    BY <2>2, <2>4, <2>5 DEF Keeps, SameLink
  <2> QED
    BY <2>2, <2>5, <2>6
<1>9. CASE e.link.id = t.link /\ t.task = "take-answer"
  <2> DEFINE g == [e EXCEPT !.link = FlushCandidates([@ EXCEPT !.remote = t.remote, !.sdp = "stable"])]
  <2>1. f = IF e.link.sdp # "have-local-offer" THEN e ELSE g
    BY <1>9, Alike DEF Resume, TakeAnswer
  <2>2. t.remote \in Numbers
    BY <1>2, <1>9
  <2>3. e.link.sdp = "have-local-offer" =>
          g \in GamesOf("wasm") /\ Keeps(e, g) /\ SameLink(e, g)
    BY <2>2, TakesAnswer
  <2> HIDE DEF f, g
  <2>4. f \in GamesOf("wasm") /\ Keeps(e, f) /\ SameLink(e, f)
    BY <1>3, <2>1, <2>3
  <2> QED
    BY <2>4 DEF f
<1> QED
  BY <1>1, <1>4, <1>6, <1>7, <1>8, <1>9

\* The timer of a link makes the next one only if that link is still there.
LEMMA WasmTimer ==
  ASSUME NEW e \in GamesOf("wasm"), NEW n \in e.timers
  PROVE  LET f == WasmRebuild(TimerTaken(e, n), n)
         IN f \in GamesOf("wasm") /\ Keeps(e, f) /\ Rebuilt(e, n, f)
<1> DEFINE d == TimerTaken(e, n)
           f == WasmRebuild(d, n)
<1>1. d \in GamesOf("wasm") /\ Keeps(e, d) /\ d.link = e.link /\ d.epoch = e.epoch
      /\ d.timers = e.timers \ {n} /\ d.rebuilds = e.rebuilds /\ d.tries = e.tries
  BY DEF TimerTaken, GamesOf, Keeps
<1>2. f = IF d.link.id # n \/ d.link.pc # "failed" \/ d.roster # Present
          THEN d ELSE WasmInitiatePeer(d)
  BY DEF WasmRebuild
<1> SUFFICES f \in GamesOf("wasm") /\ Keeps(e, f) /\ Rebuilt(e, n, f)
  OBVIOUS
<1> HIDE DEF d, f
<1>3. Rebuilt(e, n, d)
  BY <1>1 DEF Rebuilt
<1>4. WasmInitiatePeer(d) \in GamesOf("wasm") /\ Keeps(d, WasmInitiatePeer(d))
      /\ WasmInitiatePeer(d).rebuilds = d.rebuilds
      /\ (WasmInitiatePeer(d) = d \/ Renews(d, WasmInitiatePeer(d), d.tries))
  BY <1>1, WasmInitiates
<1>5. d.link.id = n => Rebuilt(e, n, WasmInitiatePeer(d))
  BY <1>1, <1>3, <1>4 DEF Rebuilt, Renews
<1> QED
  BY <1>1, <1>2, <1>3, <1>4, <1>5 DEF Keeps

\* The handler of a candidate sends it at once, and that of a state counts it.
LEMMA WasmCallbacks ==
  ASSUME NEW e \in GamesOf("wasm"), e.link.sdp # "new", NEW p \in Ends
  PROVE  /\ WasmOnIceCandidate(e) \in GamesOf("wasm")
         /\ Keeps(e, WasmOnIceCandidate(e)) /\ SameLink(e, WasmOnIceCandidate(e))
         /\ \A k \in {"connected", "failed"} :
              LET f == WasmOnConnectionState(p, e, k)
              IN /\ f \in GamesOf("wasm") /\ Keeps(e, f) /\ f.link.pc = k
                 /\ p = Low => IF k = "connected" THEN Succeeds(e, f) ELSE Retries(e, f)
<1>1. e.link \in SoundLinks
  BY DEF GamesOf
<1>2. e.link.id \in Numbers
  BY <1>1 DEF SoundLinks, Links, Numbers
<1>3. /\ WasmOnIceCandidate(e) \in GamesOf("wasm")
      /\ Keeps(e, WasmOnIceCandidate(e)) /\ SameLink(e, WasmOnIceCandidate(e))
  <2> DEFINE l == [e.link EXCEPT !.gathered = TRUE]
             d == [e EXCEPT !.link = l]
             m == [type |-> "ice", id |-> e.link.id]
  <2>1. l \in SoundLinks /\ l.id = e.link.id /\ l.pc = e.link.pc
    BY <1>1 DEF SoundLinks, Links
  <2>2. m \in Signals /\ m \in Requests
    BY <1>2 DEF Requests, Signals
  <2>3. [e EXCEPT !.link.gathered = TRUE] = d
    BY DEF GamesOf
  <2>4. WasmOnIceCandidate(e) = SendSignal(d, m)
    BY <2>3, Alike DEF WasmOnIceCandidate
  <2> HIDE DEF l, m
  <2>5. d \in GamesOf("wasm") /\ Keeps(e, d) /\ SameLink(e, d)
    BY <2>1 DEF GamesOf, Keeps, SameLink
  <2> HIDE DEF d
  <2>6. SendSignal(d, m) \in GamesOf("wasm") /\ Keeps(d, SendSignal(d, m))
        /\ SameLink(d, SendSignal(d, m))
    BY <2>2, <2>5, Sends
  <2>7. Keeps(e, SendSignal(d, m)) /\ SameLink(e, SendSignal(d, m))
    BY <2>5, <2>6 DEF Keeps, SameLink
  <2> QED
    BY <2>4, <2>6, <2>7
<1>4. ASSUME NEW k \in {"connected", "failed"}
      PROVE  LET f == WasmOnConnectionState(p, e, k)
             IN /\ f \in GamesOf("wasm") /\ Keeps(e, f) /\ f.link.pc = k
                /\ p = Low => IF k = "connected" THEN Succeeds(e, f) ELSE Retries(e, f)
  <2> DEFINE l == [e.link EXCEPT !.pc = k]
             s == [e EXCEPT !.link = l]
             g == [s EXCEPT !.rebuilds = 0, !.tries = 0]
             h == HandlePeerFailure(p, s)
             f == WasmOnConnectionState(p, e, k)
  <2>1. l \in SoundLinks /\ l.id = e.link.id /\ l.pc = k
    BY <1>1 DEF SoundLinks, Links
  <2>2. [e EXCEPT !.link.pc = k] = s
    BY DEF GamesOf
  <2>3. f = IF k = "connected" THEN g ELSE h
    BY <2>2, Alike DEF WasmOnConnectionState
  <2> HIDE DEF l
  <2>4. s \in GamesOf("wasm") /\ Keeps(e, s) /\ s.link = l /\ s.epoch = e.epoch
        /\ s.timers = e.timers /\ s.tries = e.tries /\ s.rebuilds = e.rebuilds
    BY <2>1 DEF GamesOf, Keeps
  <2> HIDE DEF s
  <2>5. g \in GamesOf("wasm") /\ Keeps(e, g) /\ g.link.pc = k /\ Succeeds(e, g)
    BY <2>1, <2>4 DEF GamesOf, Keeps, Succeeds
  <2>6. h \in GamesOf("wasm") /\ Keeps(s, h) /\ h.link = s.link
    BY <2>4, NativeFailure
  <2>7. p = Low => Retries(s, h)
    BY <2>4, NativeFailure
  <2> HIDE DEF g, h
  <2>8. Keeps(e, h) /\ h.link.pc = k /\ (p = Low => Retries(e, h))
    BY <2>1, <2>4, <2>6, <2>7 DEF Keeps, Retries
  <2> HIDE DEF f
  <2>9. f \in GamesOf("wasm") /\ Keeps(e, f) /\ f.link.pc = k
        /\ (p = Low => IF k = "connected" THEN Succeeds(e, f) ELSE Retries(e, f))
    BY <2>3, <2>5, <2>6, <2>8
  <2> QED
    BY <2>9 DEF f
<1> QED
  BY <1>3, <1>4

----------------------------------------------------------------------------
(* What a client that reads on comes to know *)

\* What a client sees of the other player is a seat.
LEMMA SeenType ==
  ASSUME NEW r \in Seats, NEW m \in News
  PROVE  Seen(r, m) \in Seats
<1>1. CASE m.type \in {"player-joined", "player-rejoined"}
  <2>1. m.type = "player-joined" => m.roster \in {Present, Away}
    BY DEF News, Signals
  <2> QED
    BY <1>1, <2>1 DEF Seen, Seats
<1>2. CASE m.type = "player-left"
  <2>1. m.explicit \in BOOLEAN
    BY <1>2 DEF News, Signals
  <2> QED
    BY <1>2, <2>1, Disconnects DEF Seen, Seats
<1>3. CASE m.type \notin {"player-joined", "player-rejoined", "player-left"}
  BY <1>3 DEF Seen
<1> QED
  BY <1>1, <1>2, <1>3

\* Nothing to read: the client has the server's view.
LEMMA CaughtUp ==
  ASSUME NEW e, e.roster \in Seats, e.started \in BOOLEAN
  PROVE  Caught(e, <<>>, e.roster, e.started)
<1> DEFINE v == [i \in 0 .. 0 |-> e.roster]
<1>1. v \in [0 .. Len(<<>>) -> Seats] /\ v[0] = e.roster /\ v[Len(<<>>)] = e.roster
  OBVIOUS
<1>2. \A i \in 1 .. Len(<<>>) : v[i] = Seen(v[i - 1], <<>>[i])
  OBVIOUS
<1>3. ~ \E i \in 1 .. Len(<<>>) : <<>>[i].type = "room-started"
  OBVIOUS
<1> HIDE DEF v
<1> QED
  BY <1>1, <1>2, <1>3 DEF Caught

\* And if it has nothing to read, it must have that view.
LEMMA CaughtAll ==
  ASSUME NEW e, NEW s, NEW st \in BOOLEAN, e.started \in BOOLEAN, Caught(e, <<>>, s, st)
  PROVE  e.roster = s /\ e.started = st
BY DEF Caught

\* The server tells it one thing more.
LEMMA CaughtMore ==
  ASSUME NEW e, NEW d \in Seq(News), NEW s, NEW st \in BOOLEAN, NEW m \in News, Caught(e, d, s, st)
  PROVE  Caught(e, Append(d, m), Seen(s, m), st \/ m.type = "room-started")
<1> PICK n \in Nat : n = Len(d)
  OBVIOUS
<1> PICK D : D = Append(d, m)
  OBVIOUS
<1>1. Len(D) = n + 1 /\ D[n + 1] = m /\ \A i \in 1 .. n : D[i] = d[i]
  OBVIOUS
<1>2. PICK v \in [0 .. n -> Seats] :
        v[0] = e.roster /\ v[n] = s /\ \A i \in 1 .. n : v[i] = Seen(v[i - 1], d[i])
  BY DEF Caught
<1>3. s \in Seats
  BY <1>2
<1>4. Seen(s, m) \in Seats
  BY <1>3, SeenType
<1> DEFINE w == [i \in 0 .. n + 1 |-> IF i = n + 1 THEN Seen(s, m) ELSE v[i]]
<1>5. w \in [0 .. n + 1 -> Seats]
  BY <1>4
<1>6. w[0] = e.roster /\ w[n + 1] = Seen(s, m) /\ \A i \in 0 .. n : w[i] = v[i]
  BY <1>2
<1> HIDE DEF w
<1>7. ASSUME NEW i \in 1 .. n + 1 PROVE w[i] = Seen(w[i - 1], D[i])
  <2>1. CASE i = n + 1
    <3>1. i - 1 = n /\ n \in 0 .. n
      BY <2>1
    <3> QED
      BY <1>1, <1>2, <1>6, <2>1, <3>1
  <2>2. CASE i \in 1 .. n
    <3>1. i - 1 \in 0 .. n /\ i \in 0 .. n
      BY <2>2
    <3> QED
      BY <1>1, <1>2, <1>6, <2>2, <3>1
  <2> QED
    BY <2>1, <2>2
<1>8. (st \/ m.type = "room-started")
        <=> (e.started \/ \E i \in 1 .. n + 1 : D[i].type = "room-started")
  <2>1. st <=> (e.started \/ \E i \in 1 .. n : d[i].type = "room-started")
    BY DEF Caught
  <2>2. (\E i \in 1 .. n + 1 : D[i].type = "room-started")
          <=> (m.type = "room-started" \/ \E i \in 1 .. n : d[i].type = "room-started")
    BY <1>1
  <2> QED
    BY <2>1, <2>2
<1>9. \E u \in [0 .. Len(D) -> Seats] :
        /\ u[0] = e.roster /\ u[Len(D)] = Seen(s, m)
        /\ \A i \in 1 .. Len(D) : u[i] = Seen(u[i - 1], D[i])
  BY <1>1, <1>5, <1>6, <1>7, SMTT(30)
<1>10. (st \/ m.type = "room-started")
        <=> (e.started \/ \E i \in 1 .. Len(D) : D[i].type = "room-started")
  BY <1>1, <1>8
<1>11. Caught(e, D, Seen(s, m), st \/ m.type = "room-started")
  BY <1>9, <1>10 DEF Caught
<1> QED
  BY <1>11

\* It reads the first thing it was told.
LEMMA CaughtNext ==
  ASSUME NEW e, NEW f, NEW d \in Seq(News), NEW s, NEW st, d # <<>>, Caught(e, d, s, st),
         f.roster = Seen(e.roster, Head(d)),
         f.started <=> (e.started \/ Head(d).type = "room-started")
  PROVE  Caught(f, Tail(d), s, st)
<1> PICK n \in Nat : n = Len(d) /\ n > 0
  OBVIOUS
<1> PICK t : t = Tail(d)
  OBVIOUS
<1>1. Len(t) = n - 1 /\ n - 1 \in Nat /\ Head(d) = d[1] /\ \A i \in 1 .. n - 1 : t[i] = d[i + 1]
  OBVIOUS
<1>2. PICK v \in [0 .. n -> Seats] :
        v[0] = e.roster /\ v[n] = s /\ \A i \in 1 .. n : v[i] = Seen(v[i - 1], d[i])
  BY DEF Caught
<1> DEFINE w == [i \in 0 .. n - 1 |-> v[i + 1]]
<1>3. w \in [0 .. n - 1 -> Seats]
  OBVIOUS
<1>4. w[0] = v[1] /\ w[n - 1] = v[n] /\ \A i \in 0 .. n - 1 : w[i] = v[i + 1]
  OBVIOUS
<1> HIDE DEF w
<1>5. v[1] = Seen(v[0], d[1])
  <2>1. 1 \in 1 .. n /\ 1 - 1 = 0
    OBVIOUS
  <2> QED
    BY <1>2, <2>1
<1>6. w[0] = f.roster /\ w[n - 1] = s
  BY <1>1, <1>2, <1>4, <1>5
<1>7. ASSUME NEW i \in 1 .. n - 1 PROVE w[i] = Seen(w[i - 1], t[i])
  <2>1. i \in 0 .. n - 1 /\ i - 1 \in 0 .. n - 1 /\ i + 1 \in 1 .. n /\ (i - 1) + 1 = i
        /\ (i + 1) - 1 = i
    OBVIOUS
  <2>2. w[i] = v[i + 1] /\ w[i - 1] = v[i] /\ t[i] = d[i + 1]
    BY <1>1, <1>4, <2>1
  <2>3. v[i + 1] = Seen(v[(i + 1) - 1], d[i + 1])
    BY <1>2, <2>1
  <2> QED
    BY <2>1, <2>2, <2>3
<1>8. st <=> (f.started \/ \E i \in 1 .. n - 1 : t[i].type = "room-started")
  <2>1. st <=> (e.started \/ \E i \in 1 .. n : d[i].type = "room-started")
    BY DEF Caught
  <2>2. (\E i \in 1 .. n : d[i].type = "room-started")
          <=> (d[1].type = "room-started" \/ \E i \in 1 .. n - 1 : d[i + 1].type = "room-started")
    <3>1. ASSUME NEW i \in 1 .. n, d[i].type = "room-started", i # 1
          PROVE  \E j \in 1 .. n - 1 : d[j + 1].type = "room-started"
      <4>1. i - 1 \in 1 .. n - 1 /\ (i - 1) + 1 = i
        BY <3>1
      <4> QED
        BY <3>1, <4>1
    <3>2. \A j \in 1 .. n - 1 : j + 1 \in 1 .. n
      OBVIOUS
    <3>3. 1 \in 1 .. n
      OBVIOUS
    <3> QED
      BY <3>1, <3>2, <3>3
  <2> QED
    BY <1>1, <2>1, <2>2
<1> QED
  BY <1>1, <1>3, <1>6, <1>7, <1>8 DEF Caught

\* It goes on without reading.
LEMMA CaughtKept ==
  ASSUME NEW e, NEW f, NEW d, NEW s, NEW st, Caught(e, d, s, st), Keeps(e, f)
  PROVE  Caught(f, d, s, st)
BY DEF Caught, Keeps

\* What is no news of the other player changes nothing of what it will know.
LEMMA Unseen ==
  ASSUME NEW r, NEW m \in Signals
  PROVE  Seen(r, m) = r /\ m.type # "room-started" /\ m.type \notin {"error", "ws-closed"}
         /\ m \in News
BY DEF Seen, Signals, News

----------------------------------------------------------------------------
(* How a client learns that its signaling ended *)

\* A client with signaling is told one thing more.
LEMMA WarnedMore ==
  ASSUME NEW e, NEW d \in Seq(News), NEW m \in News, m.type \notin {"error", "ws-closed"},
         e.open, Warned(e, d)
  PROVE  Warned(e, Append(d, m))
<1> PICK n \in Nat : n = Len(d)
  OBVIOUS
<1> PICK D : D = Append(d, m)
  OBVIOUS
<1>1. Len(D) = n + 1 /\ D[n + 1] = m /\ \A i \in 1 .. n : D[i] = d[i]
  OBVIOUS
<1>2. \A i \in 1 .. n + 1 : D[i].type \notin {"error", "ws-closed"}
  BY <1>1 DEF Warned
<1> QED
  BY <1>1, <1>2 DEF Warned

\* Its signaling ends, with or without a reason, and that is the last of it.
LEMMA WarnedEnd ==
  ASSUME NEW e, NEW f, NEW d \in Seq(News), NEW x \in News, x.type # "ws-closed",
         e.open, ~e.closed, Warned(e, d),
         ~f.open, ~f.closed, f.fatal = e.fatal, f.reports = e.reports
  PROVE  /\ Warned(f, <<[type |-> "ws-closed"]>>)
         /\ Warned(f, d \o <<x, [type |-> "ws-closed"]>>)
<1> PICK n \in Nat : n = Len(d)
  OBVIOUS
<1> DEFINE w == [type |-> "ws-closed"]
<1> PICK D : D = d \o <<x, w>>
  OBVIOUS
<1>1. w \in News /\ w.type = "ws-closed"
  BY DEF News
<1>2. Len(D) = n + 2 /\ D[n + 1] = x /\ D[n + 2] = w /\ \A i \in 1 .. n : D[i] = d[i]
  BY <1>1
<1> HIDE DEF w
<1>3. ~f.fatal /\ f.reports = 0 /\ \A i \in 1 .. n : d[i].type \notin {"error", "ws-closed"}
  BY DEF Warned
<1>4. ASSUME NEW i \in 1 .. n + 2
      PROVE  (i < n + 2 => D[i].type # "ws-closed") /\ (i + 1 < n + 2 => D[i].type # "error")
  <2>1. i \in 1 .. n \/ i = n + 1 \/ i = n + 2
    OBVIOUS
  <2> QED
    BY <1>2, <1>3, <2>1
<1>5. Warned(f, D)
  <2>1. Len(D) > 0 /\ D[Len(D)].type = "ws-closed"
    BY <1>1, <1>2
  <2>2. \A i \in 1 .. Len(D) : /\ i < Len(D) => D[i].type # "ws-closed"
                               /\ i + 1 < Len(D) => D[i].type # "error"
    BY <1>2, <1>4
  <2> QED
    BY <1>3, <2>1, <2>2 DEF Warned
<1>6. Len(<<w>>) = 1 /\ <<w>>[1] = w
  OBVIOUS
<1>7. Warned(f, <<w>>)
  BY <1>1, <1>3, <1>6 DEF Warned
<1> QED
  BY <1>5, <1>7 DEF w

\* It reads on.
LEMMA WarnedNext ==
  ASSUME NEW e, NEW f, NEW d \in Seq(News), d # <<>>, ~e.closed, Warned(e, d),
         e.fatal \in BOOLEAN, f.fatal \in BOOLEAN, Hears(e, Head(d), f)
  PROVE  Warned(f, Tail(d))
<1> PICK n \in Nat : n = Len(d) /\ n > 0
  OBVIOUS
<1> PICK t : t = Tail(d)
  OBVIOUS
<1> PICK m : m = Head(d)
  OBVIOUS
<1>1. Len(t) = n - 1 /\ n - 1 \in Nat /\ m = d[1] /\ (\A i \in 1 .. n - 1 : t[i] = d[i + 1])
      /\ (n = 1 => t = <<>>)
  OBVIOUS
<1>2. /\ f.closed = e.closed /\ f.open = e.open
      /\ f.fatal <=> (e.fatal \/ m.type \in {"error", "ws-closed"})
      /\ f.reports = IF m.type = "error" \/ (m.type = "ws-closed" /\ ~e.fatal)
                       THEN e.reports + 1 ELSE e.reports
  BY DEF Hears
<1>3. e.reports = IF e.fatal THEN 1 ELSE 0
  BY DEF Warned
<1>4. \A i \in 1 .. n - 1 : i + 1 \in 1 .. n
  OBVIOUS
<1>5. 1 \in 1 .. n
  OBVIOUS
<1>6. CASE e.open
  <2>1. ~e.fatal /\ \A i \in 1 .. n : d[i].type \notin {"error", "ws-closed"}
    BY <1>6 DEF Warned
  <2>2. \A i \in 1 .. n - 1 : t[i].type \notin {"error", "ws-closed"}
    BY <1>1, <1>4, <2>1
  <2>3. m.type \notin {"error", "ws-closed"}
    BY <1>1, <1>5, <2>1
  <2> QED
    BY <1>1, <1>2, <1>3, <1>6, <2>1, <2>2, <2>3 DEF Warned
<1>7. CASE ~e.open /\ e.fatal
  <2>1. n = 1 /\ d[1].type = "ws-closed"
    BY <1>7 DEF Warned
  <2> QED
    BY <1>1, <1>2, <1>3, <1>7, <2>1 DEF Warned
<1>8. CASE ~e.open /\ ~e.fatal
  <2>1. /\ d[n].type = "ws-closed"
        /\ \A i \in 1 .. n : /\ i < n => d[i].type # "ws-closed"
                             /\ i + 1 < n => d[i].type # "error"
    BY <1>8 DEF Warned
  <2>2. CASE n = 1
    BY <1>1, <1>2, <1>3, <1>8, <2>1, <2>2 DEF Warned
  <2>3. CASE n > 1 /\ m.type = "error"
    <3>1. n = 2
      BY <1>1, <1>5, <2>1, <2>3
    <3>2. Len(t) = 1 /\ t[1] = d[2]
      BY <1>1, <3>1, SMTT(30)
    <3> QED
      BY <1>2, <1>3, <1>8, <2>1, <2>3, <3>1, <3>2 DEF Warned
  <2>4. CASE n > 1 /\ m.type # "error"
    <3>1. m.type # "ws-closed"
      <4>1. 1 < n => d[1].type # "ws-closed"
        BY <1>5, <2>1
      <4> QED
        BY <1>1, <2>4, <4>1
    <3>2. n - 1 \in 1 .. n - 1 /\ (n - 1) + 1 = n
      BY <2>4
    <3>3. t[n - 1] = d[n]
      BY <1>1, <3>2
    <3>4. ASSUME NEW i \in 1 .. n - 1
          PROVE  (i < n - 1 => t[i].type # "ws-closed") /\ (i + 1 < n - 1 => t[i].type # "error")
      <4>1. t[i] = d[i + 1] /\ i + 1 \in 1 .. n
        BY <1>1, <1>4
      <4>2. (i < n - 1 => i + 1 < n) /\ (i + 1 < n - 1 => (i + 1) + 1 < n)
        OBVIOUS
      <4>3. (i + 1 < n => d[i + 1].type # "ws-closed") /\ ((i + 1) + 1 < n => d[i + 1].type # "error")
        BY <2>1, <4>1
      <4> QED
        BY <4>1, <4>2, <4>3
    <3>5. ~f.fatal /\ f.reports = 0 /\ ~f.open /\ ~f.closed
      BY <1>2, <1>3, <1>8, <2>4, <3>1
    <3> QED
      BY <1>1, <2>1, <2>4, <3>3, <3>4, <3>5 DEF Warned
  <2> QED
    BY <2>2, <2>3, <2>4
<1> QED
  BY <1>6, <1>7, <1>8

\* It goes on without reading.
LEMMA WarnedKept ==
  ASSUME NEW e, NEW f, NEW d, Warned(e, d), Keeps(e, f)
  PROVE  Warned(f, d)
BY DEF Warned, Keeps

----------------------------------------------------------------------------
(* How a step of the end that offers counts *)

\* The numbers of a client.
LEMMA Numbered ==
  ASSUME NEW b, NEW e \in GamesOf(b)
  PROVE  /\ e.link.id \in Nat /\ e.epoch \in Nat /\ e.tries \in Nat /\ e.rebuilds \in Nat
         /\ e.timers \in SUBSET Nat /\ e.work \in Seq(Items(b)) /\ Len(e.work) \in Nat
         /\ \A i \in 1 .. Len(e.work) : e.work[i] \in Items(b)
<1>1. e.work \in Seq(Items(b))
  BY DEF GamesOf
<1> QED
  BY <1>1 DEF GamesOf, SoundLinks, Links

\* The callbacks that wait, as far as they are of links made so far.
WorkDated(e) ==
  /\ \A i \in 1 .. Len(e.work) : e.work[i].epoch <= e.epoch
  /\ \A i \in 1 .. Len(e.work) :
       Pending(e, i) =>
         /\ e.link.pc = "failed" /\ e.link.id \notin e.timers
         /\ \A j \in 1 .. Len(e.work) : Pending(e, j) => i = j

LinkDated(e) ==
  /\ e.link.id <= e.epoch /\ \A n \in e.timers : 0 < n /\ n <= e.epoch
  /\ e.link.id \in e.timers => e.link.pc = "failed"

\* Dated is about the link and about the callbacks on their way.
LEMMA DatedParts ==
  ASSUME NEW b, NEW e
  PROVE  Dated(b, e) <=> LinkDated(e) /\ (b = "native" => WorkDated(e))
BY DEF Dated, LinkDated, WorkDated

\* A message from the server leaves the link alone, drops it or starts over.
LEMMA RelinkCounts ==
  ASSUME NEW b, NEW e \in GamesOf(b), NEW f \in GamesOf(b), Dated(b, e), Counted(e),
         Relinks(e, f), b = "native" => f.work = e.work
  PROVE  Dated(b, f) /\ Counted(f)
<1>1. LinkDated(e) /\ (b = "native" => WorkDated(e))
  BY DatedParts
<1>2. LinkDated(f) /\ Counted(f)
  <2>1. CASE SameLink(e, f)
    BY <1>1, <2>1 DEF SameLink, LinkDated, Counted
  <2>2. CASE Drops(e, f)
    BY <1>1, <2>2, Numbered DEF Drops, LinkDated, Counted
  <2>3. CASE Resets(e, f)
    <3>1. f.link.id \notin f.timers /\ f.link.id <= f.epoch /\ e.epoch <= f.epoch
      BY <1>1, <2>3, Numbered DEF Resets, Renews, LinkDated
    <3>2. \A n \in f.timers : 0 < n /\ n <= f.epoch
      BY <1>1, <2>3, <3>1, Numbered DEF Resets, LinkDated
    <3>3. f.tries \in {0, 1} /\ f.rebuilds = 0
      BY <2>3 DEF Resets, Renews
    <3> QED
      BY <3>1, <3>2, <3>3, BoundsAreNat DEF LinkDated, Counted
  <2> QED
    BY <2>1, <2>2, <2>3 DEF Relinks
<1>3. ASSUME b = "native" PROVE WorkDated(f)
  <2>1. WorkDated(e) /\ f.work = e.work
    BY <1>1, <1>3
  <2>2. CASE SameLink(e, f)
    <3>1. \A i : Pending(f, i) <=> Pending(e, i)
      BY <2>1, <2>2 DEF Pending, SameLink
    <3> QED
      BY <2>1, <2>2, <3>1 DEF WorkDated, SameLink
  <2>3. CASE Drops(e, f) \/ Resets(e, f)
    <3>1. f.epoch >= e.epoch /\ (f.link.id = 0 \/ f.link.id > e.epoch)
      BY <2>3, Numbered DEF Drops, Resets, Renews
    <3>2. ASSUME NEW i \in 1 .. Len(f.work)
          PROVE  f.work[i].epoch <= f.epoch /\ f.work[i].epoch # f.link.id
      <4>1. f.work[i].epoch \in Numbers
        BY <1>3, Numbered DEF Items
      <4>2. f.work[i].epoch <= e.epoch
        BY <2>1, <3>2 DEF WorkDated
      <4> QED
        BY <3>1, <4>1, <4>2, Numbered DEF Numbers
    <3>3. \A i \in 1 .. Len(f.work) : ~Pending(f, i)
      BY <3>2 DEF Pending
    <3> QED
      BY <3>2, <3>3 DEF WorkDated
  <2> QED
    BY <2>2, <2>3 DEF Relinks
<1> QED
  BY <1>2, <1>3, DatedParts

\* The actor takes the next of its callbacks.
LEMMA WorkCounts ==
  ASSUME NEW e \in GamesOf("native"), NEW f \in GamesOf("native"),
         Dated("native", e), Counted(e), e.work # <<>>, f.work = Tail(e.work),
         f.link.id = e.link.id, f.link.pc = e.link.pc,
         \/ SameLink(e, f) /\ ~Pending(e, 1)
         \/ Succeeds(e, f) /\ ~Pending(e, 1)
         \/ Retries(e, f) /\ Pending(e, 1)
  PROVE  Dated("native", f) /\ Counted(f)
<1>1. LinkDated(e) /\ WorkDated(e)
  BY DatedParts
<1> PICK n \in Nat : n = Len(e.work) /\ n > 0
  BY Numbered
<1>2. Len(f.work) = n - 1 /\ \A i \in 1 .. n - 1 : f.work[i] = e.work[i + 1] /\ i + 1 \in 1 .. n
  BY Numbered
<1>3. f.epoch = e.epoch
  BY DEF SameLink, Succeeds, Retries
<1>4. \A i \in 1 .. n - 1 : Pending(f, i) <=> Pending(e, i + 1)
  BY <1>2 DEF Pending
<1>5. Pending(e, 1) => \A i \in 1 .. n - 1 : ~Pending(f, i)
  <2> SUFFICES ASSUME Pending(e, 1), NEW i \in 1 .. n - 1, Pending(f, i) PROVE FALSE
    OBVIOUS
  <2>1. Pending(e, i + 1) /\ i + 1 \in 1 .. n /\ 1 \in 1 .. n /\ i + 1 # 1
    BY <1>2, <1>4
  <2> QED
    BY <1>1, <2>1 DEF WorkDated
<1>6. Pending(e, 1) => e.link.pc = "failed" /\ e.link.id \notin e.timers
  <2>1. 1 \in 1 .. n
    OBVIOUS
  <2> QED
    BY <1>1, <2>1 DEF WorkDated
<1>7. Pending(e, 1) => e.link.id \in Numbers
  <2>1. 1 \in 1 .. n
    OBVIOUS
  <2> QED
    BY <2>1, Numbered DEF Pending, Items
<1>8. LinkDated(f) /\ Counted(f)
  <2>1. CASE SameLink(e, f)
    BY <1>1, <2>1 DEF SameLink, LinkDated, Counted
  <2>2. CASE Succeeds(e, f)
    BY <1>1, <2>2, Numbered, BoundsAreNat DEF Succeeds, LinkDated, Counted
  <2>3. CASE Retries(e, f) /\ Pending(e, 1)
    <3>1. LinkDated(f)
      <4>1. \A k \in f.timers : 0 < k /\ k <= f.epoch
        BY <1>1, <1>7, <2>3, Numbered DEF Retries, LinkDated, Numbers
      <4> QED
        BY <1>1, <1>6, <2>3, <4>1 DEF Retries, LinkDated
    <3>2. Counted(f)
      BY <1>6, <2>3, Numbered, BoundsAreNat DEF Retries, Counted
    <3> QED
      BY <3>1, <3>2
  <2> QED
    BY <2>1, <2>2, <2>3
<1>9. WorkDated(f)
  <2>1. \A i \in 1 .. n - 1 : f.work[i].epoch <= f.epoch
    BY <1>1, <1>2, <1>3 DEF WorkDated
  <2>2. ASSUME NEW i \in 1 .. n - 1, Pending(f, i)
        PROVE  /\ f.link.pc = "failed" /\ f.link.id \notin f.timers
               /\ \A j \in 1 .. n - 1 : Pending(f, j) => i = j
    <3>1. ~Pending(e, 1) /\ Pending(e, i + 1) /\ i + 1 \in 1 .. n
      BY <1>2, <1>4, <1>5, <2>2
    <3>2. e.link.pc = "failed" /\ e.link.id \notin e.timers
      BY <1>1, <3>1 DEF WorkDated
    <3>3. ASSUME NEW j \in 1 .. n - 1, Pending(f, j) PROVE i = j
      <4>1. Pending(e, j + 1) /\ j + 1 \in 1 .. n
        BY <1>2, <1>4, <3>3
      <4>2. i + 1 = j + 1
        BY <1>1, <3>1, <4>1 DEF WorkDated
      <4> QED
        BY <4>2
    <3> QED
      BY <3>1, <3>2, <3>3 DEF SameLink, Succeeds
  <2> QED
    BY <1>2, <2>1, <2>2 DEF WorkDated
<1> QED
  BY <1>8, <1>9, DatedParts

\* A timer runs out.
LEMMA TimerCounts ==
  ASSUME NEW b, NEW e \in GamesOf(b), NEW f \in GamesOf(b), Dated(b, e), Counted(e),
         NEW n \in e.timers, Rebuilt(e, n, f), b = "native" => f.work = e.work
  PROVE  Dated(b, f) /\ Counted(f)
<1>1. LinkDated(e) /\ (b = "native" => WorkDated(e))
  BY DatedParts
<1>2. \/ f.link.id = e.link.id /\ f.link.pc = e.link.pc /\ f.epoch = e.epoch /\ f.tries = e.tries
      \/ /\ n = e.link.id
         /\ f.link.id = e.epoch + 1 /\ f.epoch = e.epoch + 1 /\ f.link.pc = "new"
         /\ f.tries = e.tries + 1
  BY DEF Rebuilt
<1>3. f.timers = e.timers \ {n} /\ f.rebuilds = e.rebuilds
  BY DEF Rebuilt
<1>4. LinkDated(f) /\ Counted(f)
  <2>1. CASE f.link.id = e.link.id /\ f.link.pc = e.link.pc /\ f.epoch = e.epoch /\ f.tries = e.tries
    BY <1>1, <1>3, <2>1 DEF LinkDated, Counted
  <2>2. CASE /\ n = e.link.id
             /\ f.link.id = e.epoch + 1 /\ f.epoch = e.epoch + 1 /\ f.link.pc = "new"
             /\ f.tries = e.tries + 1
    <3>1. f.link.id \notin f.timers /\ \A k \in f.timers : 0 < k /\ k <= f.epoch
      BY <1>1, <1>3, <2>2, Numbered DEF LinkDated
    <3>2. e.tries <= e.rebuilds /\ e.rebuilds <= MaxRebuilds
      BY <2>2 DEF Counted
    <3> QED
      BY <1>3, <2>2, <3>1, <3>2, Numbered, BoundsAreNat, SMTT(30) DEF LinkDated, Counted
  <2> QED
    BY <1>2, <2>1, <2>2
<1>5. ASSUME b = "native" PROVE WorkDated(f)
  <2>1. WorkDated(e) /\ f.work = e.work
    BY <1>1, <1>5
  <2>2. CASE f.link.id = e.link.id /\ f.link.pc = e.link.pc /\ f.epoch = e.epoch
    <3>1. \A i : Pending(f, i) <=> Pending(e, i)
      BY <2>1, <2>2 DEF Pending
    <3> QED
      BY <1>3, <2>1, <2>2, <3>1 DEF WorkDated
  <2>3. CASE f.link.id = e.epoch + 1 /\ f.epoch = e.epoch + 1
    <3>1. ASSUME NEW i \in 1 .. Len(f.work)
          PROVE  f.work[i].epoch <= f.epoch /\ f.work[i].epoch # f.link.id
      <4>1. f.work[i].epoch \in Numbers
        BY <1>5, Numbered DEF Items
      <4>2. f.work[i].epoch <= e.epoch
        BY <2>1, <3>1 DEF WorkDated
      <4> QED
        BY <2>3, <4>1, <4>2, Numbered DEF Numbers
    <3>2. \A i \in 1 .. Len(f.work) : ~Pending(f, i)
      BY <3>1 DEF Pending
    <3> QED
      BY <3>1, <3>2 DEF WorkDated
  <2> QED
    BY <1>2, <2>2, <2>3
<1> QED
  BY <1>4, <1>5, DatedParts

\* A native callback notes the state of the link; a link fails once.
LEMMA CallbackCounts ==
  ASSUME NEW e \in GamesOf("native"), NEW f \in GamesOf("native"), Dated("native", e), Counted(e),
         NEW k \in {"ice", "connected", "failed"},
         k = "connected" => e.link.pc = "new", k = "failed" => e.link.pc # "failed",
         f.work = Append(e.work, [kind |-> k, epoch |-> e.link.id]),
         f.link.id = e.link.id, f.epoch = e.epoch, f.timers = e.timers,
         f.rebuilds = e.rebuilds, f.tries = e.tries,
         f.link.pc = IF k = "ice" THEN e.link.pc ELSE k
  PROVE  Dated("native", f) /\ Counted(f)
<1>1. LinkDated(e) /\ WorkDated(e)
  BY DatedParts
<1> PICK n \in Nat : n = Len(e.work)
  BY Numbered
<1>2. /\ Len(f.work) = n + 1 /\ f.work[n + 1] = [kind |-> k, epoch |-> e.link.id]
      /\ \A i \in 1 .. n : f.work[i] = e.work[i] /\ i \in 1 .. n + 1
  BY Numbered
<1>3. \A i \in 1 .. n : Pending(f, i) <=> Pending(e, i)
  BY <1>2 DEF Pending
<1>4. Pending(f, n + 1) <=> k = "failed"
  BY <1>2 DEF Pending
<1>5. e.link.pc # "failed" => e.link.id \notin e.timers /\ \A i \in 1 .. n : ~Pending(e, i)
  BY <1>1 DEF LinkDated, WorkDated
<1>6. LinkDated(f) /\ Counted(f)
  BY <1>1, <1>5 DEF LinkDated, Counted
<1>7. \A i \in 1 .. n + 1 : f.work[i].epoch <= f.epoch
  <2>1. f.work[n + 1].epoch <= f.epoch
    BY <1>1, <1>2 DEF LinkDated
  <2>2. \A i \in 1 .. n : f.work[i].epoch <= f.epoch
    BY <1>1, <1>2 DEF WorkDated
  <2> QED
    BY <2>1, <2>2
<1>8. ASSUME NEW i \in 1 .. n + 1, Pending(f, i)
      PROVE  /\ f.link.pc = "failed" /\ f.link.id \notin f.timers
             /\ \A j \in 1 .. n + 1 : Pending(f, j) => i = j
  <2>1. CASE k = "failed"
    <3>1. \A j \in 1 .. n : ~Pending(f, j)
      BY <1>3, <1>5, <2>1
    <3>2. \A j \in 1 .. n + 1 : Pending(f, j) => j = n + 1
      BY <3>1
    <3> QED
      BY <1>5, <1>8, <2>1, <3>2
  <2>2. CASE k # "failed"
    <3>1. \A j \in 1 .. n + 1 : Pending(f, j) => j \in 1 .. n /\ Pending(e, j)
      BY <1>3, <1>4, <2>2
    <3>2. i \in 1 .. n /\ Pending(e, i)
      BY <1>8, <3>1
    <3>3. e.link.pc = "failed" /\ e.link.id \notin e.timers
          /\ \A j \in 1 .. n : Pending(e, j) => i = j
      BY <1>1, <3>2 DEF WorkDated
    <3> QED
      BY <2>2, <3>1, <3>3
  <2> QED
    BY <2>1, <2>2
<1>9. WorkDated(f)
  BY <1>2, <1>7, <1>8 DEF WorkDated
<1> QED
  BY <1>6, <1>9, DatedParts

\* A handler of a browser counts at once.
LEMMA StateCounts ==
  ASSUME NEW e \in GamesOf("wasm"), NEW f \in GamesOf("wasm"), Dated("wasm", e), Counted(e),
         e.link.id \in Numbers,
         \/ Succeeds(e, f) /\ e.link.pc = "new" /\ f.link.pc = "connected"
         \/ Retries(e, f) /\ e.link.pc # "failed" /\ f.link.pc = "failed"
  PROVE  Dated("wasm", f) /\ Counted(f)
<1>1. LinkDated(e) /\ e.link.id \notin e.timers
  BY DatedParts DEF LinkDated
<1>2. CASE Succeeds(e, f)
  BY <1>1, <1>2, DatedParts, Numbered, BoundsAreNat DEF Succeeds, LinkDated, Counted
<1>3. CASE Retries(e, f) /\ f.link.pc = "failed"
  <2>1. \A k \in f.timers : 0 < k /\ k <= f.epoch
    BY <1>1, <1>3, Numbered DEF Retries, LinkDated, Numbers
  <2>2. LinkDated(f)
    BY <1>1, <1>3, <2>1 DEF Retries, LinkDated
  <2>3. Counted(f)
    BY <1>1, <1>3, Numbered, BoundsAreNat DEF Retries, Counted
  <2> QED
    BY <2>2, <2>3, DatedParts
<1> QED
  BY <1>2, <1>3

----------------------------------------------------------------------------
(* The steps of a client *)

\* There are two players.
LEMMA Players ==
  ASSUME NEW p \in Ends
  PROVE  /\ Other(p) \in Ends /\ Other(p) # p /\ Other(Other(p)) = p /\ Low \in Ends
         /\ \A q \in Ends : q = p \/ q = Other(p)
BY DEF Ends, Low, High, Other

\* Only the client p moves: it becomes f.
Moves(p, f) ==
  /\ end' = [end EXCEPT ![p] = f] /\ f \in GamesOf(backend[p])
  /\ backend' = backend

\* The other client stays as it is.
LEMMA MoveEffect ==
  ASSUME Typed, NEW p \in Ends, NEW f, Moves(p, f)
  PROVE  /\ DOMAIN end' = Ends /\ end'[p] = f
         /\ \A q \in Ends : end'[q] \in GamesOf(backend'[q]) /\ (q # p => end'[q] = end[q])
BY DEF Typed, Moves

\* The server and the counters rest.
Aside == UNCHANGED <<seat, started, down, drops>> /\ failures' \in 0 .. MaxFailures

\* What the client knows is kept; the end that offers counts.
Minds(p, f) ==
  /\ Moves(p, f) /\ Aside /\ Keeps(end[p], f)
  /\ p = Low /\ Bounded => Dated(backend[p], f) /\ Counted(f)

\* A client reads one message.
LEMMA ReceiveStep ==
  ASSUME Typed, NEW p \in Ends, Receives(p)
  PROVE  /\ ~end[p].closed /\ down[p] # <<>> /\ down' = [down EXCEPT ![p] = Tail(@)]
         /\ UNCHANGED <<seat, started, drops, failures>>
         /\ \E f : /\ Moves(p, f) /\ Hears(end[p], Head(down[p]), f)
                   /\ p = Low /\ Bounded => Dated(backend[p], f) /\ Counted(f)
<1> PICK e : e = end[p]
  OBVIOUS
<1> PICK m : m = Head(down[p])
  OBVIOUS
<1> PICK b : b = backend[p]
  OBVIOUS
<1>1. e \in GamesOf(b) /\ down[p] \in Seq(News) /\ DOMAIN end = Ends
  BY DEF Typed
<1>2. CASE NativeReceives(p)
  <2>1. b = "native" /\ ~e.closed /\ down[p] # <<>>
    BY <1>2 DEF NativeReceives, Native
  <2> DEFINE f == HandleServerMessage(p, e, m)
  <2>2. m \in News
    BY <1>1, <2>1
  <2>3. f \in GamesOf(b) /\ Hears(e, m, f) /\ (p = Low => Relinks(e, f) /\ f.work = e.work)
    BY <1>1, <2>1, <2>2, NativeHears
  <2>4. end' = [end EXCEPT ![p] = f]
    BY <1>2 DEF NativeReceives
  <2> HIDE DEF f
  <2>5. p = Low /\ Bounded => Dated(b, f) /\ Counted(f)
    BY <1>1, <2>3, RelinkCounts DEF Bounded
  <2> QED
    BY <1>2, <2>1, <2>3, <2>4, <2>5 DEF NativeReceives, Moves
<1>3. CASE WasmReceives(p)
  <2>1. b = "wasm" /\ ~e.closed /\ down[p] # <<>>
    BY <1>3 DEF WasmReceives, Wasm
  <2> DEFINE f == WasmHandleServerMessage(p, e, m)
  <2>2. m \in News
    BY <1>1, <2>1
  <2>3. f \in GamesOf(b) /\ Hears(e, m, f) /\ (p = Low => Relinks(e, f))
    BY <1>1, <2>1, <2>2, WasmHears
  <2>4. end' = [end EXCEPT ![p] = f]
    BY <1>3 DEF WasmReceives
  <2> HIDE DEF f
  <2>5. p = Low /\ Bounded => Dated(b, f) /\ Counted(f)
    BY <1>1, <2>1, <2>3, RelinkCounts DEF Bounded
  <2> QED
    BY <1>3, <2>1, <2>3, <2>4, <2>5 DEF WasmReceives, Moves
<1> QED
  BY <1>2, <1>3 DEF Receives

\* A callback is handled, or a task goes on.
LEMMA WorkStep ==
  ASSUME Typed, NEW p \in Ends, Works(p)
  PROVE  \E f : Minds(p, f)
<1> DEFINE e == end[p]
           b == backend[p]
<1> HIDE DEF e, b
<1>1. e \in GamesOf(b) /\ DOMAIN end = Ends /\ failures \in 0 .. MaxFailures
  BY DEF Typed, e, b
<1>2. CASE NativeWorks(p)
  <2>1. b = "native" /\ e.work # <<>> /\ Aside
    BY <1>1, <1>2 DEF NativeWorks, Native, Aside, e, b
  <2> DEFINE f == HandleInternal(p, WorkTaken(e), Head(e.work))
  <2>2. /\ f \in GamesOf(b) /\ Keeps(e, f) /\ f.work = Tail(e.work)
        /\ f.link.id = e.link.id /\ f.link.pc = e.link.pc
        /\ p = Low => \/ SameLink(e, f) /\ ~Pending(e, 1)
                      \/ Succeeds(e, f) /\ ~Pending(e, 1)
                      \/ Retries(e, f) /\ Pending(e, 1)
    BY <1>1, <2>1, NativeInternal
  <2>3. end' = [end EXCEPT ![p] = f] /\ backend' = backend
    BY <1>2 DEF NativeWorks, e
  <2> HIDE DEF f
  <2>4. p = Low /\ Bounded => Dated(b, f) /\ Counted(f)
    BY <1>1, <2>1, <2>2, WorkCounts DEF Bounded, e, b
  <2> QED
    BY <2>1, <2>2, <2>3, <2>4 DEF Moves, Minds, e, b
<1>3. CASE WasmWorks(p)
  <2>1. b = "wasm" /\ Aside /\ backend' = backend
    BY <1>1, <1>3 DEF WasmWorks, Wasm, Aside, e, b
  <2>2. PICK i \in 1 .. Len(e.work) :
          end' = [end EXCEPT ![p] = Resume(TaskTaken(e, i), e.work[i])]
    BY <1>3 DEF WasmWorks, e
  <2> PICK w : w = SubSeq(e.work, 1, i - 1) \o SubSeq(e.work, i + 1, Len(e.work))
    OBVIOUS
  <2>3. e.work \in Seq(Items("wasm")) /\ e.work[i] \in Items("wasm")
    BY <1>1, <2>1, Numbered
  <2>4. w \in Seq(Items("wasm"))
    BY <2>3, SMTT(30)
  <2> DEFINE d == TaskTaken(e, i)
             f == Resume(d, e.work[i])
  <2>5. d \in GamesOf("wasm") /\ Keeps(e, d) /\ SameLink(e, d)
    BY <1>1, <2>1, <2>4 DEF TaskTaken, GamesOf, Keeps, SameLink
  <2>6. end' = [end EXCEPT ![p] = f]
    BY <2>2
  <2> HIDE DEF d
  <2>7. f \in GamesOf("wasm") /\ Keeps(d, f) /\ SameLink(d, f)
    BY <2>3, <2>5, WasmResumes
  <2> HIDE DEF f
  <2>8. Keeps(e, f) /\ SameLink(e, f)
    BY <2>5, <2>7 DEF Keeps, SameLink
  <2>9. p = Low /\ Bounded => Dated(b, f) /\ Counted(f)
    BY <1>1, <2>1, <2>7, <2>8, RelinkCounts DEF Bounded, Relinks, e, b
  <2> QED
    BY <2>1, <2>6, <2>7, <2>8, <2>9 DEF Moves, Minds, e, b
<1> QED
  BY <1>2, <1>3 DEF Works

\* A timer runs out.
LEMMA RebuildStep ==
  ASSUME Typed, NEW p \in Ends, Rebuilds(p)
  PROVE  \E f : Minds(p, f)
<1> DEFINE e == end[p]
           b == backend[p]
<1> HIDE DEF e, b
<1>1. e \in GamesOf(b) /\ DOMAIN end = Ends /\ failures \in 0 .. MaxFailures
  BY DEF Typed, e, b
<1>2. CASE NativeRebuilds(p)
  <2>1. Aside /\ backend' = backend
    BY <1>1, <1>2 DEF NativeRebuilds, Aside
  <2>2. PICK n \in e.timers : end' = [end EXCEPT ![p] = Rebuild(TimerTaken(e, n), n)]
    BY <1>2 DEF NativeRebuilds, e
  <2> DEFINE f == Rebuild(TimerTaken(e, n), n)
  <2>3. f \in GamesOf(b) /\ Keeps(e, f) /\ Rebuilt(e, n, f) /\ f.work = e.work
    BY <1>1, NativeTimer
  <2> HIDE DEF f
  <2>4. p = Low /\ Bounded => Dated(b, f) /\ Counted(f)
    BY <1>1, <2>3, TimerCounts DEF Bounded, e, b
  <2> QED
    BY <2>1, <2>2, <2>3, <2>4 DEF Moves, Minds, e, b, f
<1>3. CASE WasmRebuilds(p)
  <2>1. b = "wasm" /\ Aside /\ backend' = backend
    BY <1>1, <1>3 DEF WasmRebuilds, Aside, Wasm, e, b
  <2>2. PICK n \in e.timers : end' = [end EXCEPT ![p] = WasmRebuild(TimerTaken(e, n), n)]
    BY <1>3 DEF WasmRebuilds, e
  <2> DEFINE f == WasmRebuild(TimerTaken(e, n), n)
  <2>3. f \in GamesOf(b) /\ Keeps(e, f) /\ Rebuilt(e, n, f)
    BY <1>1, <2>1, WasmTimer
  <2> HIDE DEF f
  <2>4. p = Low /\ Bounded => Dated(b, f) /\ Counted(f)
    BY <1>1, <2>1, <2>3, TimerCounts DEF Bounded, e, b
  <2> QED
    BY <2>1, <2>2, <2>3, <2>4 DEF Moves, Minds, e, b, f
<1> QED
  BY <1>2, <1>3 DEF Rebuilds

\* A callback of WebRTC.
LEMMA GatherStep ==
  ASSUME Typed, NEW p \in Ends, Gathered(p)
  PROVE  \E f : Minds(p, f)
<1> PICK e : e = end[p]
  OBVIOUS
<1> PICK b : b = backend[p]
  OBVIOUS
<1>1. e \in GamesOf(b) /\ DOMAIN end = Ends /\ failures \in 0 .. MaxFailures
      /\ b \in {"native", "wasm"}
  BY DEF Typed
<1>2. Aside /\ backend' = backend /\ e.link.sdp # "new"
  BY <1>1 DEF Gathered, MayGather, Aside
<1>3. CASE b = "native"
  <2> DEFINE f == OnIceCandidate(e)
  <2>1. /\ f \in GamesOf("native") /\ Keeps(e, f)
        /\ f.work = Append(e.work, [kind |-> "ice", epoch |-> e.link.id])
        /\ f.link.id = e.link.id /\ f.epoch = e.epoch /\ f.timers = e.timers
        /\ f.rebuilds = e.rebuilds /\ f.tries = e.tries /\ f.link.pc = e.link.pc
    BY <1>1, <1>2, <1>3, NativeGathers
  <2>2. end' = [end EXCEPT ![p] = f]
    BY <1>3 DEF Gathered
  <2> HIDE DEF f
  <2>3. p = Low /\ Bounded => Dated(b, f) /\ Counted(f)
    BY <1>1, <1>3, <2>1, CallbackCounts DEF Bounded
  <2> QED
    BY <1>2, <1>3, <2>1, <2>2, <2>3 DEF Moves, Minds
<1>4. CASE b = "wasm"
  <2> DEFINE f == WasmOnIceCandidate(e)
  <2>1. f \in GamesOf("wasm") /\ Keeps(e, f) /\ SameLink(e, f)
    BY <1>1, <1>2, <1>4, WasmCallbacks
  <2>2. end' = [end EXCEPT ![p] = f]
    BY <1>4 DEF Gathered
  <2> HIDE DEF f
  <2>3. p = Low /\ Bounded => Dated(b, f) /\ Counted(f)
    BY <1>1, <1>4, <2>1, RelinkCounts DEF Bounded, Relinks
  <2> QED
    BY <1>2, <1>4, <2>1, <2>2, <2>3 DEF Moves, Minds
<1> QED
  BY <1>1, <1>3, <1>4

\* The connection comes up, or fails.
LEMMA StateStep ==
  ASSUME Typed, NEW p \in Ends, Connects(p) \/ Fails(p) \/ Breaks(p)
  PROVE  \E f : Minds(p, f)
<1> PICK e : e = end[p]
  OBVIOUS
<1> PICK b : b = backend[p]
  OBVIOUS
<1>1. e \in GamesOf(b) /\ DOMAIN end = Ends /\ failures \in 0 .. MaxFailures
      /\ b \in {"native", "wasm"}
  BY DEF Typed
<1>2. PICK k \in {"connected", "failed"} :
        /\ StateChanges(p, k) /\ failures' \in 0 .. MaxFailures /\ e.link.sdp = "stable"
        /\ k = "connected" => e.link.pc = "new"
        /\ k = "failed" => e.link.pc # "failed"
  <2>1. CASE Connects(p)
    BY <1>1, <2>1 DEF Connects, MayConnect, Negotiated
  <2>2. CASE Fails(p)
    BY <1>1, <2>2 DEF Fails, MayFail, Negotiated
  <2>3. CASE Breaks(p)
    <3>1. failures + 1 \in 0 .. MaxFailures
      BY <1>1, <2>3, BoundsAreNat DEF Breaks
    <3> QED
      BY <1>1, <2>3, <3>1 DEF Breaks, Negotiated
  <2> QED
    BY <2>1, <2>2, <2>3
<1>3. Aside /\ backend' = backend
  BY <1>2 DEF StateChanges, Aside
<1>4. CASE b = "native"
  <2> DEFINE f == OnPeerConnectionState(e, k)
  <2>1. /\ f \in GamesOf("native") /\ Keeps(e, f)
        /\ f.work = Append(e.work, [kind |-> k, epoch |-> e.link.id])
        /\ f.link.id = e.link.id /\ f.epoch = e.epoch /\ f.timers = e.timers
        /\ f.rebuilds = e.rebuilds /\ f.tries = e.tries /\ f.link.pc = k
    BY <1>1, <1>2, <1>4, NativeNotes
  <2>2. end' = [end EXCEPT ![p] = f]
    BY <1>2, <1>4 DEF StateChanges
  <2> HIDE DEF f
  <2>3. p = Low /\ Bounded => Dated(b, f) /\ Counted(f)
    BY <1>1, <1>2, <1>4, <2>1, CallbackCounts DEF Bounded
  <2> QED
    BY <1>3, <1>4, <2>1, <2>2, <2>3 DEF Moves, Minds
<1>5. CASE b = "wasm"
  <2> DEFINE f == WasmOnConnectionState(p, e, k)
  <2>1. /\ f \in GamesOf("wasm") /\ Keeps(e, f) /\ f.link.pc = k
        /\ p = Low => IF k = "connected" THEN Succeeds(e, f) ELSE Retries(e, f)
    BY <1>1, <1>2, <1>5, WasmCallbacks
  <2>2. end' = [end EXCEPT ![p] = f]
    BY <1>2, <1>5 DEF StateChanges
  <2> HIDE DEF f
  <2>3. e.link.id \in Numbers
    BY <1>1, <1>2 DEF GamesOf, SoundLinks, Links, Numbers
  <2>4. p = Low /\ Bounded => Dated(b, f) /\ Counted(f)
    BY <1>1, <1>2, <1>5, <2>1, <2>3, StateCounts DEF Bounded
  <2> QED
    BY <1>3, <1>5, <2>1, <2>2, <2>4 DEF Moves, Minds
<1> QED
  BY <1>1, <1>4, <1>5

\* The application closes its game.
LEMMA CloseStep ==
  ASSUME Typed, NEW p \in Ends, Closes(p)
  PROVE  /\ ~end[p].closed /\ down' = [down EXCEPT ![p] = <<>>] /\ drops' \in 0 .. MaxDrops
         /\ UNCHANGED <<seat, started, failures>>
         /\ \E f : /\ Moves(p, f)
                   /\ f.closed /\ ~f.open /\ f.fatal = end[p].fatal /\ f.reports = end[p].reports
                   /\ f.link.id = 0 /\ f.epoch = end[p].epoch /\ f.timers = {} /\ f.work = <<>>
                   /\ f.tries = end[p].tries /\ f.rebuilds = end[p].rebuilds
                   /\ f.refused = end[p].refused
<1> PICK e : e = end[p]
  OBVIOUS
<1>1. e \in GamesOf(backend[p]) /\ drops \in 0 .. MaxDrops
  BY DEF Typed
<1>2. /\ ~e.closed /\ drops < MaxDrops /\ end' = [end EXCEPT ![p] = Shutdown(e)]
      /\ down' = [down EXCEPT ![p] = <<>>] /\ drops' = drops + 1
      /\ UNCHANGED <<backend, seat, started, failures>>
  <2>1. CASE NativeCloses(p)
    BY <2>1 DEF NativeCloses, Native
  <2>2. CASE WasmCloses(p)
    BY <2>2, Alike DEF WasmCloses, Wasm
  <2> QED
    BY <2>1, <2>2 DEF Closes
<1>3. drops' \in 0 .. MaxDrops
  BY <1>1, <1>2, BoundsAreNat
<1> DEFINE f == Shutdown(e)
<1>4. /\ f \in GamesOf(backend[p])
      /\ f.closed /\ ~f.open /\ f.fatal = e.fatal /\ f.reports = e.reports
      /\ f.link.id = 0 /\ f.epoch = e.epoch /\ f.timers = {} /\ f.work = <<>>
      /\ f.tries = e.tries /\ f.rebuilds = e.rebuilds /\ f.refused = e.refused
  BY <1>1, ShutsDown
<1> HIDE DEF f
<1>5. end' = [end EXCEPT ![p] = f]
  BY <1>2 DEF f
<1> QED
  BY <1>2, <1>3, <1>4, <1>5 DEF Moves

----------------------------------------------------------------------------
(* What the server's steps tell the clients *)

\* What the server sends of its own.
LEMMA ServerNews ==
  /\ [type |-> "room-started"] \in News /\ [type |-> "ws-closed"] \in News
  /\ \A s \in {Present, Away} : [type |-> "player-joined", roster |-> s] \in News
  /\ [type |-> "player-rejoined"] \in News
  /\ \A x \in BOOLEAN : [type |-> "player-left", explicit |-> x] \in News
  /\ \A c \in {"slow-consumer", "room-expired"} : [type |-> "error", code |-> c] \in News
BY DEF News

\* What is told of a seat is how it is, as long as its joined message is not refused.
LEMMA ViewsOf ==
  ASSUME NEW f, NEW s
  PROVE  s \in Views(f, s) /\ (~(f.refused /\ s = Away) => Views(f, s) = {s})
BY DEF Views

\* What a client and the other one are told.
LEMMA TheTold ==
  ASSUME Told, NEW p \in Ends
  PROVE  /\ \E o \in Views(end[Other(p)], seat[Other(p)]) :
                ToldOf(end[p], down[p], seat[p], o, started)
         /\ \E v \in Views(end[p], seat[p]) :
                ToldOf(end[Other(p)], down[Other(p)], seat[Other(p)], v, started)
<1>1. Other(p) \in Ends /\ Other(Other(p)) = p
  BY Players
<1> QED
  BY <1>1 DEF Told

\* Only a client with signaling is told.
LEMMA TellEffect ==
  ASSUME Typed, Told, NEW d \in [Ends -> Seq(News)], NEW p \in Ends, NEW m \in News
  PROVE  /\ Tell(d, p, m) \in [Ends -> Seq(News)]
         /\ Tell(d, p, m)[p] = IF end[p].open THEN Append(d[p], m) ELSE d[p]
         /\ Tell(d, p, m)[Other(p)] = d[Other(p)]
<1>1. end[p].open <=> seat[p].connected /\ ~end[p].closed
  BY TheTold DEF ToldOf
<1>2. Append(d[p], m) \in Seq(News) /\ Other(p) \in Ends /\ Other(p) # p
  BY Players
<1> QED
  BY <1>1, <1>2 DEF Tell

\* It has what it was told to read, unless it is over for it.
LEMMA ToldMore ==
  ASSUME NEW b, NEW e \in GamesOf(b), NEW d \in Seq(News), NEW s, NEW o, NEW st \in BOOLEAN,
         NEW m \in News, m.type \notin {"error", "ws-closed"}, ToldOf(e, d, s, o, st)
  PROVE  ToldOf(e, IF e.open THEN Append(d, m) ELSE d, s, Seen(o, m), st \/ m.type = "room-started")
<1>1. CASE e.open
  <2>1. Warned(e, Append(d, m))
    BY <1>1, WarnedMore DEF ToldOf
  <2>2. Caught(e, Append(d, m), Seen(o, m), st \/ m.type = "room-started")
    BY <1>1, CaughtMore DEF ToldOf
  <2> QED
    BY <1>1, <2>1, <2>2 DEF ToldOf
<1>2. CASE ~e.open
  BY <1>2 DEF ToldOf
<1> QED
  BY <1>1, <1>2 DEF GamesOf

\* A client without signaling has no view to keep.
LEMMA ToldNothing ==
  ASSUME NEW e, NEW d, NEW s, NEW o, NEW st, ToldOf(e, d, s, o, st), ~e.open,
         NEW t, NEW q, NEW tt, ~(t.connected /\ ~e.closed)
  PROVE  ToldOf(e, d, t, q, tt)
BY DEF ToldOf

\* It goes on without reading.
LEMMA ToldKept ==
  ASSUME NEW e, NEW f, NEW d, NEW s, NEW o, NEW st, ToldOf(e, d, s, o, st), Keeps(e, f)
  PROVE  ToldOf(f, d, s, o, st)
<1>1. Warned(f, d)
  BY WarnedKept DEF ToldOf
<1>2. f.open => Caught(f, d, o, st)
  BY CaughtKept DEF ToldOf, Keeps
<1> QED
  BY <1>1, <1>2 DEF ToldOf, Keeps

\* It reads on.
LEMMA ToldNext ==
  ASSUME NEW b, NEW e \in GamesOf(b), NEW f \in GamesOf(b), NEW d \in Seq(News), d # <<>>,
         NEW s, NEW o, NEW st, ToldOf(e, d, s, o, st), ~e.closed, Hears(e, Head(d), f)
  PROVE  ToldOf(f, Tail(d), s, o, st)
<1>1. e.fatal \in BOOLEAN /\ f.fatal \in BOOLEAN
  BY DEF GamesOf
<1>2. Warned(f, Tail(d))
  BY <1>1, WarnedNext DEF ToldOf
<1>3. f.roster = Seen(e.roster, Head(d)) /\ (f.started <=> (e.started \/ Head(d).type = "room-started"))
      /\ f.open = e.open /\ f.closed = e.closed /\ f.refused = e.refused
      /\ (Leaves(f.up) => Leaves(e.up))
  BY DEF Hears
<1>4. f.open => Caught(f, Tail(d), o, st)
  BY <1>3, CaughtNext DEF ToldOf
<1> QED
  BY <1>2, <1>3, <1>4 DEF ToldOf

\* A game that begins, or is not there.
LEMMA GameMade ==
  ASSUME NEW b, NEW n \in Nat, NEW o \in Seats, NEW r \in BOOLEAN
  PROVE  LET e == Game(n, o, r)
         IN /\ e \in GamesOf(b) /\ ~e.closed /\ ~e.fatal /\ e.open /\ e.roster = o /\ e.started = r
            /\ e.link.id = 0 /\ e.epoch = n /\ e.rebuilds = 0 /\ e.timers = {} /\ e.work = <<>>
            /\ e.up = <<>> /\ e.tries = 0 /\ e.reports = 0 /\ ~e.refused
<1>1. NoLink \in SoundLinks /\ NoLink.id = 0
  BY LinkMade DEF NoLink, LinkNumbered
<1>2. <<>> \in Seq(Items(b)) /\ <<>> \in Seq(Requests)
  OBVIOUS
<1> QED
  BY <1>1, <1>2 DEF Game, GamesOf

\* No game has nothing to report, to send or to retry.
LEMMA GoneMade ==
  ASSUME NEW b, NEW e, e.epoch \in Nat
  PROVE  LET f == Gone(e)
         IN /\ f \in GamesOf(b) /\ f.closed /\ ~f.fatal /\ ~f.open
            /\ f.link.id = 0 /\ f.epoch = e.epoch /\ f.rebuilds = 0 /\ f.timers = {} /\ f.work = <<>>
            /\ f.up = <<>> /\ f.tries = 0 /\ f.reports = 0 /\ ~f.refused
<1> PICK g : g = Game(e.epoch, Nobody, FALSE)
  OBVIOUS
<1>1. Nobody \in Seats
  BY DEF Seats
<1>2. /\ g \in GamesOf(b) /\ ~g.fatal
      /\ g.link.id = 0 /\ g.epoch = e.epoch /\ g.rebuilds = 0 /\ g.timers = {} /\ g.work = <<>>
      /\ g.up = <<>> /\ g.tries = 0 /\ g.reports = 0 /\ ~g.refused
  BY <1>1, GameMade, ZenonT(30)
<1>3. Gone(e) = [g EXCEPT !.closed = TRUE, !.open = FALSE]
  BY DEF Gone
<1> QED
  BY <1>2, <1>3 DEF GamesOf

\* Who has nothing under way has not sent that it leaves.
LEMMA NothingSent == ~Leaves(<<>>)
BY DEF Leaves

\* Without a link, timers and callbacks there is nothing to count.
LEMMA BlankCounts ==
  ASSUME NEW b, NEW f \in GamesOf(b), f.link.id = 0, f.timers = {}, f.work = <<>>,
         f.tries <= f.rebuilds + 1, f.tries <= MaxRebuilds + 1
  PROVE  Dated(b, f) /\ Counted(f)
<1>1. LinkDated(f)
  BY Numbered DEF LinkDated
<1>2. WorkDated(f)
  BY DEF WorkDated
<1> QED
  BY <1>1, <1>2, DatedParts DEF Counted

\* A game that has joined: it has the server's view, and offers at most once.
LEMMA JoinedMade ==
  ASSUME Typed, NEW p \in Ends, NEW n \in Nat, NEW o \in Seats, NEW r \in BOOLEAN,
         NEW g, g = Game(n, o, r), NEW f, f = Joined(p, g)
  PROVE  /\ f \in GamesOf(backend[p]) /\ Keeps(g, f)
         /\ p = Low => Dated(backend[p], f) /\ Counted(f)
<1> PICK b : b = backend[p]
  OBVIOUS
<1>1. b \in {"native", "wasm"}
  BY DEF Typed
<1>2. /\ g \in GamesOf(b) /\ g.link.id = 0 /\ g.timers = {} /\ g.work = <<>>
      /\ g.tries = 0 /\ g.rebuilds = 0
  BY GameMade
<1>3. Dated(b, g) /\ Counted(g)
  BY <1>2, BlankCounts, BoundsAreNat
<1>4. Keeps(g, g) /\ SameLink(g, g)
  BY DEF Keeps, SameLink
<1>5. CASE b = "native"
  <2>1. f = IF p < Other(p) /\ g.roster = Present THEN InitiatePeer(g) ELSE g
    BY <1>5 DEF Joined, Run
  <2>2. /\ InitiatePeer(g) \in GamesOf(b) /\ Keeps(g, InitiatePeer(g))
        /\ InitiatePeer(g).work = g.work /\ InitiatePeer(g).rebuilds = g.rebuilds
    BY <1>2, Initiates
  <2>3. InitiatePeer(g) = g \/ Renews(g, InitiatePeer(g), g.tries)
    BY <1>2, Initiates
  <2>4. f \in GamesOf(b) /\ Keeps(g, f) /\ f.work = g.work
        /\ (f = g \/ (Renews(g, f, 0) /\ f.rebuilds = 0))
    BY <1>2, <1>4, <2>1, <2>2, <2>3
  <2>5. Relinks(g, f)
    BY <1>4, <2>4 DEF Relinks, Resets, Renews
  <2> QED
    BY <1>2, <1>3, <2>4, <2>5, RelinkCounts
<1>6. CASE b = "wasm"
  <2>1. f = IF p < Other(p) /\ g.roster = Present THEN WasmInitiatePeer(g) ELSE g
    BY <1>6 DEF Joined, WasmConnected
  <2>2. /\ WasmInitiatePeer(g) \in GamesOf(b) /\ Keeps(g, WasmInitiatePeer(g))
        /\ WasmInitiatePeer(g).rebuilds = g.rebuilds
    BY <1>2, <1>6, WasmInitiates
  <2>3. WasmInitiatePeer(g) = g \/ Renews(g, WasmInitiatePeer(g), g.tries)
    BY <1>2, <1>6, WasmInitiates
  <2>4. f \in GamesOf(b) /\ Keeps(g, f)
        /\ (f = g \/ (Renews(g, f, 0) /\ f.rebuilds = 0))
    BY <1>2, <1>4, <2>1, <2>2, <2>3
  <2>5. Relinks(g, f)
    BY <1>4, <2>4 DEF Relinks, Resets, Renews
  <2> QED
    BY <1>2, <1>3, <1>6, <2>4, <2>5, RelinkCounts
<1> QED
  BY <1>1, <1>5, <1>6

----------------------------------------------------------------------------
(* The invariant *)

\* The end that offers counts as before when it loses no more than its signaling.
LEMMA StillCounts ==
  ASSUME Typed, Bounded, NEW p \in Ends, NEW f \in GamesOf(backend[p]),
         SameLink(end[p], f), f.work = end[p].work
  PROVE  p = Low => Dated(backend[p], f) /\ Counted(f)
<1>1. end[p] \in GamesOf(backend[p])
  BY DEF Typed
<1>2. Relinks(end[p], f)
  BY DEF Relinks
<1> QED
  BY <1>1, <1>2, RelinkCounts DEF Bounded

\* What a step has to show when p becomes f, and the queues d.
LEMMA OneMoves ==
  ASSUME IInv, NEW p \in Ends, NEW f, Moves(p, f),
         seat' \in [Ends -> Seats], started' \in BOOLEAN, down' \in [Ends -> Seq(News)],
         drops' \in 0 .. MaxDrops, failures' \in 0 .. MaxFailures,
         NEW o \in Views(end[Other(p)], seat'[Other(p)]), NEW v \in Views(f, seat'[p]),
         ToldOf(f, down'[p], seat'[p], o, started'),
         ToldOf(end[Other(p)], down'[Other(p)], seat'[Other(p)], v, started'),
         p = Low => Dated(backend[p], f) /\ Counted(f)
  PROVE  IInv'
<1>1. DOMAIN end' = Ends /\ end'[p] = f /\ end'[Other(p)] = end[Other(p)] /\ backend' = backend
      /\ \A q \in Ends : end'[q] \in GamesOf(backend'[q])
  BY MoveEffect, Players DEF IInv, Moves
<1>2. Typed'
  <2>1. end' = [q \in Ends |-> end'[q]]
    BY DEF IInv, Typed, Moves
  <2> QED
    BY <1>1, <2>1 DEF IInv, Typed
<1>3. Told'
  <2> SUFFICES ASSUME NEW q \in Ends
               PROVE  \E w \in Views(end'[Other(q)], seat'[Other(q)]) :
                        ToldOf(end'[q], down'[q], seat'[q], w, started')
    BY DEF Told
  <2>1. CASE q = p
    BY <1>1, <2>1
  <2>2. CASE q = Other(p)
    <3>1. Other(q) = p
      BY <2>2, Players
    <3> QED
      BY <1>1, <2>2, <3>1
  <2> QED
    BY <2>1, <2>2, Players
<1>4. Bounded'
  <2>1. CASE p = Low
    BY <1>1, <2>1 DEF Bounded
  <2>2. CASE p # Low
    <3>1. Other(p) = Low
      BY <2>2, Players
    <3> QED
      BY <1>1, <3>1 DEF Bounded, IInv
  <2> QED
    BY <2>1, <2>2
<1> QED
  BY <1>2, <1>3, <1>4 DEF IInv

\* The client moves without hearing from the server.
LEMMA MindsInv ==
  ASSUME IInv, NEW p \in Ends, NEW f, Minds(p, f)
  PROVE  IInv'
<1>1. Moves(p, f) /\ Keeps(end[p], f) /\ UNCHANGED <<seat, started, down, drops>>
      /\ failures' \in 0 .. MaxFailures
  BY DEF Minds, Aside
<1>2. Other(p) \in Ends /\ Other(Other(p)) = p
  BY Players
<1>o. PICK o \in Views(end[Other(p)], seat[Other(p)]) :
        ToldOf(end[p], down[p], seat[p], o, started)
  BY TheTold DEF IInv
<1>v. PICK v \in Views(end[p], seat[p]) :
        ToldOf(end[Other(p)], down[Other(p)], seat[Other(p)], v, started)
  BY TheTold DEF IInv
<1>3. v \in Views(f, seat[p])
  BY <1>1 DEF Views, Keeps
<1>4. ToldOf(f, down[p], seat[p], o, started)
  BY <1>1, <1>o, ToldKept
<1>5. p = Low => Dated(backend[p], f) /\ Counted(f)
  BY DEF Minds, IInv
<1>6. seat \in [Ends -> Seats] /\ started \in BOOLEAN /\ down \in [Ends -> Seq(News)]
      /\ drops \in 0 .. MaxDrops
  BY DEF IInv, Typed
<1> QED
  BY <1>1, <1>v, <1>3, <1>4, <1>5, <1>6, OneMoves

\* The client reads one message.
LEMMA ReceiveInv ==
  ASSUME IInv, NEW p \in Ends, Receives(p)
  PROVE  IInv'
<1>1. /\ ~end[p].closed /\ down[p] # <<>> /\ down' = [down EXCEPT ![p] = Tail(@)]
      /\ UNCHANGED <<seat, started, drops, failures>>
  BY ReceiveStep DEF IInv
<1>2. PICK f : /\ Moves(p, f) /\ Hears(end[p], Head(down[p]), f)
               /\ p = Low /\ Bounded => Dated(backend[p], f) /\ Counted(f)
  BY ReceiveStep DEF IInv
<1>3. Other(p) \in Ends /\ Other(Other(p)) = p /\ Other(p) # p
  BY Players
<1>o. PICK o \in Views(end[Other(p)], seat[Other(p)]) :
        ToldOf(end[p], down[p], seat[p], o, started)
  BY TheTold DEF IInv
<1>v. PICK v \in Views(end[p], seat[p]) :
        ToldOf(end[Other(p)], down[Other(p)], seat[Other(p)], v, started)
  BY TheTold DEF IInv
<1>4. v \in Views(f, seat[p])
  BY <1>2 DEF Views, Hears
<1>5. seat \in [Ends -> Seats] /\ started \in BOOLEAN /\ down \in [Ends -> Seq(News)]
      /\ drops \in 0 .. MaxDrops /\ failures \in 0 .. MaxFailures /\ end[p] \in GamesOf(backend[p])
  BY DEF IInv, Typed
<1>6. down[p] \in Seq(News) /\ Tail(down[p]) \in Seq(News) /\ f \in GamesOf(backend[p])
  BY <1>1, <1>2, <1>5 DEF Moves
<1>7. down'[p] = Tail(down[p]) /\ down'[Other(p)] = down[Other(p)] /\ down' \in [Ends -> Seq(News)]
  BY <1>1, <1>3, <1>5, <1>6
<1>8. ToldOf(f, Tail(down[p]), seat[p], o, started)
  BY <1>1, <1>2, <1>o, <1>5, <1>6, ToldNext
<1>9. p = Low => Dated(backend[p], f) /\ Counted(f)
  BY <1>2 DEF IInv
<1> QED
  BY <1>1, <1>2, <1>v, <1>4, <1>5, <1>7, <1>8, <1>9, OneMoves

\* The application closes its game, and nothing more is read.
LEMMA CloseInv ==
  ASSUME IInv, NEW p \in Ends, Closes(p)
  PROVE  IInv'
<1>1. /\ ~end[p].closed /\ down' = [down EXCEPT ![p] = <<>>] /\ drops' \in 0 .. MaxDrops
      /\ UNCHANGED <<seat, started, failures>>
  BY CloseStep DEF IInv
<1>2. PICK f : /\ Moves(p, f)
               /\ f.closed /\ ~f.open /\ f.fatal = end[p].fatal /\ f.reports = end[p].reports
               /\ f.link.id = 0 /\ f.epoch = end[p].epoch /\ f.timers = {} /\ f.work = <<>>
               /\ f.tries = end[p].tries /\ f.rebuilds = end[p].rebuilds
               /\ f.refused = end[p].refused
  BY CloseStep DEF IInv
<1>3. Other(p) \in Ends /\ Other(Other(p)) = p /\ Other(p) # p
  BY Players
<1>o. PICK o \in Views(end[Other(p)], seat[Other(p)]) :
        ToldOf(end[p], down[p], seat[p], o, started)
  BY TheTold DEF IInv
<1>v. PICK v \in Views(end[p], seat[p]) :
        ToldOf(end[Other(p)], down[Other(p)], seat[Other(p)], v, started)
  BY TheTold DEF IInv
<1>4. v \in Views(f, seat[p])
  BY <1>2 DEF Views
<1>5. seat \in [Ends -> Seats] /\ started \in BOOLEAN /\ down \in [Ends -> Seq(News)]
      /\ failures \in 0 .. MaxFailures
  BY DEF IInv, Typed
<1>6. <<>> \in Seq(News)
  OBVIOUS
<1>7. down'[p] = <<>> /\ down'[Other(p)] = down[Other(p)] /\ down' \in [Ends -> Seq(News)]
  BY <1>1, <1>3, <1>5, <1>6
<1>8. ToldOf(f, <<>>, seat[p], o, started)
  <2>1. f.reports = IF f.fatal THEN 1 ELSE 0
    BY <1>2, <1>o DEF ToldOf, Warned
  <2> QED
    BY <1>2, <2>1 DEF ToldOf, Warned
<1>9. p = Low => Dated(backend[p], f) /\ Counted(f)
  <2>1. p = Low => f.tries <= f.rebuilds + 1 /\ f.tries <= MaxRebuilds + 1
    BY <1>2 DEF IInv, Bounded, Counted
  <2>2. f \in GamesOf(backend[p])
    BY <1>2 DEF Moves
  <2> QED
    BY <1>2, <2>1, <2>2, BlankCounts
<1> QED
  BY <1>1, <1>2, <1>v, <1>4, <1>5, <1>7, <1>8, <1>9, OneMoves

\* It is told what does not start the room.
LEMMA ToldNews ==
  ASSUME NEW b, NEW e \in GamesOf(b), NEW d \in Seq(News), NEW s, NEW o, NEW st \in BOOLEAN,
         NEW m \in News, m.type \notin {"error", "ws-closed", "room-started"}, ToldOf(e, d, s, o, st)
  PROVE  ToldOf(e, IF e.open THEN Append(d, m) ELSE d, s, Seen(o, m), st)
<1>1. ToldOf(e, IF e.open THEN Append(d, m) ELSE d, s, Seen(o, m), st \/ m.type = "room-started")
  BY ToldMore
<1>2. (st \/ m.type = "room-started") = st
  OBVIOUS
<1> QED
  BY <1>1, <1>2

\* It is told that the room starts.
LEMMA ToldStart ==
  ASSUME NEW b, NEW e \in GamesOf(b), NEW d \in Seq(News), NEW s, NEW o, NEW st \in BOOLEAN,
         NEW m \in News, m.type = "room-started", ToldOf(e, d, s, o, st)
  PROVE  ToldOf(e, IF e.open THEN Append(d, m) ELSE d, s, o, TRUE)
<1>1. ToldOf(e, IF e.open THEN Append(d, m) ELSE d, s, Seen(o, m), st \/ m.type = "room-started")
  BY ToldMore
<1>2. (st \/ m.type = "room-started") = TRUE
  OBVIOUS
<1>3. Seen(o, m) = o
  BY DEF Seen
<1> QED
  BY <1>1, <1>2, <1>3

\* The client q is told m: it has that to read, if it has signaling.
LEMMA InformsOnly ==
  ASSUME IInv, NEW q \in Ends, NEW d \in [Ends -> Seq(News)], d[q] = down[q], NEW m \in News,
         m.type \notin {"error", "ws-closed", "room-started"}, NEW t, t = Tell(d, q, m),
         NEW r, ToldOf(end[q], down[q], seat[q], r, started), NEW o, o = Seen(r, m)
  PROVE  t \in [Ends -> Seq(News)] /\ t[Other(q)] = d[Other(q)] /\ ToldOf(end[q], t[q], seat[q], o, started)
<1>1. Typed /\ Told
  BY DEF IInv
<1>2. end[q] \in GamesOf(backend[q]) /\ started \in BOOLEAN
  BY <1>1 DEF Typed
<1>3. PICK e \in GamesOf(backend[q]) : e = end[q]
  BY <1>2
<1>4. PICK c \in Seq(News) : c = d[q]
  OBVIOUS
<1>5. PICK st \in BOOLEAN : st = started
  BY <1>2
<1>7. ToldOf(e, c, seat[q], r, st)
  BY <1>3, <1>4, <1>5
<1>8. ToldOf(e, IF e.open THEN Append(c, m) ELSE c, seat[q], Seen(r, m), st)
  BY <1>7, ToldNews
<1>9. /\ Tell(d, q, m) \in [Ends -> Seq(News)]
      /\ Tell(d, q, m)[q] = IF end[q].open THEN Append(d[q], m) ELSE d[q]
      /\ Tell(d, q, m)[Other(q)] = d[Other(q)]
  BY <1>1, TellEffect
<1>10. t[q] = IF e.open THEN Append(c, m) ELSE c
  BY <1>3, <1>4, <1>9
<1>11. ToldOf(e, t[q], seat[q], Seen(r, m), st)
  BY <1>8, <1>10
<1> QED
  BY <1>3, <1>5, <1>9, <1>11

\* What a client sent reaches the server.
LEMMA RelayInv ==
  ASSUME IInv, NEW p \in Ends, Relay(p)
  PROVE  IInv'
<1>e. PICK e : e = end[p]
  OBVIOUS
<1>q. PICK q \in Ends : q = Other(p)
  BY Players
<1>m. PICK m : m = Head(e.up)
  OBVIOUS
<1>f. PICK f : f = [e EXCEPT !.up = Tail(@)]
  OBVIOUS
<1>1. q # p
  BY <1>q, Players
<1>o. Other(q) = p
  BY <1>q, Players
<1>u. PICK u \in Views(end[q], seat[q]) : ToldOf(e, down[p], seat[p], u, started)
  BY <1>e, <1>q, TheTold DEF IInv
<1>v. PICK v \in Views(e, seat[p]) : ToldOf(end[q], down[q], seat[q], v, started)
  BY <1>e, <1>q, TheTold DEF IInv
<1>3. seat \in [Ends -> Seats] /\ started \in BOOLEAN /\ down \in [Ends -> Seq(News)]
      /\ drops \in 0 .. MaxDrops /\ failures \in 0 .. MaxFailures /\ DOMAIN end = Ends
      /\ e \in GamesOf(backend[p]) /\ end[q] \in GamesOf(backend[q])
  BY <1>e DEF IInv, Typed
<1>4. e.up # <<>> /\ end' = [end EXCEPT ![p] = f] /\ UNCHANGED <<backend, started, drops, failures>>
  BY <1>e, <1>f DEF Relay
<1>5. e.up \in Seq(Requests)
  BY <1>3 DEF GamesOf
<1>6. Tail(e.up) \in Seq(Requests) /\ m \in Requests
  BY <1>m, <1>4, <1>5
<1>7. Leaves(Tail(e.up)) => Leaves(e.up)
  <2> SUFFICES ASSUME NEW i \in 1 .. Len(Tail(e.up)), Tail(e.up)[i].type = "leave"
               PROVE  \E j \in 1 .. Len(e.up) : e.up[j].type = "leave"
    BY DEF Leaves
  <2>1. i + 1 \in 1 .. Len(e.up) /\ Tail(e.up)[i] = e.up[i + 1]
    BY <1>4, <1>5
  <2> QED
    BY <2>1
<1>8. m.type = "leave" => e.closed
  <2>1. 1 \in 1 .. Len(e.up) /\ m = e.up[1]
    BY <1>m, <1>4, <1>5
  <2>2. m.type = "leave" => Leaves(e.up)
    BY <2>1 DEF Leaves
  <2> QED
    BY <1>u, <2>2 DEF ToldOf
<1>9. f \in GamesOf(backend[p]) /\ Keeps(e, f) /\ SameLink(e, f) /\ f.work = e.work
  BY <1>f, <1>3, <1>6, <1>7 DEF GamesOf, Keeps, SameLink
<1>10. Moves(p, f)
  BY <1>4, <1>9 DEF Moves
<1>11. p = Low => Dated(backend[p], f) /\ Counted(f)
  BY <1>e, <1>9, StillCounts DEF IInv
<1>12. ToldOf(f, down[p], seat[p], u, started)
  BY <1>u, <1>9, ToldKept
<1>13. CASE m.type = "leave"
  <2>l. PICK l : l = [type |-> "player-left", explicit |-> TRUE]
    OBVIOUS
  <2>1. seat' = [seat EXCEPT ![p] = Nobody] /\ down' = Tell(down, q, l)
    BY <1>e, <1>q, <1>m, <1>13, <2>l DEF Relay
  <2>2. l \in News /\ l.type = "player-left" /\ Seen(v, l) = Nobody /\ Nobody \in Seats
    BY <2>l, ServerNews DEF Seen, Seats
  <2>3. seat' \in [Ends -> Seats] /\ seat'[p] = Nobody /\ seat'[q] = seat[q]
    BY <1>1, <1>3, <2>1, <2>2
  <2>4. /\ down' \in [Ends -> Seq(News)] /\ down'[p] = down[p]
        /\ ToldOf(end[q], down'[q], seat[q], Nobody, started)
    <3>1. l.type \notin {"error", "ws-closed", "room-started"}
      BY <2>2
    <3>3. PICK o : o = Nobody
      OBVIOUS
    <3>2. o = Seen(v, l)
      BY <2>2, <3>3
    <3>4. /\ down' \in [Ends -> Seq(News)] /\ down'[Other(q)] = down[Other(q)]
          /\ ToldOf(end[q], down'[q], seat[q], o, started)
      <4>1. PICK d \in [Ends -> Seq(News)] : d = down
        BY <1>3
      <4>2. PICK t : t = down'
        OBVIOUS
      <4>3. /\ d[q] = down[q] /\ l \in News /\ l.type \notin {"error", "ws-closed", "room-started"}
            /\ t = Tell(d, q, l) /\ ToldOf(end[q], down[q], seat[q], v, started) /\ o = Seen(v, l)
        BY <1>v, <2>1, <2>2, <3>1, <3>2, <4>1, <4>2
      <4>4. t \in [Ends -> Seq(News)] /\ t[Other(q)] = d[Other(q)]
            /\ ToldOf(end[q], t[q], seat[q], o, started)
        BY <4>3, InformsOnly
      <4> QED
        BY <4>1, <4>2, <4>4
    <3> QED
      BY <1>o, <3>3, <3>4
  <2>5. ToldOf(f, down[p], Nobody, u, started)
    <3>1. f.closed /\ ~f.open
      BY <1>8, <1>9, <1>12, <1>13 DEF Keeps, ToldOf
    <3>2. ~(Nobody.connected /\ ~f.closed)
      BY <3>1
    <3> QED
      BY <1>12, <3>1, <3>2, ToldNothing
  <2>6. Nobody \in Views(f, Nobody)
    BY ViewsOf
  <2> QED
    BY <1>q, <1>u, <1>3, <1>4, <1>10, <1>11, <2>3, <2>4, <2>5, <2>6, OneMoves
<1>14. CASE m.type # "leave"
  <2>1. seat' = seat /\ down' = Tell(down, q, m)
    BY <1>e, <1>q, <1>m, <1>14 DEF Relay
  <2>2. m \in Signals
    BY <1>6, <1>14 DEF Requests
  <2>3. m \in News /\ Seen(v, m) = v
        /\ m.type \notin {"error", "ws-closed", "room-started"}
    BY <2>2, Unseen
  <2>4. /\ down' \in [Ends -> Seq(News)] /\ down'[p] = down[p]
        /\ ToldOf(end[q], down'[q], seat[q], v, started)
    BY <1>v, <1>3, <1>o, <2>1, <2>3, InformsOnly, SMTT(30)
  <2>5. v \in Views(f, seat[p])
    BY <1>v, <1>9 DEF Views, Keeps
  <2> QED
    BY <1>q, <1>u, <1>3, <1>4, <1>10, <1>11, <1>12, <2>1, <2>4, <2>5, OneMoves
<1> QED
  BY <1>13, <1>14

\* A seat whose player is away.
LEMMA Empties ==
  ASSUME NEW s \in Seats
  PROVE  /\ [s EXCEPT !.connected = FALSE] \in Seats /\ ~[s EXCEPT !.connected = FALSE].connected
         /\ ~s.connected => [s EXCEPT !.connected = FALSE] = s
<1>1. PICK t : t = [s EXCEPT !.connected = FALSE]
  OBVIOUS
<1>2. t = IF s.occupied THEN Away ELSE Nobody
  BY <1>1, Disconnects
<1>3. t \in Seats /\ ~t.connected
  <2>1. ~Away.connected /\ ~Nobody.connected /\ Away \in Seats /\ Nobody \in Seats
    BY DEF Away, Nobody, Seats
  <2> QED
    BY <1>2, <2>1
<1>4. ~s.connected => t = s
  <2>1. Present.connected /\ Away.occupied /\ ~Nobody.occupied
    BY DEF Present, Away, Nobody
  <2>2. s = Nobody \/ s = Present \/ s = Away
    BY DEF Seats
  <2> QED
    BY <1>2, <2>1, <2>2
<1> QED
  BY <1>1, <1>3, <1>4

\* What is under way between a client and the server is lost with its transport.
LEMMA CutInv ==
  ASSUME IInv, NEW p \in Ends, Cut(p)
  PROVE  IInv'
<1>1. PICK e : e = end[p]
  OBVIOUS
<1>2. PICK q \in Ends : q = Other(p)
  BY Players
<1>3. PICK f : f = [e EXCEPT !.open = FALSE, !.up = <<>>]
  OBVIOUS
<1>4. PICK l : l = [type |-> "player-left", explicit |-> FALSE]
  OBVIOUS
<1>5. PICK x : x = [type |-> "error", code |-> "slow-consumer"]
  OBVIOUS
<1>6. Other(q) = p /\ q # p
  BY <1>2, Players
<1>u. PICK u \in Views(end[q], seat[q]) : ToldOf(e, down[p], seat[p], u, started)
  BY <1>1, <1>2, TheTold DEF IInv
<1>v. PICK v \in Views(e, seat[p]) : ToldOf(end[q], down[q], seat[q], v, started)
  BY <1>1, <1>2, TheTold DEF IInv
<1>8. seat \in [Ends -> Seats] /\ started \in BOOLEAN /\ down \in [Ends -> Seq(News)]
      /\ drops \in 0 .. MaxDrops /\ failures \in 0 .. MaxFailures /\ DOMAIN end = Ends
      /\ e \in GamesOf(backend[p])
  BY <1>1 DEF IInv, Typed
<1>9. /\ seat[p].connected /\ drops < MaxDrops /\ drops' = drops + 1
      /\ seat' = [seat EXCEPT ![p].connected = FALSE]
      /\ end' = [end EXCEPT ![p].open = FALSE, ![p].up = <<>>]
      /\ UNCHANGED <<backend, started, failures>>
  BY DEF Cut
<1>10. end' = [end EXCEPT ![p] = f]
  BY <1>1, <1>3, <1>8, <1>9
<1>11. f \in GamesOf(backend[p]) /\ f.link = e.link /\ SameLink(e, f) /\ f.work = e.work
       /\ ~f.open /\ f.up = <<>> /\ f.closed = e.closed /\ f.fatal = e.fatal /\ f.reports = e.reports
       /\ f.refused = e.refused
  <2>1. <<>> \in Seq(Requests)
    OBVIOUS
  <2>2. f.link = e.link /\ f.work = e.work /\ f.epoch = e.epoch /\ f.timers = e.timers
        /\ f.rebuilds = e.rebuilds /\ f.tries = e.tries
        /\ ~f.open /\ f.up = <<>> /\ f.closed = e.closed /\ f.fatal = e.fatal /\ f.reports = e.reports
        /\ f.refused = e.refused
    BY <1>3, <1>8 DEF GamesOf
  <2>3. f \in GamesOf(backend[p])
    BY <1>3, <1>8, <2>1 DEF GamesOf
  <2> QED
    BY <2>2, <2>3 DEF SameLink
<1>12. Moves(p, f)
  BY <1>9, <1>10, <1>11 DEF Moves
<1>13. p = Low => Dated(backend[p], f) /\ Counted(f)
  BY <1>1, <1>11, StillCounts DEF IInv
<1>14. drops' \in 0 .. MaxDrops
  BY <1>8, <1>9, BoundsAreNat
<1>15. seat' \in [Ends -> Seats] /\ ~seat'[p].connected /\ seat'[q] = seat[q]
       /\ seat'[p] = Seen(seat[p], l)
  <2>1. seat' = [seat EXCEPT ![p] = [@ EXCEPT !.connected = FALSE]]
    BY <1>8, <1>9
  <2>2. seat[p] \in Seats
    BY <1>8
  <2>3. [seat[p] EXCEPT !.connected = FALSE] \in Seats /\ ~[seat[p] EXCEPT !.connected = FALSE].connected
    BY <2>2, Empties
  <2>4. Seen(seat[p], l) = [seat[p] EXCEPT !.connected = FALSE]
    BY <1>4 DEF Seen
  <2> QED
    BY <1>6, <1>8, <2>1, <2>3, <2>4
<1>16. PICK c : /\ c \in {IF e.closed THEN <<>> ELSE rest \o <<[type |-> "ws-closed"]>> :
                            rest \in {<<>>, down[p] \o <<x>>}}
                /\ down' = Tell([down EXCEPT ![p] = c], q, l)
  BY <1>1, <1>2, <1>4, <1>5 DEF Cut
<1>17. c \in Seq(News) /\ Warned(f, c)
  <2>1. down[p] \in Seq(News) /\ x \in News /\ x.type # "ws-closed" /\ [type |-> "ws-closed"] \in News
    BY <1>5, <1>8, ServerNews
  <2>2. CASE e.closed
    <3>1. c = <<>>
      BY <1>16, <2>2
    <3>2. f.reports = IF f.fatal THEN 1 ELSE 0
      BY <1>u, <1>11 DEF ToldOf, Warned
    <3> QED
      BY <1>11, <2>2, <3>1, <3>2 DEF Warned
  <2>3. CASE ~e.closed
    <3>1. c = <<[type |-> "ws-closed"]>> \/ c = down[p] \o <<x, [type |-> "ws-closed"]>>
      <4>1. <<>> \o <<[type |-> "ws-closed"]>> = <<[type |-> "ws-closed"]>>
        OBVIOUS
      <4>2. (down[p] \o <<x>>) \o <<[type |-> "ws-closed"]>> = down[p] \o <<x, [type |-> "ws-closed"]>>
        BY <2>1
      <4> QED
        BY <1>16, <2>3, <4>1, <4>2
    <3>2. e.open
      BY <1>u, <1>9, <2>3 DEF ToldOf
    <3>3. Warned(e, down[p])
      BY <1>u DEF ToldOf
    <3>4. Warned(f, <<[type |-> "ws-closed"]>>) /\ Warned(f, down[p] \o <<x, [type |-> "ws-closed"]>>)
      BY <1>11, <2>1, <2>3, <3>2, <3>3, WarnedEnd
    <3>5. <<[type |-> "ws-closed"]>> \in Seq(News) /\ down[p] \o <<x, [type |-> "ws-closed"]>> \in Seq(News)
      BY <2>1
    <3> QED
      BY <3>1, <3>4, <3>5
  <2> QED
    BY <2>2, <2>3
<1>18. PICK d : d = [down EXCEPT ![p] = c]
  OBVIOUS
<1>19. d \in [Ends -> Seq(News)] /\ d[p] = c /\ d[q] = down[q]
  BY <1>6, <1>8, <1>17, <1>18
<1>20. l \in News /\ l.type \notin {"error", "ws-closed", "room-started"}
  BY <1>4, ServerNews
<1>s. v = seat[p]
  <2>1. seat[p] # Away
    BY <1>9 DEF Away
  <2> QED
    BY <1>v, <2>1, ViewsOf
<1>21. seat'[p] = Seen(v, l) /\ down' = Tell(d, q, l)
  BY <1>s, <1>15, <1>16, <1>18
<1>22. down' \in [Ends -> Seq(News)] /\ down'[p] = c /\ ToldOf(end[q], down'[q], seat[q], seat'[p], started)
  BY <1>v, <1>6, <1>19, <1>20, <1>21, InformsOnly
<1>23. ToldOf(f, c, seat'[p], u, started)
  BY <1>u, <1>11, <1>15, <1>17, NothingSent DEF ToldOf
<1>24. PICK w : w = seat'[p]
  OBVIOUS
<1>25. u \in Views(end[q], seat'[q]) /\ w \in Views(f, seat'[p])
  BY <1>15, <1>24, ViewsOf
<1>26. /\ ToldOf(f, down'[p], seat'[p], u, started')
       /\ ToldOf(end[q], down'[q], seat'[q], w, started')
  BY <1>9, <1>15, <1>22, <1>23, <1>24
<1>27. /\ seat' \in [Ends -> Seats] /\ started' \in BOOLEAN /\ down' \in [Ends -> Seq(News)]
       /\ drops' \in 0 .. MaxDrops /\ failures' \in 0 .. MaxFailures
  BY <1>8, <1>9, <1>14, <1>15, <1>22
<1> QED
  BY <1>2, <1>12, <1>13, <1>25, <1>26, <1>27, OneMoves

\* A process that dies loses everything; it is still to be heard of, if it was connected.
LEMMA CrashInv ==
  ASSUME IInv, NEW p \in Ends, Crash(p)
  PROVE  IInv'
<1>1. PICK e : e = end[p]
  OBVIOUS
<1>2. PICK q \in Ends : q = Other(p)
  BY <1>1, Players
<1>3. PICK f : f = Gone(e)
  OBVIOUS
<1>4. PICK l : l = [type |-> "player-left", explicit |-> FALSE]
  OBVIOUS
<1>5. Other(q) = p /\ q # p
  BY <1>2, Players
<1>u. PICK u \in Views(end[q], seat[q]) : ToldOf(e, down[p], seat[p], u, started)
  BY <1>1, <1>2, TheTold DEF IInv
<1>v. PICK v \in Views(e, seat[p]) : ToldOf(end[q], down[q], seat[q], v, started)
  BY <1>1, <1>2, TheTold DEF IInv
<1>s. v = seat[p]
  <2>1. ~e.closed
    BY <1>1 DEF Crash
  <2> QED
    BY <1>u, <1>v, <2>1, ViewsOf DEF ToldOf
<1>6. ToldOf(end[q], down[q], seat[q], seat[p], started)
  BY <1>v, <1>s
<1>7. seat \in [Ends -> Seats] /\ started \in BOOLEAN /\ down \in [Ends -> Seq(News)]
      /\ drops \in 0 .. MaxDrops /\ failures \in 0 .. MaxFailures /\ DOMAIN end = Ends
      /\ e \in GamesOf(backend[p])
  BY <1>1 DEF IInv, Typed
<1>8. /\ drops < MaxDrops /\ drops' = drops + 1
      /\ seat' = [seat EXCEPT ![p].connected = FALSE]
      /\ end' = [end EXCEPT ![p] = f]
      /\ UNCHANGED <<backend, started, failures>>
  BY <1>1, <1>3 DEF Crash
<1>9. /\ f \in GamesOf(backend[p]) /\ f.closed /\ ~f.fatal /\ ~f.open
      /\ f.link.id = 0 /\ f.rebuilds = 0 /\ f.timers = {} /\ f.work = <<>>
      /\ f.up = <<>> /\ f.tries = 0 /\ f.reports = 0 /\ ~f.refused
  BY <1>3, <1>7, Numbered, GoneMade
<1>10. Moves(p, f)
  BY <1>8, <1>9 DEF Moves
<1>11. p = Low => Dated(backend[p], f) /\ Counted(f)
  BY <1>9, BlankCounts, BoundsAreNat
<1>12. drops' \in 0 .. MaxDrops
  BY <1>7, <1>8, BoundsAreNat
<1>13. seat' \in [Ends -> Seats] /\ ~seat'[p].connected /\ seat'[q] = seat[q]
       /\ seat'[p] = Seen(seat[p], l) /\ (~seat[p].connected => seat'[p] = seat[p])
  <2>1. seat' = [seat EXCEPT ![p] = [@ EXCEPT !.connected = FALSE]]
    BY <1>7, <1>8
  <2>2. seat[p] \in Seats
    BY <1>7
  <2>3. [seat[p] EXCEPT !.connected = FALSE] \in Seats /\ ~[seat[p] EXCEPT !.connected = FALSE].connected
        /\ (~seat[p].connected => [seat[p] EXCEPT !.connected = FALSE] = seat[p])
    BY <2>2, Empties
  <2>4. Seen(seat[p], l) = [seat[p] EXCEPT !.connected = FALSE]
    BY <1>4 DEF Seen
  <2> QED
    BY <1>5, <1>7, <2>1, <2>3, <2>4
<1>14. PICK d : d = [down EXCEPT ![p] = <<>>]
  OBVIOUS
<1>15. <<>> \in Seq(News)
  OBVIOUS
<1>16. d \in [Ends -> Seq(News)] /\ d[p] = <<>> /\ d[q] = down[q]
  BY <1>5, <1>7, <1>14, <1>15
<1>17. l \in News /\ l.type \notin {"error", "ws-closed", "room-started"}
  BY <1>4, ServerNews
<1>18. down' = IF seat[p].connected THEN Tell(d, q, l) ELSE d
  BY <1>2, <1>4, <1>14 DEF Crash
<1>19. down' \in [Ends -> Seq(News)] /\ down'[p] = <<>> /\ ToldOf(end[q], down'[q], seat[q], seat'[p], started)
  <2>1. CASE seat[p].connected
    <3>1. seat'[p] = Seen(seat[p], l) /\ down' = Tell(d, q, l)
      BY <1>13, <1>18, <2>1
    <3> QED
      BY <1>5, <1>6, <1>16, <1>17, <3>1, InformsOnly
  <2>2. CASE ~seat[p].connected
    <3>1. down' = d /\ seat'[p] = seat[p]
      BY <1>13, <1>18, <2>2
    <3> QED
      BY <1>6, <1>16, <3>1
  <2> QED
    BY <2>1, <2>2
<1>20. ToldOf(f, <<>>, seat'[p], u, started)
  BY <1>9, <1>13, NothingSent DEF ToldOf, Warned
<1>21. PICK w : w = seat'[p]
  OBVIOUS
<1>22. u \in Views(end[q], seat'[q]) /\ w \in Views(f, seat'[p])
  BY <1>13, <1>21, ViewsOf
<1>23. /\ ToldOf(f, down'[p], seat'[p], u, started')
       /\ ToldOf(end[q], down'[q], seat'[q], w, started')
  BY <1>8, <1>13, <1>19, <1>20, <1>21
<1>24. started' \in BOOLEAN /\ failures' \in 0 .. MaxFailures
  BY <1>7, <1>8
<1> QED
  BY <1>2, <1>10, <1>11, <1>12, <1>13, <1>19, <1>22, <1>23, <1>24, OneMoves

\* Every client with signaling is told that the room has expired.
LEMMA ExpireInv ==
  ASSUME IInv, Expire
  PROVE  IInv'
<1>1. seat \in [Ends -> Seats] /\ down \in [Ends -> Seq(News)] /\ drops \in 0 .. MaxDrops
      /\ failures \in 0 .. MaxFailures /\ DOMAIN end = Ends /\ backend \in [Ends -> {"native", "wasm"}]
      /\ \A p \in Ends : end[p] \in GamesOf(backend[p])
  BY DEF IInv, Typed
<1>2. /\ drops < MaxDrops /\ drops' = drops + 1 /\ started' = FALSE
      /\ seat' = [p \in Ends |-> Nobody]
      /\ end' = [p \in Ends |-> [end[p] EXCEPT !.open = FALSE, !.up = <<>>]]
      /\ UNCHANGED <<backend, failures>>
      /\ DOMAIN down' = Ends
  BY DEF Expire
<1>3. ASSUME NEW p \in Ends
      PROVE  /\ down'[p] \in Seq(News) /\ end'[p] \in GamesOf(backend[p])
             /\ SameLink(end[p], end'[p]) /\ end'[p].work = end[p].work
             /\ ToldOf(end'[p], down'[p], Nobody, Nobody, FALSE)
  <2>1. PICK e \in GamesOf(backend[p]) : e = end[p]
    BY <1>1, <1>3
  <2>2. PICK f : f = end'[p]
    OBVIOUS
  <2>3. PICK x : x = [type |-> "error", code |-> "room-expired"]
    OBVIOUS
  <2>4. PICK c : c = down'[p]
    OBVIOUS
  <2>5. f = [e EXCEPT !.open = FALSE, !.up = <<>>]
    BY <1>2, <1>3, <2>1, <2>2
  <2>6. SameLink(e, f) /\ f.work = e.work /\ f \in GamesOf(backend[p])
        /\ ~f.open /\ f.up = <<>> /\ f.closed = e.closed /\ f.fatal = e.fatal /\ f.reports = e.reports
        /\ f.refused = e.refused
    <3>1. <<>> \in Seq(Requests)
      OBVIOUS
    <3>2. f.link = e.link /\ f.work = e.work /\ f.epoch = e.epoch /\ f.timers = e.timers
          /\ f.rebuilds = e.rebuilds /\ f.tries = e.tries
          /\ ~f.open /\ f.up = <<>> /\ f.closed = e.closed /\ f.fatal = e.fatal /\ f.reports = e.reports
          /\ f.refused = e.refused
      BY <2>5 DEF GamesOf
    <3>3. f \in GamesOf(backend[p])
      BY <2>5, <3>1 DEF GamesOf
    <3> QED
      BY <3>2, <3>3 DEF SameLink
  <2>7. \E o : ToldOf(e, down[p], seat[p], o, started)
    BY <1>3, <2>1, TheTold DEF IInv
  <2>8. down[p] \in Seq(News) /\ x \in News /\ x.type # "ws-closed" /\ [type |-> "ws-closed"] \in News
    BY <1>1, <1>3, <2>3, ServerNews
  <2>9. c = IF seat[p].connected /\ ~e.closed THEN down[p] \o <<x, [type |-> "ws-closed"]>> ELSE down[p]
    BY <1>3, <2>1, <2>3, <2>4 DEF Expire
  <2>10. c \in Seq(News) /\ Warned(f, c)
    <3>1. CASE seat[p].connected /\ ~e.closed
      <4>1. e.open /\ Warned(e, down[p])
        BY <2>7, <3>1 DEF ToldOf
      <4>2. Warned(f, down[p] \o <<x, [type |-> "ws-closed"]>>)
        BY <2>6, <2>8, <3>1, <4>1, WarnedEnd
      <4>3. down[p] \o <<x, [type |-> "ws-closed"]>> \in Seq(News)
        BY <2>8
      <4> QED
        BY <2>9, <3>1, <4>2, <4>3
    <3>2. CASE ~(seat[p].connected /\ ~e.closed)
      <4>1. c = down[p]
        BY <2>9, <3>2
      <4>2. ~e.open /\ Warned(e, down[p])
        BY <2>7, <3>2 DEF ToldOf
      <4> QED
        BY <2>6, <2>8, <4>1, <4>2 DEF Warned
    <3> QED
      BY <3>1, <3>2
  <2>11. ToldOf(f, c, Nobody, Nobody, FALSE)
    <3>1. ~Nobody.connected
      BY DEF Nobody
    <3> QED
      BY <2>6, <2>7, <2>10, <3>1, NothingSent DEF ToldOf
  <2> QED
    BY <2>1, <2>2, <2>4, <2>6, <2>10, <2>11
<1>4. Typed'
  <2>1. Nobody \in Seats
    BY DEF Seats
  <2>2. drops' \in 0 .. MaxDrops
    <3>1. drops \in 0 .. MaxDrops /\ drops < MaxDrops /\ drops' = drops + 1
      BY <1>1, <1>2
    <3> QED
      BY <3>1, BoundsAreNat
  <2>3. down' \in [Ends -> Seq(News)]
    <3>1. down' = [p \in Ends |-> down'[p]]
      BY DEF Expire
    <3> QED
      BY <1>3, <3>1
  <2>4. seat' \in [Ends -> Seats]
    BY <1>2, <2>1
  <2>5. DOMAIN end' = Ends /\ \A p \in Ends : end'[p] \in GamesOf(backend'[p])
    BY <1>2, <1>3
  <2>6. end' = [p \in Ends |-> end'[p]]
    BY <1>2
  <2> QED
    BY <1>1, <1>2, <2>2, <2>3, <2>4, <2>5, <2>6 DEF Typed
<1>5. Told'
  <2> SUFFICES ASSUME NEW p \in Ends
               PROVE  \E o \in Views(end'[Other(p)], seat'[Other(p)]) :
                        ToldOf(end'[p], down'[p], seat'[p], o, started')
    BY DEF Told
  <2>1. seat'[p] = Nobody /\ seat'[Other(p)] = Nobody /\ started' = FALSE
    BY <1>2, Players
  <2>2. Nobody \in Views(end'[Other(p)], Nobody)
    BY ViewsOf
  <2> QED
    BY <1>3, <2>1, <2>2
<1>6. Bounded'
  <2>1. Low \in Ends
    BY DEF Ends
  <2>2. PICK f \in GamesOf(backend[Low]) : f = end'[Low]
    BY <1>3, <2>1
  <2>3. SameLink(end[Low], f) /\ f.work = end[Low].work
    BY <1>3, <2>1, <2>2
  <2>4. Dated(backend[Low], f) /\ Counted(f)
    BY <2>1, <2>3, StillCounts DEF IInv
  <2> QED
    BY <1>2, <2>2, <2>4 DEF Bounded
<1> QED
  BY <1>4, <1>5, <1>6 DEF IInv

\* The seat p is taken, and the other player is told.
LEMMA SeatTold ==
  ASSUME IInv, NEW p \in Ends, NEW q \in Ends, q = Other(p),
         NEW fresh \in BOOLEAN, NEW delivered \in BOOLEAN, Seat(p, fresh, delivered),
         NEW taken, taken = (IF delivered THEN Present ELSE Away),
         NEW r, r = (started \/ (fresh /\ ~started /\ seat[q].occupied)),
         NEW o, o = (IF fresh THEN taken ELSE Present)
  PROVE  /\ seat' \in [Ends -> Seats] /\ seat'[p] = taken /\ seat'[q] = seat[q]
         /\ started' = r /\ r \in BOOLEAN
         /\ down' \in [Ends -> Seq(News)] /\ down'[p] = <<>>
         /\ ToldOf(end[q], down'[q], seat[q], o, r)
<1>1. Other(q) = p /\ q # p
  BY Players
<1>2. seat \in [Ends -> Seats] /\ started \in BOOLEAN /\ down \in [Ends -> Seq(News)]
      /\ end[q] \in GamesOf(backend[q])
  BY DEF IInv, Typed
<1>3. PICK full \in BOOLEAN : full <=> fresh /\ ~started /\ seat[q].occupied
  OBVIOUS
<1>4. PICK d : d = [down EXCEPT ![p] = <<>>]
  OBVIOUS
<1>5. PICK x : x = [type |-> "room-started"]
  OBVIOUS
<1>6. PICK m : m = IF fresh THEN [type |-> "player-joined", roster |-> taken]
                   ELSE [type |-> "player-rejoined"]
  OBVIOUS
<1>7. /\ seat' = [seat EXCEPT ![p] = taken] /\ started' = r /\ r \in BOOLEAN
      /\ r <=> (started \/ full)
  BY <1>2, <1>3 DEF Seat
<1>8. down' = IF full THEN Tell(Tell(d, q, m), q, x) ELSE Tell(d, q, m)
  BY <1>3, <1>4, <1>5, <1>6 DEF Seat
<1>9. taken \in {Present, Away} /\ taken \in Seats
  BY DEF Seats
<1>10. seat' \in [Ends -> Seats] /\ seat'[p] = taken /\ seat'[q] = seat[q]
  BY <1>1, <1>2, <1>7, <1>9
<1>11. d \in [Ends -> Seq(News)] /\ d[p] = <<>> /\ d[q] = down[q]
  <2>1. <<>> \in Seq(News)
    OBVIOUS
  <2> QED
    BY <1>1, <1>2, <1>4, <2>1
<1>12. PICK v : ToldOf(end[q], down[q], seat[q], v, started)
  BY TheTold DEF IInv
<1>13. m \in News /\ m.type \notin {"error", "ws-closed", "room-started"} /\ Seen(v, m) = o
  <2>1. CASE fresh
    BY <1>6, <1>9, <2>1, ServerNews DEF Seen
  <2>2. CASE ~fresh
    BY <1>6, <2>2, ServerNews DEF Seen
  <2> QED
    BY <2>1, <2>2
<1>14. PICK t : t = Tell(d, q, m)
  OBVIOUS
<1>15. /\ t \in [Ends -> Seq(News)] /\ t[p] = <<>>
       /\ ToldOf(end[q], t[q], seat[q], o, started)
  <2>1. o = Seen(v, m)
    BY <1>13
  <2>2. t \in [Ends -> Seq(News)] /\ t[Other(q)] = d[Other(q)] /\ ToldOf(end[q], t[q], seat[q], o, started)
    BY <1>11, <1>12, <1>13, <1>14, <2>1, InformsOnly
  <2> QED
    BY <1>1, <1>11, <2>2
<1>16. down' \in [Ends -> Seq(News)] /\ down'[p] = <<>> /\ ToldOf(end[q], down'[q], seat[q], o, r)
  <2>1. CASE ~full
    <3>1. down' = t /\ r = started
      BY <1>2, <1>7, <1>8, <1>14, <2>1
    <3> QED
      BY <1>15, <3>1
  <2>2. CASE full
    <3>1. down' = Tell(t, q, x) /\ r = TRUE
      BY <1>7, <1>8, <1>14, <2>2
    <3>2. x \in News /\ x.type = "room-started"
      BY <1>5, ServerNews
    <3>3. Typed /\ Told
      BY DEF IInv
    <3>4. /\ Tell(t, q, x) \in [Ends -> Seq(News)]
          /\ Tell(t, q, x)[q] = IF end[q].open THEN Append(t[q], x) ELSE t[q]
          /\ Tell(t, q, x)[Other(q)] = t[Other(q)]
      BY <1>15, <3>2, <3>3, TellEffect
    <3>5. PICK h \in GamesOf(backend[q]) : h = end[q]
      BY <1>2
    <3>6. PICK c \in Seq(News) : c = t[q]
      BY <1>15
    <3>7. PICK st \in BOOLEAN : st = started
      BY <1>2
    <3>8. ToldOf(h, c, seat[q], o, st)
      BY <1>15, <3>5, <3>6, <3>7
    <3>9. ToldOf(h, IF h.open THEN Append(c, x) ELSE c, seat[q], o, TRUE)
      BY <3>2, <3>8, ToldStart
    <3>10. down'[q] = IF h.open THEN Append(c, x) ELSE c
      BY <3>1, <3>4, <3>5, <3>6
    <3>11. ToldOf(h, down'[q], seat[q], o, TRUE)
      BY <3>9, <3>10
    <3> QED
      BY <1>1, <1>15, <3>1, <3>4, <3>5, <3>11
  <2> QED
    BY <2>1, <2>2
<1> QED
  BY <1>7, <1>10, <1>16

\* A client that has joined, in a seat that was free or taken over, starts with
\* the server's view, and the other one is told.
LEMMA EntersInv ==
  ASSUME IInv, NEW p \in Ends, Enters(p), drops' \in 0 .. MaxDrops
  PROVE  IInv'
<1>1. PICK e : e = end[p]
  OBVIOUS
<1>2. PICK q \in Ends : q = Other(p)
  BY <1>1, Players
<1>3. Other(q) = p /\ q # p
  BY <1>2, Players
<1>4. seat \in [Ends -> Seats] /\ started \in BOOLEAN
      /\ failures \in 0 .. MaxFailures /\ DOMAIN end = Ends
      /\ e \in GamesOf(backend[p])
  BY <1>1 DEF IInv, Typed
<1>5. PICK fresh \in BOOLEAN : fresh = ~seat[p].occupied
  OBVIOUS
<1>6. PICK r \in BOOLEAN : r <=> (started \/ (fresh /\ seat[q].occupied))
  OBVIOUS
<1>7. PICK g : g = Game(e.epoch, seat[q], r)
  OBVIOUS
<1>8. PICK f : f = Joined(p, g)
  OBVIOUS
<1>9. Seat(p, fresh, TRUE) /\ UNCHANGED <<backend, failures>>
  BY <1>5 DEF Enters
<1>10. end' = [end EXCEPT ![p] = f]
  <2>1. (started \/ (~seat[p].occupied /\ seat[q].occupied)) = r
    BY <1>4, <1>5, <1>6
  <2> QED
    BY <1>1, <1>2, <1>7, <1>8, <2>1 DEF Enters
<1>11. r = (started \/ (fresh /\ ~started /\ seat[q].occupied))
  BY <1>4, <1>6
<1>12. /\ seat' \in [Ends -> Seats] /\ seat'[p] = Present /\ seat'[q] = seat[q]
       /\ started' = r
       /\ down' \in [Ends -> Seq(News)] /\ down'[p] = <<>>
       /\ ToldOf(end[q], down'[q], seat[q], Present, r)
  <2>1. PICK taken : taken = IF TRUE THEN Present ELSE Away
    OBVIOUS
  <2>2. PICK o : o = IF fresh THEN taken ELSE Present
    OBVIOUS
  <2>3. PICK delivered \in BOOLEAN : delivered = TRUE
    OBVIOUS
  <2>4. Seat(p, fresh, delivered) /\ taken = (IF delivered THEN Present ELSE Away)
    BY <1>9, <2>1, <2>3
  <2>5. /\ seat' \in [Ends -> Seats] /\ seat'[p] = taken /\ seat'[q] = seat[q]
        /\ started' = r
        /\ down' \in [Ends -> Seq(News)] /\ down'[p] = <<>>
        /\ ToldOf(end[q], down'[q], seat[q], o, r)
    BY <1>2, <1>11, <2>2, <2>4, SeatTold
  <2> QED
    BY <2>1, <2>2, <2>5
<1>13. Present.connected
  BY DEF Present
<1>14. e.epoch \in Nat /\ seat[q] \in Seats
  BY <1>4, Numbered
<1>15. /\ f \in GamesOf(backend[p]) /\ Keeps(g, f)
       /\ p = Low => Dated(backend[p], f) /\ Counted(f)
  BY <1>7, <1>8, <1>14, JoinedMade DEF IInv
<1>16. Moves(p, f)
  BY <1>9, <1>10, <1>15 DEF Moves
<1>17. ToldOf(f, <<>>, Present, seat[q], r)
  <2>1. /\ ~g.closed /\ ~g.fatal /\ g.open /\ g.roster = seat[q] /\ g.started = r
        /\ g.up = <<>> /\ g.reports = 0 /\ ~g.refused
    BY <1>7, <1>14, GameMade
  <2>2. Caught(g, <<>>, seat[q], r)
    BY <1>14, <2>1, CaughtUp
  <2>3. Warned(g, <<>>)
    BY <2>1 DEF Warned
  <2>4. ToldOf(g, <<>>, Present, seat[q], r)
    BY <1>13, <2>1, <2>2, <2>3, NothingSent DEF ToldOf
  <2> QED
    BY <1>15, <2>4, ToldKept
<1>18. seat[q] \in Views(end[q], seat[q]) /\ Present \in Views(f, Present)
  BY ViewsOf
<1> QED
  BY <1>2, <1>4, <1>6, <1>9, <1>12, <1>15, <1>16, <1>17, <1>18, OneMoves

\* One whose joined message was refused is gone, and the other one is told as if
\* it were back, or sees in its roster that it is not.
LEMMA RefuseInv ==
  ASSUME IInv, NEW p \in Ends, Refuse(p)
  PROVE  IInv'
<1>1. PICK e : e = end[p]
  OBVIOUS
<1>2. PICK q \in Ends : q = Other(p)
  BY <1>1, Players
<1>4. seat \in [Ends -> Seats] /\ started \in BOOLEAN /\ DOMAIN end = Ends
      /\ drops \in 0 .. MaxDrops /\ failures \in 0 .. MaxFailures
      /\ e \in GamesOf(backend[p])
  BY <1>1 DEF IInv, Typed
<1>3. seat[p].occupied \in BOOLEAN
  <2>1. seat[p] \in {Nobody, Present, Away}
    BY <1>4 DEF Seats
  <2>2. Nobody.occupied = FALSE /\ Present.occupied = TRUE /\ Away.occupied = TRUE
    BY DEF Nobody, Present, Away
  <2> QED
    BY <2>1, <2>2
<1>5. PICK fresh \in BOOLEAN : fresh = ~seat[p].occupied
  OBVIOUS
<1>6. PICK r : r = (started \/ (fresh /\ ~started /\ seat[q].occupied))
  OBVIOUS
<1>7. PICK g : g = Gone(e)
  OBVIOUS
<1>8. PICK f : f = [g EXCEPT !.refused = seat[p].occupied]
  OBVIOUS
<1>9. /\ drops < MaxDrops /\ failures < MaxFailures /\ Seat(p, fresh, FALSE)
      /\ drops' = drops + 1 /\ failures' = failures + 1 /\ UNCHANGED backend
  BY <1>5 DEF Refuse
<1>10. drops' \in 0 .. MaxDrops /\ failures' \in 0 .. MaxFailures
  BY <1>4, <1>9, BoundsAreNat
<1>11. /\ g \in GamesOf(backend[p]) /\ g.closed /\ ~g.fatal /\ ~g.open
       /\ g.link.id = 0 /\ g.rebuilds = 0 /\ g.timers = {} /\ g.work = <<>>
       /\ g.up = <<>> /\ g.tries = 0 /\ g.reports = 0
  BY <1>4, <1>7, Numbered, GoneMade
<1>12. /\ f \in GamesOf(backend[p]) /\ f.closed /\ ~f.fatal /\ ~f.open
       /\ f.link.id = 0 /\ f.rebuilds = 0 /\ f.timers = {} /\ f.work = <<>>
       /\ f.up = <<>> /\ f.tries = 0 /\ f.reports = 0 /\ f.refused = seat[p].occupied
  BY <1>3, <1>8, <1>11 DEF GamesOf
<1>13. end' = [end EXCEPT ![p] = f]
  BY <1>1, <1>7, <1>8 DEF Refuse
<1>14. Moves(p, f)
  BY <1>9, <1>12, <1>13 DEF Moves
<1>15. p = Low => Dated(backend[p], f) /\ Counted(f)
  BY <1>12, BlankCounts, BoundsAreNat
<1>16. PICK o : o = IF fresh THEN Away ELSE Present
  OBVIOUS
<1>17. /\ seat' \in [Ends -> Seats] /\ seat'[p] = Away /\ seat'[q] = seat[q]
       /\ started' = r /\ r \in BOOLEAN
       /\ down' \in [Ends -> Seq(News)] /\ down'[p] = <<>>
       /\ ToldOf(end[q], down'[q], seat[q], o, r)
  <2>1. PICK taken : taken = IF FALSE THEN Present ELSE Away
    OBVIOUS
  <2>2. o = IF fresh THEN taken ELSE Present
    BY <1>16, <2>1
  <2>3. PICK delivered \in BOOLEAN : delivered = FALSE
    OBVIOUS
  <2>4. Seat(p, fresh, delivered) /\ taken = (IF delivered THEN Present ELSE Away)
    BY <1>9, <2>1, <2>3
  <2>5. /\ seat' \in [Ends -> Seats] /\ seat'[p] = taken /\ seat'[q] = seat[q]
        /\ started' = r /\ r \in BOOLEAN
        /\ down' \in [Ends -> Seq(News)] /\ down'[p] = <<>>
        /\ ToldOf(end[q], down'[q], seat[q], o, r)
    BY <1>2, <1>6, <2>2, <2>4, SeatTold
  <2> QED
    BY <2>1, <2>5
<1>18. o \in Views(f, Away)
  BY <1>3, <1>5, <1>12, <1>16 DEF Views
<1>19. seat[q] \in Views(end[q], seat[q])
  BY ViewsOf
<1>20. ToldOf(f, <<>>, Away, seat[q], r)
  <2>1. ~Away.connected
    BY DEF Away
  <2> QED
    BY <1>12, <2>1, NothingSent DEF ToldOf, Warned
<1>21. PICK u : u = seat[q]
  OBVIOUS
<1>22. u \in Views(end[q], seat'[q]) /\ o \in Views(f, seat'[p])
  BY <1>17, <1>18, <1>19, <1>21
<1>23. /\ ToldOf(f, down'[p], seat'[p], u, started')
       /\ ToldOf(end[q], down'[q], seat'[q], o, started')
  BY <1>17, <1>20, <1>21
<1> QED
  BY <1>2, <1>10, <1>14, <1>15, <1>17, <1>22, <1>23, OneMoves

\* A seat is taken, or taken over.
LEMMA EnterInv ==
  ASSUME IInv, NEW p \in Ends, Enter(p) \/ TakeOver(p)
  PROVE  IInv'
<1>1. drops \in 0 .. MaxDrops
  BY DEF IInv, Typed
<1>2. Enters(p) /\ drops' \in 0 .. MaxDrops
  <2>1. CASE Enter(p)
    <3>1. Enters(p) /\ drops' = drops
      BY <2>1 DEF Enter
    <3> QED
      BY <1>1, <3>1
  <2>2. CASE TakeOver(p)
    <3>1. Enters(p) /\ drops < MaxDrops /\ drops' = drops + 1
      BY <2>2 DEF TakeOver
    <3> QED
      BY <1>1, <3>1, BoundsAreNat
  <2> QED
    BY <2>1, <2>2
<1> QED
  BY <1>2, EntersInv

\* One client is in its room alone, and knows it.
LEMMA InitInv == Init => IInv
<1> SUFFICES ASSUME Init
             PROVE  IInv
  OBVIOUS
<1>n. PICK n \in Nat : n = 0
  OBVIOUS
<1>r. PICK r \in BOOLEAN : r = FALSE
  OBVIOUS
<1>1. PICK g : g = Game(n, Nobody, r)
  OBVIOUS
<1>2. PICK h : h = Gone(g)
  OBVIOUS
<1>3. Nobody \in Seats /\ Present \in Seats /\ Present.connected /\ ~Nobody.connected
  BY DEF Seats, Nobody, Present
<1>4. /\ backend \in [Ends -> {"native", "wasm"}]
      /\ seat = [p \in Ends |-> IF p = Low THEN Present ELSE Nobody]
      /\ started = FALSE /\ down = [p \in Ends |-> <<>>]
      /\ end = [p \in Ends |-> IF p = Low THEN g ELSE h]
      /\ drops = 0 /\ failures = 0
  BY <1>n, <1>r, <1>1, <1>2, BuildsAreBackends DEF Init
<1>5. ASSUME NEW b
      PROVE  /\ g \in GamesOf(b) /\ ~g.closed /\ ~g.fatal /\ g.open /\ g.roster = Nobody /\ g.started = FALSE
             /\ g.link.id = 0 /\ g.epoch = 0 /\ g.rebuilds = 0 /\ g.timers = {} /\ g.work = <<>>
             /\ g.up = <<>> /\ g.tries = 0 /\ g.reports = 0 /\ ~g.refused
  <2>1. /\ g \in GamesOf(b) /\ ~g.closed /\ ~g.fatal /\ g.open /\ g.roster = Nobody /\ g.started = r
        /\ g.link.id = 0 /\ g.epoch = n /\ g.rebuilds = 0 /\ g.timers = {} /\ g.work = <<>>
        /\ g.up = <<>> /\ g.tries = 0 /\ g.reports = 0 /\ ~g.refused
    BY <1>1, <1>3, GameMade
  <2> QED
    BY <1>n, <1>r, <2>1
<1>6. ASSUME NEW b
      PROVE  /\ h \in GamesOf(b) /\ h.closed /\ ~h.fatal /\ ~h.open
             /\ h.up = <<>> /\ h.reports = 0 /\ ~h.refused
  <2>1. g.epoch \in Nat
    <3>1. g \in GamesOf(b) /\ g.epoch = 0
      BY <1>5
    <3> QED
      BY <3>1
  <2> QED
    BY <1>2, <2>1, GoneMade
<1>7. Low \in Ends /\ High \in Ends /\ Low # High /\ Other(Low) = High /\ Other(High) = Low
      /\ \A p \in Ends : p = Low \/ p = High
  BY DEF Ends, Low, High, Other
<1>8. Typed
  <2>1. <<>> \in Seq(News)
    OBVIOUS
  <2>2. down \in [Ends -> Seq(News)]
    BY <1>4, <2>1
  <2>3. \A p \in Ends : end[p] \in GamesOf(backend[p])
    BY <1>4, <1>5, <1>6
  <2>4. drops \in 0 .. MaxDrops /\ failures \in 0 .. MaxFailures
    BY <1>4, BoundsAreNat
  <2>5. end = [p \in Ends |-> end[p]]
    BY <1>4
  <2> QED
    BY <1>3, <1>4, <2>2, <2>3, <2>4, <2>5 DEF Typed
<1>9. ToldOf(g, <<>>, Present, Nobody, FALSE)
  <2>1. /\ ~g.closed /\ ~g.fatal /\ g.open /\ g.roster = Nobody /\ g.started = FALSE
        /\ g.up = <<>> /\ g.reports = 0 /\ ~g.refused
    BY <1>5
  <2>2. Caught(g, <<>>, Nobody, FALSE)
    BY <1>3, <2>1, CaughtUp
  <2>3. Warned(g, <<>>)
    BY <2>1 DEF Warned
  <2> QED
    BY <1>3, <2>1, <2>2, <2>3, NothingSent DEF ToldOf
<1>10. ToldOf(h, <<>>, Nobody, Present, FALSE)
  BY <1>3, <1>6, NothingSent DEF ToldOf, Warned
<1>11. Told
  <2>1. ToldOf(end[Low], down[Low], seat[Low], seat[Other(Low)], started)
    BY <1>4, <1>7, <1>9
  <2>2. ToldOf(end[High], down[High], seat[High], seat[Other(High)], started)
    BY <1>4, <1>7, <1>10
  <2> QED
    BY <1>7, <2>1, <2>2, ViewsOf DEF Told
<1>12. Bounded
  <2>1. PICK b : b = backend[Low]
    OBVIOUS
  <2>2. /\ g \in GamesOf(b) /\ g.link.id = 0 /\ g.timers = {} /\ g.work = <<>>
        /\ g.tries = 0 /\ g.rebuilds = 0
    BY <1>5
  <2>3. Dated(b, g) /\ Counted(g)
    BY <2>2, BlankCounts, BoundsAreNat
  <2> QED
    BY <1>4, <1>7, <2>1, <2>3 DEF Bounded
<1> QED
  BY <1>8, <1>11, <1>12 DEF IInv

\* Every step keeps the invariant.
LEMMA NextInv == IInv /\ [Next]_vars => IInv'
<1> SUFFICES ASSUME IInv, [Next]_vars
             PROVE  IInv'
  OBVIOUS
<1>1. CASE Expire
  BY <1>1, ExpireInv
<1>2. ASSUME NEW p \in Ends,
             \/ Relay(p) \/ Cut(p) \/ Crash(p) \/ Enter(p) \/ TakeOver(p) \/ Refuse(p)
             \/ Receives(p) \/ Works(p) \/ Rebuilds(p) \/ Closes(p)
             \/ Gathered(p) \/ Connects(p) \/ Fails(p) \/ Breaks(p)
      PROVE  IInv'
  <2>1. CASE Relay(p) \/ Cut(p) \/ Crash(p) \/ Enter(p) \/ TakeOver(p) \/ Refuse(p)
    BY <2>1, RelayInv, CutInv, CrashInv, EnterInv, RefuseInv
  <2>2. CASE Receives(p)
    BY <2>2, ReceiveInv
  <2>3. CASE Closes(p)
    BY <2>3, CloseInv
  <2>4. CASE \/ Works(p) \/ Rebuilds(p) \/ Gathered(p)
             \/ Connects(p) \/ Fails(p) \/ Breaks(p)
    <3>1. \E f : Minds(p, f)
      BY <2>4, WorkStep, RebuildStep, GatherStep, StateStep DEF IInv
    <3> QED
      BY <3>1, MindsInv
  <2> QED
    BY <1>2, <2>1, <2>2, <2>3, <2>4
<1>3. CASE UNCHANGED vars
  <2>1. Typed'
    BY <1>3 DEF vars, IInv, Typed
  <2>2. Told'
    BY <1>3 DEF vars, IInv, Told
  <2>3. Bounded'
    BY <1>3 DEF vars, IInv, Bounded
  <2> QED
    BY <2>1, <2>2, <2>3 DEF IInv
<1> QED
  BY <1>1, <1>2, <1>3 DEF Next

\* Both clients, whatever backend each runs, keep the inductive invariant.
THEOREM Invariant == Spec => []IInv
BY InitInv, NextInv, PTL DEF Spec

----------------------------------------------------------------------------
(* What follows for a client *)

\* The state of both clients, of the relay and of the queues has its type,
\* whichever of the two backends each client runs.
THEOREM TypeCorrect == Spec => []TypeOK
<1>1. IInv => TypeOK
  <2> SUFFICES ASSUME IInv
               PROVE  TypeOK
    OBVIOUS
  <2>1. Typed
    BY DEF IInv
  <2>2. News \subseteq Messages
    BY DEF News, Messages, Signals, Numbers, Seats
  <2>3. Requests \subseteq Messages
    BY DEF Requests, Messages, Signals, Numbers
  <2>4. Seq(News) \subseteq Seq(Messages) /\ Seq(Requests) \subseteq Seq(Messages)
    BY <2>2, <2>3
  <2>5. ASSUME NEW p \in Ends
        PROVE  end[p] \in Games
    <3>1. PICK b \in {"native", "wasm"} : b = backend[p]
      BY <2>1, <2>5 DEF Typed
    <3>2. PICK e \in GamesOf(b) : e = end[p]
      BY <2>1, <2>5, <3>1 DEF Typed
    <3>3. Items(b) \subseteq WorkItems
      BY DEF Items, WorkItems, Numbers
    <3>4. Seq(Items(b)) \subseteq Seq(WorkItems)
      BY <3>3
    <3>5. SoundLinks \subseteq Links
      BY DEF SoundLinks
    <3>6. GamesOf(b) \subseteq Games
      BY <2>4, <3>4, <3>5 DEF GamesOf, Games
    <3> QED
      BY <3>2, <3>6
  <2>6. down \in [Ends -> Seq(Messages)]
    BY <2>1, <2>4 DEF Typed
  <2>7. end \in [Ends -> Games]
    <3>1. end = [p \in Ends |-> end[p]]
      BY <2>1 DEF Typed
    <3> QED
      BY <2>5, <3>1
  <2> QED
    BY <2>1, <2>6, <2>7 DEF Typed, TypeOK
<1> QED
  BY <1>1, Invariant, PTL

\* A client that keeps its room is told of the loss of its signaling exactly
\* once: an error message and the end of the socket that follows it are not
\* both reported, and neither is lost (on_server_message and
\* on_signaling_closed of actor.rs, wasm/mod.rs).
THEOREM LossOnce == Spec => []LossReportedOnce
<1>1. IInv => LossReportedOnce
  <2> SUFFICES ASSUME IInv, NEW p \in Ends
               PROVE  /\ end[p].reports = IF end[p].fatal THEN 1 ELSE 0
                      /\ ~end[p].closed /\ ~end[p].open /\ down[p] = <<>> => end[p].fatal
    BY DEF LossReportedOnce
  <2>1. Warned(end[p], down[p])
    BY DEF IInv, Told, ToldOf
  <2> QED
    BY <2>1 DEF Warned
<1> QED
  BY <1>1, Invariant, PTL

\* A client that has read all the server sent it has the server's view of the
\* other player and of the start of the room, whatever was cut, crashed, closed,
\* taken over or expired before; only when the last to retake the other seat
\* refused its joined message it may hold that player for connected, who is away
\* (deliverJoinedLocked sends no player-left).
THEOREM RosterSynced == Spec => []RosterInSync
<1>1. IInv => RosterInSync
  <2> SUFFICES ASSUME IInv, NEW p \in Ends, ~end[p].closed, end[p].open, down[p] = <<>>
               PROVE  /\ end[p].started = started
                      /\ \/ end[p].roster = seat[Other(p)]
                         \/ /\ end[Other(p)].refused
                            /\ end[p].roster = Present /\ seat[Other(p)] = Away
    BY DEF RosterInSync
  <2>1. PICK o \in Views(end[Other(p)], seat[Other(p)]) :
          ToldOf(end[p], <<>>, seat[p], o, started)
    BY TheTold DEF IInv
  <2>2. Caught(end[p], <<>>, o, started)
    BY <2>1 DEF ToldOf
  <2>3. end[p].started \in BOOLEAN /\ started \in BOOLEAN
    BY DEF IInv, Typed, GamesOf
  <2>4. end[p].roster = o /\ end[p].started = started
    BY <2>2, <2>3, CaughtAll
  <2> QED
    BY <2>1, <2>4 DEF Views
<1> QED
  BY <1>1, Invariant, PTL

\* No remote candidate is handed to WebRTC before the remote description: both
\* backends hold back what comes early and flush it once (add_ice_candidate).
THEOREM CandidatesHeldBack == Spec => []CandidatesAfterDescription
<1>1. IInv => CandidatesAfterDescription
  <2> SUFFICES ASSUME IInv, NEW p \in Ends
               PROVE  ~end[p].link.early
    BY DEF CandidatesAfterDescription
  <2>1. end[p].link \in SoundLinks
    BY DEF IInv, Typed, GamesOf
  <2> QED
    BY <2>1 DEF SoundLinks
<1> QED
  BY <1>1, Invariant, PTL

\* A player who cannot be reached is offered a connection once and then at most
\* MAX_PEER_REBUILDS times, until a connection or news of the player: a late
\* timer or callback of an older link never adds a try (maybe_rebuild).
THEOREM TriesBounded == Spec => []RebuildsBounded
<1>1. IInv => RebuildsBounded
  BY DEF IInv, Bounded, Counted, RebuildsBounded
<1> QED
  BY <1>1, Invariant, PTL
=============================================================================
