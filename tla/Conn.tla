-------------------------------- MODULE Conn --------------------------------
(***************************************************************************)
(* lobby.Conn, src/internal/lobby/lobby.go: what the lobby relies on of a  *)
(* transport, and what Lobby assumes of it.  Each step is what a whole     *)
(* operation under a room's lock sees of one transport.                    *)
(***************************************************************************)
EXTENDS Naturals

VARIABLES
  state,      \* "open", "shut", or "off" once its reader has reported the end
  sess,       \* its reader has a session
  attached,   \* the slot of that session holds it
  taken       \* how many messages of rooms it has accepted

Init == state = "open" /\ sess = FALSE /\ attached = FALSE /\ taken = 0

\* A room has something to tell it: it is attached, or this is the joined
\* message of a reader without a session.
Addressed == state # "off" /\ (sess => attached)

\* Enqueue returns true; the transport's own goroutines may shut it meanwhile.
Accept ==
  /\ Addressed /\ state = "open"
  /\ taken' = taken + 1
  /\ sess' = TRUE /\ attached' = TRUE
  /\ state' \in {"open", "shut"}

\* A message is refused, or the lobby kicks the transport: it is detached and
\* shut, and only its reader still believes in the session.
Lose ==
  /\ Addressed
  /\ sess' = TRUE /\ attached' = FALSE /\ state' = "shut"
  /\ UNCHANGED taken

\* The transport gives up by itself; the lobby does not know yet.
Shut ==
  /\ state = "open"
  /\ state' = "shut"
  /\ UNCHANGED <<sess, attached, taken>>

Leave ==
  /\ sess
  /\ sess' = FALSE /\ attached' = FALSE
  /\ UNCHANGED <<state, taken>>

\* The reader reports the end, and the transport is detached if it was not.
End ==
  /\ state # "off"
  /\ state' = "off" /\ sess' = FALSE /\ attached' = FALSE
  /\ UNCHANGED taken

Next == Accept \/ Lose \/ Shut \/ Leave \/ End

Spec == Init /\ [][Next]_<<state, sess, attached, taken>>
=============================================================================
