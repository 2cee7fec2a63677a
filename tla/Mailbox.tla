------------------------------ MODULE Mailbox ------------------------------
(***************************************************************************)
(* What send_reliable promises about the messages of one player to one     *)
(* other: they are received once at most, whole and in the order they were *)
(* sent, and a message whose send failed is not received, not even later.  *)
(***************************************************************************)
EXTENDS Naturals, Sequences

CONSTANT Messages   \* the messages are 1 .. Messages, in the order of the calls

VARIABLES
  outcome,    \* of each call: "none" yet, "ok" or "failed"
  received    \* the messages the receiver was given, in order

Last == IF received = <<>> THEN 0 ELSE received[Len(received)]

Init ==
  /\ outcome = [m \in 1 .. Messages |-> "none"]
  /\ received = <<>>

Receive(m) ==
  /\ m > Last /\ outcome[m] # "failed"
  /\ received' = Append(received, m)

\* Some calls return, the failed ones for good.
Return ==
  /\ \A m \in 1 .. Messages :
       outcome'[m] # outcome[m] =>
         /\ outcome[m] = "none"
         /\ outcome'[m] = "failed" => \A i \in 1 .. Len(received) : received[i] # m
  /\ outcome' \in [1 .. Messages -> {"none", "ok", "failed"}]

Next ==
  \/ Return /\ UNCHANGED received
  \/ \E m \in 1 .. Messages : Receive(m) /\ UNCHANGED outcome

Spec == Init /\ [][Next]_<<outcome, received>>
=============================================================================
