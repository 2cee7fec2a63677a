------------------------------ MODULE MCLobby ------------------------------
(***************************************************************************)
(* Instances of Lobby for TLC.                                             *)
(***************************************************************************)
EXTENDS Lobby, TLC

CONSTANTS c1, c2, c3, r1, r2, r3, k1, k2, k3

Options(n, full, late, reconnect, claims, after) ==
  [maxPlayers |-> n, waitUntilFull |-> full, allowLateJoin |-> late,
   allowReconnect |-> reconnect, allowReplacement |-> TRUE,
   policyAllowsClaim |-> claims, claimAfter |-> after]

\* Two players, the defaults of ResolveCreate with a claim timer of one tick.
Default == {Options(2, FALSE, TRUE, TRUE, TRUE, 1)}

\* Wait until full and then no late join; no reconnection and no claims.
Policies ==
  {Options(2, TRUE, FALSE, TRUE, TRUE, 2),
   Options(2, FALSE, FALSE, FALSE, FALSE, 1)}

Symmetric == Permutations(Conns) \cup Permutations(Rooms) \cup Permutations(Codes)
=============================================================================
