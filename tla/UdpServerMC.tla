----------------------------- MODULE UdpServerMC ----------------------------
(***************************************************************************)
(* Two endpoints, two accounts and two rooms: enough for a peer to leave   *)
(* one room for another, to recover at another endpoint, and to find its   *)
(* old endpoint taken by the other account.                                *)
(***************************************************************************)
EXTENDS UdpServer, TLC

CONSTANTS e1, e2, alice, bob, lobby, arena, w1

Endpoints == {e1, e2}
Accounts == {alice, bob}
Rooms == {lobby, arena}
Workers == {w1}

Symmetry == Permutations(Endpoints) \cup Permutations(Accounts)
=============================================================================
