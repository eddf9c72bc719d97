----------------------------- MODULE Identities -----------------------------
(***************************************************************************)
(* What the server's tables are keyed by.  An account stands for the       *)
(* account id and the persistent player id of its player, which the        *)
(* database assigns together.                                              *)
(***************************************************************************)

CONSTANTS
    Endpoint,    \* address and port of a client
    Account,
    Room
=============================================================================
