------------------------------- MODULE Tables -------------------------------
(***************************************************************************)
(* The associative containers of the server (std::unordered_map and        *)
(* std::map) as functions whose domain is the set of the keys they hold.   *)
(***************************************************************************)
EXTENDS Functions

EmptyTable == [key \in {} |-> key]

\* insert_or_assign
Put(table, key, value) ==
    [k \in DOMAIN table \cup {key} |-> IF k = key THEN value ELSE table[k]]

\* erase, of every key in keys
Drop(table, keys) == Restrict(table, DOMAIN table \ keys)
=============================================================================
