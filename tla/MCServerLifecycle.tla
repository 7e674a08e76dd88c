------------------------- MODULE MCServerLifecycle -------------------------
(***************************************************************************)
(* Small instances of ServerLifecycle.                                     *)
(***************************************************************************)
EXTENDS ServerLifecycle, TLC

CONSTANTS a, b, stranger    \* server names; no entry is called stranger

MCNames == {a, b, stranger}
MCName == <<a, b>>
MCClass == <<GenericServer, VanillaServer>>

Symmetry == Permutations(Pids)
=============================================================================
