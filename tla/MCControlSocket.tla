-------------------------- MODULE MCControlSocket --------------------------
(***************************************************************************)
(* Small instances of ControlSocket.                                       *)
(***************************************************************************)
EXTENDS ControlSocket, TLC

Everything == DOMAIN CommandOf

Symmetry == Permutations(Clients)
=============================================================================
