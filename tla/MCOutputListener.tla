-------------------------- MODULE MCOutputListener --------------------------
(***************************************************************************)
(* Small instances of OutputListener.                                      *)
(***************************************************************************)
EXTENDS OutputListener
=============================================================================
