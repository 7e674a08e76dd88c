------------------------------ MODULE MCDaemon ------------------------------
(***************************************************************************)
(* A small instance of Daemon, in which a server is called "error".        *)
(***************************************************************************)
EXTENDS Daemon

CONSTANT a      \* a server name

MCNames == {a, "error"}
MCName == <<a, "error">>
MCClass == <<BungeeCordServer, GenericServer>>
=============================================================================
