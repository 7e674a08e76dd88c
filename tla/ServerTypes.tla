---------------------------- MODULE ServerTypes ----------------------------
(***************************************************************************)
(* The server classes.  The daemon keeps a vector of Server*, and the six  *)
(* derived classes override the same virtual functions with bodies of the  *)
(* same shape.  A class is the record of the points where the bodies       *)
(* differ; the actions of the other modules are written once, over it.     *)
(*                                                                         *)
(*   type       what getServerType() answers                               *)
(*   countdown  stopServer() warns the players and counts down before it   *)
(*              writes the stop command (BungeeCord writes "end" at once)  *)
(*   updates    updateServer() does something                              *)
(*   worlds     the constructor fills worldsToBackup                       *)
(*   list       how listOnlinePlayers() ends: "throws" when it initialises *)
(*              a std::string from a null character constant, "undefined"  *)
(*              when the body has no return statement                      *)
(***************************************************************************)

\* A class whose stopServer() counts down and whose listOnlinePlayers() throws.
GameServer(type, updates) ==
    [type |-> type, countdown |-> TRUE, updates |-> updates,
     worlds |-> TRUE, list |-> "throws"]

VanillaServer == GameServer("VANILLA", TRUE)
BukkitServer  == GameServer("BUKKIT", FALSE)
SpigotServer  == GameServer("SPIGOT", FALSE)

BungeeCordServer ==
    [type |-> "BUNGEECORD", countdown |-> FALSE, updates |-> FALSE,
     worlds |-> FALSE, list |-> "throws"]

GenericServer == [GameServer("GENERIC", FALSE) EXCEPT !.list = "undefined"]
ForgeServer   == [GameServer("FORGE", FALSE)   EXCEPT !.list = "undefined"]

ServerClasses ==
    {VanillaServer, BukkitServer, SpigotServer, BungeeCordServer,
     GenericServer, ForgeServer}
=============================================================================
