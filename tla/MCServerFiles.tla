--------------------------- MODULE MCServerFiles ---------------------------
(* An instance of ServerFiles for TLC: two Vanilla servers whose jars have    *)
(* the same name in directories of their own, and a server of another class  *)
(* that shares the first one's directory and jar.                            *)
EXTENDS ServerFiles

CONSTANTS rootDir, dirA, dirB, jar, v1, v2

MCDirs == {rootDir, dirA, dirB}
MCPath == <<dirA, dirB, dirA>>
MCJarNames == {jar}
MCJar == <<jar, jar, jar>>
MCUpdatable == {1, 2}
MCVersions == {v1, v2}
MCInstalled == <<v1, v2, v1>>

NoFaults == {}
AllFaults == {"exit", "download"}
=============================================================================
