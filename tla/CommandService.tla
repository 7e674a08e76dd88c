--------------------------- MODULE CommandService ---------------------------
(***************************************************************************)
(* What the control interface promises a client, without sockets: a client *)
(* asks once; what it asked for is done at most once, and only then is it  *)
(* told so.  A request may stay undone or unanswered for ever.             *)
(***************************************************************************)
CONSTANT Clients

VARIABLE status

Init == status = [c \in Clients |-> "silent"]

Move(c, from, to) ==
    status[c] = from /\ status' = [status EXCEPT ![c] = to]

Ask(c)     == Move(c, "silent", "asked")
Execute(c) == Move(c, "asked", "executed")
Answer(c)  == Move(c, "executed", "answered")

Next == \E c \in Clients : Ask(c) \/ Execute(c) \/ Answer(c)

Spec == Init /\ [][Next]_status
=============================================================================
