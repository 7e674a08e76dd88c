--------------------------- MODULE ServerRegistry ---------------------------
(***************************************************************************)
(* What the daemon promises of the servers it runs, without commands,      *)
(* pids, pipes or signals.  A server is down, up, or told to stop.  One    *)
(* that is told goes down before it can be up again; nobody is told while  *)
(* somebody else is; a server that is not down is not started.  Servers    *)
(* may go down unasked, and a daemon that ends forgets them all at once.   *)
(***************************************************************************)
CONSTANT Servers

VARIABLE status

Init == status = [s \in Servers |-> "down"]

Start(s) ==
    /\ status[s] = "down"
    /\ status' = [status EXCEPT ![s] = "up"]

Tell(s) ==
    /\ status[s] = "up"
    /\ \A t \in Servers : status[t] # "told"
    /\ status' = [status EXCEPT ![s] = "told"]

GoDown(s) ==
    /\ status[s] # "down"
    /\ status' = [status EXCEPT ![s] = "down"]

Forget == status' = [s \in Servers |-> "down"]

Next == Forget \/ \E s \in Servers : Start(s) \/ Tell(s) \/ GoDown(s)

Spec == Init /\ [][Next]_status
=============================================================================
