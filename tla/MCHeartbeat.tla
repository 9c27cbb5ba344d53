---------------------------- MODULE MCHeartbeat -----------------------------
(* The keepalive for TLC: the goroutines of Heartbeat or, by the clock,    *)
(* the loop and the node of Keepalive.                                     *)
EXTENDS Heartbeat, Keepalive

CONSTANTS p1, p2, p3

VARIABLE part   \* which of the two runs

MCProcs == {p1, p2, p3}

MCInit ==
    /\ part \in {"goroutines", "clock"}
    /\ Init
    /\ ClockInit

MCNext ==
    /\ UNCHANGED part
    /\ \/ part = "goroutines" /\ Next /\ UNCHANGED clockVars
       \/ part = "clock" /\ ClockNext /\ UNCHANGED vars

\* Nothing that Heartbeat is fair to can happen before its first call.
MCSpec ==
    /\ MCInit
    /\ [][MCNext]_<<part, vars, clockVars>>
    /\ Running
    /\ \A b \in Beats : WF_vars(ReadInterrupted(b))
=============================================================================
