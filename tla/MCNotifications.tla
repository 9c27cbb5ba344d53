-------------------------- MODULE MCNotifications ---------------------------
(* The way of a notification for TLC: the stream of the Client or, below   *)
(* it, the Transport with its notification path.                           *)
EXTENDS Notifications, BleTransport

CONSTANTS c1, c2, w1, w2, t1, t2

VARIABLE part   \* which of the two runs

MCCalls == {c1, c2}
MCWriters == {w1, w2}
MCThreads == {t1, t2}
MCHandles == {14, 15}

MCInit ==
    /\ part \in {"client", "transport"}
    /\ Init
    /\ BleInit
    /\ part = "client" => platform = "linux"

MCNext ==
    /\ UNCHANGED part
    /\ \/ part = "client" /\ Next /\ UNCHANGED bleVars
       \/ part = "transport" /\ BleNext /\ UNCHANGED vars

\* Nothing that Notifications is fair to can happen before its first call.
MCSpec ==
    /\ MCInit
    /\ [][MCNext]_<<part, vars, bleVars>>
    /\ Fairness
    /\ WF_bleVars(part = "transport" /\ PathProceeds)

=============================================================================
