------------------------- MODULE NotificationStream -------------------------
(***************************************************************************)
(* What Client.Notifications promises its callers, with no goroutine, no   *)
(* raw channel and no decryption: a bounded queue for each call that the   *)
(* notifications of one session enter and leave in order, that loses none  *)
(* unless its context is cancelled, and that is closed only when it is     *)
(* cancelled or its source has ended, and always once it is cancelled.     *)
(*                                                                         *)
(* Notifications implements this module                                    *)
(* (Notifications!ImplementsNotificationStream).                           *)
(***************************************************************************)
EXTENDS Integers, Sequences

CONSTANTS
    Calls,      \* calls of Notifications
    Cap,        \* how many notifications may be under way
    Packets     \* notifications

VARIABLES
    phase,      \* of each call: asked, open, released or closed
    cancelled,  \* calls whose context is cancelled
    ended,      \* calls whose source has ended
    queue       \* notifications under way to each caller

nsVars == <<phase, cancelled, ended, queue>>

Init ==
    /\ phase = [c \in Calls |-> "asked"]
    /\ cancelled = {}
    /\ ended = {}
    /\ queue = [c \in Calls |-> << >>]

\* One subscription at a time.
Open(c) ==
    /\ phase[c] = "asked"
    /\ \A d \in Calls : phase[d] # "open"
    /\ phase' = [phase EXCEPT ![c] = "open"]
    /\ UNCHANGED <<cancelled, ended, queue>>

\* An error is returned and there is no stream.
Fail(c) ==
    /\ phase[c] = "asked"
    /\ phase' = [phase EXCEPT ![c] = "closed"]
    /\ UNCHANGED <<cancelled, ended, queue>>

Enter(c) ==
    /\ phase[c] = "open"
    /\ c \notin ended
    /\ Len(queue[c]) < Cap
    /\ \E pkt \in Packets : queue' = [queue EXCEPT ![c] = Append(@, pkt)]
    /\ UNCHANGED <<phase, cancelled, ended>>

\* The caller can drain a closed channel.
Leave(c) ==
    /\ queue[c] # << >>
    /\ queue' = [queue EXCEPT ![c] = Tail(@)]
    /\ UNCHANGED <<phase, cancelled, ended>>

\* The last ones may be lost, but only after a cancellation.
Lose(c) ==
    /\ c \in cancelled
    /\ \E n \in 0 .. Len(queue[c]) : queue' = [queue EXCEPT ![c] = SubSeq(@, 1, n)]
    /\ UNCHANGED <<phase, cancelled, ended>>

\* Another call may open its stream from here on.
Release(c) ==
    /\ phase[c] = "open"
    /\ c \in cancelled \union ended
    /\ phase' = [phase EXCEPT ![c] = "released"]
    /\ UNCHANGED <<cancelled, ended, queue>>

Close(c) ==
    /\ phase[c] = "released"
    /\ phase' = [phase EXCEPT ![c] = "closed"]
    /\ UNCHANGED <<cancelled, ended, queue>>

Cancel(c) ==
    /\ cancelled' = cancelled \union {c}
    /\ UNCHANGED <<phase, ended, queue>>

End(c) ==
    /\ ended' = ended \union {c}
    /\ UNCHANGED <<phase, cancelled, queue>>

Next ==
    \E c \in Calls :
        \/ Open(c) \/ Fail(c) \/ Release(c) \/ Close(c)
        \/ Enter(c) \/ Leave(c) \/ Lose(c)
        \/ Cancel(c) \/ End(c)

SafeSpec == Init /\ [][Next]_nsVars

Spec == SafeSpec /\ \A c \in Calls : c \in cancelled ~> phase[c] = "closed"

=============================================================================
