----------------------------- MODULE RawChannel -----------------------------
(***************************************************************************)
(* What charIO.subscribe promises its caller (ble/types.go,                *)
(* Transport.SubscribeNotify): a bounded channel that notifications enter  *)
(* without blocking the BLE stack, and that is closed once the context is  *)
(* cancelled.  A notification that finds the channel full is dropped.      *)
(*                                                                         *)
(* HCIReader and TinygoNotify are the two implementations.                 *)
(***************************************************************************)
EXTENDS Integers, Sequences

CONSTANTS
    Cap,        \* capacity of the channel (64)
    Packets     \* notifications

VARIABLES
    ctxDone,    \* the context is cancelled
    offered,    \* the caller has the channel
    ch,         \* packets in the channel
    closed      \* the channel is closed

rcVars == <<ctxDone, offered, ch, closed>>

Init ==
    /\ ctxDone = FALSE
    /\ offered = FALSE
    /\ ch = << >>
    /\ closed = FALSE

Cancel ==
    /\ ctxDone' = TRUE
    /\ UNCHANGED <<offered, ch, closed>>

Offer ==
    /\ ~offered
    /\ ~closed
    /\ offered' = TRUE
    /\ UNCHANGED <<ctxDone, ch, closed>>

\* An error instead of a channel: there is nothing to close or to receive.
Fail ==
    /\ ~offered
    /\ closed' = TRUE
    /\ ch' = << >>
    /\ UNCHANGED <<ctxDone, offered>>

\* Never into a closed channel; the source may be ahead of the caller.
Put ==
    /\ ~closed
    /\ Len(ch) < Cap
    /\ \E pkt \in Packets : ch' = Append(ch, pkt)
    /\ UNCHANGED <<ctxDone, offered, closed>>

\* The receiver can drain a closed channel.
Take ==
    /\ offered
    /\ ch # << >>
    /\ ch' = Tail(ch)
    /\ UNCHANGED <<ctxDone, offered, closed>>

\* Also before the cancellation, when the link breaks.
End ==
    /\ offered
    /\ closed' = TRUE
    /\ UNCHANGED <<ctxDone, offered, ch>>

Next == Cancel \/ Offer \/ Fail \/ Put \/ Take \/ End

SafeSpec == Init /\ [][Next]_rcVars

Spec == SafeSpec /\ (ctxDone ~> closed)

=============================================================================
