----------------------------- MODULE ScanTinygo -----------------------------
(***************************************************************************)
(* tinygoAdapter.scan of ble/scanner_tinygo.go.  One goroutine runs the    *)
(* BLE stack's Scan, which calls a function back for each advertisement;   *)
(* another waits for the cancellation, or for Scan to return, and closes   *)
(* the channel.  Nothing makes the second wait for a callback that is in   *)
(* progress, and a send on a closed channel panics.                        *)
(* Scan composes this module with ScanLinux.                               *)
(***************************************************************************)
EXTENDS Integers, Sequences

CONSTANTS
    Devices,    \* devices whose advertisements pass the filter
    OutCap,     \* capacity of ch (16)
    Threads     \* callbacks of the BLE stack that may run at once

VARIABLES
    stack,      \* bt.Scan: "called", "scanning" or "over"
    closer,     \* the closing goroutine: "select", "close" or "exited"
    found,      \* the device each callback reports, if any
    panicked,   \* a callback sent on the closed channel: the program is gone
    out, closed,    \* the channel handed to the caller
    ctxDone         \* the context is cancelled

-----------------------------------------------------------------------------
TypeOK ==
    /\ stack \in {"called", "scanning", "over"}
    /\ closer \in {"select", "close", "exited"}
    /\ found \in [Threads -> SUBSET Devices]
    /\ \A t \in Threads : \A d, e \in found[t] : d = e
    /\ panicked \in BOOLEAN
    /\ out \in Seq(Devices) /\ Len(out) <= OutCap
    /\ {closed, ctxDone} \subseteq BOOLEAN

Init ==
    /\ stack = "called"
    /\ closer = "select"
    /\ found = [t \in Threads |-> {}]
    /\ panicked = FALSE

-----------------------------------------------------------------------------
(* The goroutine of bt.Scan and its callback                               *)

ScanBegins ==
    /\ stack = "called"
    /\ stack' = "scanning"
    /\ UNCHANGED <<closer, found, panicked, out, closed, ctxDone>>

\* bt.Scan returns an error at once, or during the scan, to errCh.
ScanFails ==
    /\ stack # "over"
    /\ stack' = "over"
    /\ UNCHANGED <<closer, found, panicked, out, closed, ctxDone>>

\* An advertisement passes parseTinygoScanResult.
CallbackBegins(t) ==
    /\ stack = "scanning"
    /\ found[t] = {}
    /\ \E d \in Devices : found' = [found EXCEPT ![t] = {d}]
    /\ UNCHANGED <<stack, closer, panicked, out, closed, ctxDone>>

CallbackReturns(t) ==
    /\ found[t] # {}
    /\ found' = [found EXCEPT ![t] = {}]
    /\ UNCHANGED <<stack, closer, closed, ctxDone>>

\* The select of the callback: the result, or the cancellation.
CallbackSends(t) ==
    /\ CallbackReturns(t)
    /\ ~closed
    /\ Len(out) < OutCap
    /\ \E d \in found[t] : out' = Append(out, d)
    /\ UNCHANGED panicked

CallbackGivesUp(t) ==
    /\ CallbackReturns(t)
    /\ ctxDone
    /\ UNCHANGED <<out, panicked>>

CallbackPanics(t) ==
    /\ CallbackReturns(t)
    /\ closed
    /\ panicked' = TRUE
    /\ UNCHANGED out

-----------------------------------------------------------------------------
(* The closing goroutine                                                   *)

\* StopScan ends a scan.  One that comes before bt.Scan has begun finds
\* nothing to stop, and its error is ignored.
StopAndLeave ==
    /\ closer = "select"
    /\ ctxDone
    /\ closer' = "close"
    /\ stack' = IF stack = "scanning" THEN "over" ELSE stack
    /\ UNCHANGED <<found, panicked, out, closed, ctxDone>>

LeaveOnError ==
    /\ closer = "select"
    /\ stack = "over"
    /\ closer' = "close"
    /\ UNCHANGED <<stack, found, panicked, out, closed, ctxDone>>

CloseChannel ==
    /\ closer = "close"
    /\ closer' = "exited"
    /\ closed' = TRUE
    /\ UNCHANGED <<stack, found, panicked, out, ctxDone>>

\* Adapter.StopScan: bt.Scan returns, and the channel is closed.
StopScan ==
    /\ stack = "scanning"
    /\ stack' = "over"
    /\ UNCHANGED <<closer, found, panicked, out, closed, ctxDone>>

-----------------------------------------------------------------------------
Stack ==
    \/ ScanBegins
    \/ ScanFails
    \/ \E t \in Threads :
        CallbackBegins(t) \/ CallbackSends(t) \/ CallbackGivesUp(t) \/ CallbackPanics(t)

Closer == StopAndLeave \/ LeaveOnError \/ CloseChannel

=============================================================================
