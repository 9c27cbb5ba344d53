---------------------------- MODULE TinygoNotify ----------------------------
(***************************************************************************)
(* The notification path on every other platform: tinygoCharIO.subscribe   *)
(* of ble/chario_tinygo.go.  The BLE stack calls a function back on its    *)
(* own thread for each notification; a goroutine closes the channel when   *)
(* the context is cancelled.  Nothing unregisters the callback, and a send *)
(* on a closed channel panics, also from a select with a default.          *)
(* BleTransport composes this module with the Transport.                   *)
(***************************************************************************)
EXTENDS Integers, Sequences

CONSTANTS
    Cap,        \* capacity of the channel (64)
    Packets,    \* notifications
    Threads     \* callbacks of the BLE stack that may run at once

VARIABLES
    pc,         \* subscribe: "subscribe", "failed" or "subscribed"
    copied,     \* the packet each callback copied, << >> outside a callback
    ctxDone,    \* the context is cancelled
    ch,         \* the channel handed to the caller
    closed,     \* it is closed
    panicked    \* a callback sent on the closed channel: the program is gone

vars == <<pc, copied, ctxDone, ch, closed, panicked>>

-----------------------------------------------------------------------------
TypeOK ==
    /\ pc \in {"subscribe", "failed", "subscribed"}
    /\ copied \in [Threads -> {<< >>} \union {<<pkt>> : pkt \in Packets}]
    /\ ctxDone \in BOOLEAN
    /\ ch \in Seq(Packets) /\ Len(ch) <= Cap
    /\ closed \in BOOLEAN
    /\ panicked \in BOOLEAN

Init ==
    /\ pc = "subscribe"
    /\ copied = [t \in Threads |-> << >>]
    /\ ctxDone = FALSE
    /\ ch = << >>
    /\ closed = FALSE
    /\ panicked = FALSE

-----------------------------------------------------------------------------
\* EnableNotifications returns; the goroutine that will close ch starts.
Enabled ==
    /\ pc = "subscribe"
    /\ pc' = "subscribed"
    /\ UNCHANGED <<copied, ctxDone, ch, closed, panicked>>

EnableFails ==
    /\ pc = "subscribe"
    /\ pc' = "failed"
    /\ UNCHANGED <<copied, ctxDone, ch, closed, panicked>>

\* The callback starts and copies the notification: it is registered inside
\* EnableNotifications, which may be still to return.
CallbackCopies(t) ==
    /\ pc \in {"subscribe", "subscribed"}
    /\ copied[t] = << >>
    /\ \E pkt \in Packets : copied' = [copied EXCEPT ![t] = <<pkt>>]
    /\ UNCHANGED <<pc, ctxDone, ch, closed, panicked>>

CallbackReturns(t) ==
    /\ copied[t] # << >>
    /\ copied' = [copied EXCEPT ![t] = << >>]

\* Variant for the mutants: the queue has no bound.
AlwaysRoom == TRUE

HasRoom == Len(ch) < Cap

\* The select of the callback: room, or default.
CallbackSends(t) ==
    /\ CallbackReturns(t)
    /\ ~closed
    /\ HasRoom
    /\ ch' = ch \o copied[t]
    /\ UNCHANGED <<pc, ctxDone, closed, panicked>>

CallbackDrops(t) ==
    /\ CallbackReturns(t)
    /\ ~closed
    /\ ~HasRoom
    /\ UNCHANGED <<pc, ctxDone, ch, closed, panicked>>

CallbackPanics(t) ==
    /\ CallbackReturns(t)
    /\ closed
    /\ panicked' = TRUE
    /\ UNCHANGED <<pc, ctxDone, ch, closed>>

\* The closing goroutine: <-ctx.Done(), then close(ch).
CloserCloses ==
    /\ pc = "subscribed"
    /\ ctxDone
    /\ ~closed
    /\ closed' = TRUE
    /\ UNCHANGED <<pc, copied, ctxDone, ch, panicked>>

Receive ==
    /\ ch # << >>
    /\ ch' = Tail(ch)
    /\ UNCHANGED <<pc, copied, ctxDone, closed, panicked>>

Cancel ==
    /\ ~ctxDone
    /\ ctxDone' = TRUE
    /\ UNCHANGED <<pc, copied, ch, closed, panicked>>

-----------------------------------------------------------------------------
Opening == Enabled \/ EnableFails

Callback(t) ==
    \/ CallbackCopies(t)
    \/ CallbackSends(t)
    \/ CallbackDrops(t)
    \/ CallbackPanics(t)

Callbacks == \E t \in Threads : Callback(t)

=============================================================================
