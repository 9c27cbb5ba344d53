---------------------------- MODULE BleTransport ----------------------------
(***************************************************************************)
(* The Transport of ble/transport.go over one connection.  WritePair and   *)
(* WriteCommand hold its mutex.  SubscribeNotify starts the notification   *)
(* path of the platform the program was built for, HCIReader on Linux and  *)
(* TinygoNotify elsewhere, and then arms the node's notify pump with a     *)
(* write of its own (the kick), outside the mutex.                         *)
(***************************************************************************)
EXTENDS Integers, Sequences

CONSTANTS
    Writers,    \* goroutines that write
    Cap,        \* capacity of the channel of notifications (64)
    SockCap,    \* bound: frames queued in the HCI socket
    Handles,    \* attribute handles in use
    OurHandle,  \* the value handle of CHAR_NOTIFY
    Threads     \* callbacks of the tinygo stack that may run at once

ASSUME BleTransportAssumption ==
    /\ Cap \in Nat
    /\ SockCap \in Nat
    /\ OurHandle \in Handles

VARIABLES
    platform,   \* what the program was built for
    onLink,     \* goroutines that hold Transport.mu, their write on the link
    notify,     \* where SubscribeNotify is
    pc, cancelled, ch, closed,    \* the notification path
    sock, fdOpen, buf,          \* ...of HCIReader
    copied, panicked            \* ...of TinygoNotify

transportVars == <<onLink, notify>>
linuxVars == <<sock, fdOpen, buf>>
tinygoVars == <<copied, panicked>>
bleVars == <<platform, transportVars, pc, cancelled, ch, closed, linuxVars, tinygoVars>>

Linux == INSTANCE HCIReader WITH ctxDone <- cancelled

\* Notifications of the subscribed handle.
Ours == {f \in Linux!Frames : f.kind = "ntf" /\ f.handle = OurHandle}

Tinygo == INSTANCE TinygoNotify WITH Packets <- Ours, ctxDone <- cancelled

-----------------------------------------------------------------------------
BleTypeOK ==
    /\ platform \in {"linux", "other"}
    /\ onLink \subseteq Writers
    /\ notify \in {"subscribe", "kick", "given", "failed"}
    /\ IF platform = "linux" THEN Linux!TypeOK ELSE Tinygo!TypeOK

BleInit ==
    /\ platform \in {"linux", "other"}
    /\ onLink = {}
    /\ notify = "subscribe"
    /\ Linux!Init
    /\ Tinygo!Init

-----------------------------------------------------------------------------
(* WritePair and WriteCommand                                              *)

WriteBegins(w) ==
    /\ onLink = {}
    /\ onLink' = {w}

\* The write returns, with an error or without; the deferred Unlock.
WriteReturns(w) ==
    /\ w \in onLink
    /\ onLink' = onLink \ {w}

Write ==
    /\ \E w \in Writers : WriteBegins(w) \/ WriteReturns(w)
    /\ UNCHANGED <<platform, notify, pc, cancelled, ch, closed, linuxVars, tinygoVars>>

-----------------------------------------------------------------------------
(* SubscribeNotify                                                         *)

\* charNotify.subscribe returned an error.
SubscribeErr ==
    /\ notify = "subscribe"
    /\ pc = "failed"
    /\ notify' = "failed"

\* It returned a channel, and the kick is on the link.
KickBegins ==
    /\ notify = "subscribe"
    /\ pc \notin {"subscribe", "failed"}
    /\ notify' = "kick"

\* The error of the kick is returned; the notification path runs on until
\* the context is cancelled.
KickReturns ==
    /\ notify = "kick"
    /\ notify' \in {"given", "failed"}

SubscribeNotify ==
    /\ SubscribeErr \/ KickBegins \/ KickReturns
    /\ UNCHANGED <<platform, onLink, pc, cancelled, ch, closed, linuxVars, tinygoVars>>

-----------------------------------------------------------------------------
(* The notification path, the context and the receiver                     *)

OnLinux(A) == platform = "linux" /\ A /\ UNCHANGED <<platform, transportVars, tinygoVars>>
OnOther(A) == platform = "other" /\ A /\ UNCHANGED <<platform, transportVars, linuxVars>>

\* The receiver gets the channel from SubscribeNotify.
Take == notify = "given" /\ (OnLinux(Linux!Receive) \/ OnOther(Tinygo!Receive))

Path ==
    \/ OnLinux(Linux!Opening \/ Linux!Reader \/ Linux!Cancel \/ Linux!FrameArrives)
    \/ OnOther(Tinygo!Opening \/ Tinygo!Callbacks \/ Tinygo!CloserCloses \/ Tinygo!Cancel)

BleNext ==
    /\ ~panicked
    /\ Write \/ SubscribeNotify \/ Path \/ Take

\* The goroutines of the path run on: poll returns within 200 ms, and the
\* rest does not block.  Nothing is assumed of the writes, the kick, the BLE
\* stack, the kernel and the receiver.
PathProceeds ==
    \/ OnLinux(Linux!Opening \/ Linux!Reader)
    \/ OnOther(Tinygo!Opening \/ Tinygo!CloserCloses)

BleSpec == BleInit /\ [][BleNext]_bleVars /\ WF_bleVars(PathProceeds)

-----------------------------------------------------------------------------
(* Properties                                                              *)

\* A subscription that failed promised no channel: it counts as closed, and
\* what a callback still puts into it nobody has.
RC == INSTANCE RawChannel WITH
        Packets <- Ours,
        ctxDone <- cancelled,
        offered <- pc \notin {"subscribe", "failed"},
        ch <- IF pc = "failed" THEN << >> ELSE ch,
        closed <- closed \/ pc = "failed"

\* On either platform the path is the channel charIO.subscribe promises: it
\* holds notifications of the subscribed handle only, of all the traffic of
\* the HCI device, never waits for the receiver, never puts into a closed
\* channel (up to a panic), and closes the channel once the context is
\* cancelled, whether the kick failed, the receiver is gone or the socket is
\* silent (readHCINotifications, tinygoCharIO.subscribe).
ImplementsRawChannel == RC!Spec

\* On Linux the socket is closed by the time the receiver sees the end of
\* the channel, on every way out of the loop (the defers of
\* readHCINotifications).
NoSocketLeft == closed \/ pc = "failed" => ~fdOpen

\* Closing the channel when the context is cancelled (types.go on
\* charIO.subscribe) does not bring the program down.
NoSendOnClosed == ~panicked

-----------------------------------------------------------------------------
(* Why NoSocketLeft and the safety part of ImplementsRawChannel hold       *)

\* The reader reads only what poll has announced and sends only what passed
\* its filter; its socket is open from subscribe to CloseFd, and the channel
\* from subscribe to the last step.
ReaderInStep ==
    /\ pc = "read" => sock # << >>
    /\ pc = "send" => Linux!Matches(buf)
    /\ pc \in {"subscribe", "failed", "closeOut", "exited"} => ~fdOpen
    /\ pc \in {"subscribe", "failed"} => ch = << >>
    /\ closed => pc = "exited"

\* Only the goroutine that subscribe started closes the channel.
CallbacksInStep ==
    /\ ~fdOpen
    /\ closed => pc = "subscribed"

PathInv ==
    /\ notify \in {"kick", "given"} => pc \notin {"subscribe", "failed"}
    /\ IF platform = "linux" THEN ReaderInStep ELSE CallbacksInStep

=============================================================================
