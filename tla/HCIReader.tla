------------------------------ MODULE HCIReader -----------------------------
(***************************************************************************)
(* The Linux notification path: linuxCharIO.subscribe and its goroutine    *)
(* readHCINotifications of ble/chario_linux.go, which picks the GATT       *)
(* notifications of one characteristic out of a raw HCI socket.            *)
(*                                                                         *)
(* A frame on the socket is [kind, handle]: whether it is an ATT           *)
(* HANDLE_VALUE_NTF at all (a frame that is too short, of another HCI      *)
(* type, L2CAP channel or ATT opcode is "other"), and its attribute        *)
(* handle.  The code does not tell the connections of the HCI device       *)
(* apart, so a frame has no connection.  BleTransport composes this module *)
(* with the Transport.                                                     *)
(***************************************************************************)
EXTENDS Integers, Sequences

CONSTANTS
    Cap,        \* capacity of the channel (64)
    SockCap,    \* bound: frames queued in the socket
    Handles,    \* attribute handles in use
    OurHandle   \* readHandle() + 1

VARIABLES
    pc,         \* where subscribe, then the reader goroutine, is
    sock,       \* frames queued in the socket
    fdOpen,     \* the socket is open
    buf,        \* frame the reader has read
    ctxDone,    \* the context is cancelled
    ch,         \* the channel handed to the caller
    closed      \* it is closed

vars == <<pc, sock, fdOpen, buf, ctxDone, ch, closed>>

-----------------------------------------------------------------------------
Frames == [kind : {"ntf", "other"}, handle : Handles]

NoFrame == [kind |-> "other", handle |-> OurHandle]

Steps == {"subscribe", "failed", "setNonblock", "checkCtx", "poll", "read",
          "filter", "send", "closeFd", "closeOut", "exited"}

TypeOK ==
    /\ pc \in Steps
    /\ sock \in Seq(Frames) /\ Len(sock) <= SockCap
    /\ fdOpen \in BOOLEAN
    /\ buf \in Frames
    /\ ctxDone \in BOOLEAN
    /\ ch \in Seq(Frames) /\ Len(ch) <= Cap
    /\ closed \in BOOLEAN

Init ==
    /\ pc = "subscribe"
    /\ sock = << >>
    /\ fdOpen = FALSE
    /\ buf = NoFrame
    /\ ctxDone = FALSE
    /\ ch = << >>
    /\ closed = FALSE

Goto(step) == pc' = step

-----------------------------------------------------------------------------
(* subscribe                                                               *)

\* readHandle or openHCIRaw fails; openHCIRaw closes what it opened.
SubscribeFails ==
    /\ pc = "subscribe"
    /\ Goto("failed")
    /\ UNCHANGED <<sock, fdOpen, buf, ctxDone, ch, closed>>

Subscribe ==
    /\ pc = "subscribe"
    /\ fdOpen' = TRUE
    /\ Goto("setNonblock")
    /\ UNCHANGED <<sock, buf, ctxDone, ch, closed>>

-----------------------------------------------------------------------------
(* readHCINotifications                                                    *)

SetNonblock ==
    /\ pc = "setNonblock"
    /\ Goto("checkCtx") \/ Goto("closeFd")
    /\ UNCHANGED <<sock, fdOpen, buf, ctxDone, ch, closed>>

\* Variant for the mutants: the loop does not look at the context.
CtxIgnored == FALSE

\* The top of the loop: the only place that looks at the context, but for
\* the send.
CtxStops == ctxDone

CheckCtx ==
    /\ pc = "checkCtx"
    /\ Goto(IF CtxStops THEN "closeFd" ELSE "poll")
    /\ UNCHANGED <<sock, fdOpen, buf, ctxDone, ch, closed>>

PollReady ==
    /\ pc = "poll"
    /\ sock # << >>
    /\ Goto("read")
    /\ UNCHANGED <<sock, fdOpen, buf, ctxDone, ch, closed>>

\* 200 ms without a frame, EINTR, or an event that is not POLLIN.
PollTimeout ==
    /\ pc = "poll"
    /\ Goto("checkCtx")
    /\ UNCHANGED <<sock, fdOpen, buf, ctxDone, ch, closed>>

PollFails ==
    /\ pc = "poll"
    /\ Goto("closeFd")
    /\ UNCHANGED <<sock, fdOpen, buf, ctxDone, ch, closed>>

Read ==
    /\ pc = "read"
    /\ buf' = Head(sock)
    /\ sock' = Tail(sock)
    /\ Goto("filter")
    /\ UNCHANGED <<fdOpen, ctxDone, ch, closed>>

\* EAGAIN and EINTR go round the loop, any other error ends it.
ReadFails ==
    /\ pc = "read"
    /\ Goto("checkCtx") \/ Goto("closeFd")
    /\ UNCHANGED <<sock, fdOpen, buf, ctxDone, ch, closed>>

\* A notification on the subscribed handle.
Matches(f) == f.kind = "ntf" /\ f.handle = OurHandle

Filter ==
    /\ pc = "filter"
    /\ Goto(IF Matches(buf) THEN "send" ELSE "checkCtx")
    /\ UNCHANGED <<sock, fdOpen, buf, ctxDone, ch, closed>>

\* The select: room in the channel and the cancellation are both ready
\* cases; the packet is dropped only when neither is.
Send ==
    /\ pc = "send"
    /\ Len(ch) < Cap
    /\ ch' = Append(ch, buf)
    /\ Goto("checkCtx")
    /\ UNCHANGED <<sock, fdOpen, buf, ctxDone, closed>>

SendCancelled ==
    /\ pc = "send"
    /\ ctxDone
    /\ Goto("closeFd")
    /\ UNCHANGED <<sock, fdOpen, buf, ctxDone, ch, closed>>

SendDrops ==
    /\ pc = "send"
    /\ Len(ch) >= Cap
    /\ ~ctxDone
    /\ Goto("checkCtx")
    /\ UNCHANGED <<sock, fdOpen, buf, ctxDone, ch, closed>>

\* Variant for the mutants: the socket is not closed.
LeakFd ==
    /\ pc = "closeFd"
    /\ Goto("closeOut")
    /\ UNCHANGED <<sock, fdOpen, buf, ctxDone, ch, closed>>

\* The deferred calls: the socket first, then the channel.
CloseFd ==
    /\ pc = "closeFd"
    /\ fdOpen' = FALSE
    /\ sock' = << >>
    /\ Goto("closeOut")
    /\ UNCHANGED <<buf, ctxDone, ch, closed>>

CloseOut ==
    /\ pc = "closeOut"
    /\ closed' = TRUE
    /\ Goto("exited")
    /\ UNCHANGED <<sock, fdOpen, buf, ctxDone, ch>>

-----------------------------------------------------------------------------
(* The receiver, the caller, the kernel                                    *)

Receive ==
    /\ ch # << >>
    /\ ch' = Tail(ch)
    /\ UNCHANGED <<pc, sock, fdOpen, buf, ctxDone, closed>>

Cancel ==
    /\ ~ctxDone
    /\ ctxDone' = TRUE
    /\ UNCHANGED <<pc, sock, fdOpen, buf, ch, closed>>

FrameArrives ==
    /\ fdOpen
    /\ Len(sock) < SockCap
    /\ \E f \in Frames : sock' = Append(sock, f)
    /\ UNCHANGED <<pc, fdOpen, buf, ctxDone, ch, closed>>

Opening == Subscribe \/ SubscribeFails

Reader ==
    \/ SetNonblock
    \/ CheckCtx
    \/ PollReady
    \/ PollTimeout
    \/ PollFails
    \/ Read
    \/ ReadFails
    \/ Filter
    \/ Send
    \/ SendCancelled
    \/ SendDrops
    \/ CloseFd
    \/ CloseOut

=============================================================================
