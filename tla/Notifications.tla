--------------------------- MODULE Notifications ----------------------------
(***************************************************************************)
(* The notification stream of a Client: Notifications of client.go, from   *)
(* the check of notifyActive to the goroutine that decrypts the raw        *)
(* packets of the Transport and hands them to the caller.                  *)
(*                                                                         *)
(* Each call of Notifications has a context, and once it succeeds a raw    *)
(* channel (filled by the Transport without blocking) and an out channel   *)
(* (filled by the pump, which blocks).  A packet is [session, id]: the     *)
(* session whose key the node encrypted it under, and a number per         *)
(* notification; a mesh retransmit is the same packet again.  Decryption   *)
(* succeeds exactly under the key of the packet's session: the nonce is    *)
(* made of what the packet itself carries, and nothing remembers which     *)
(* packets were decrypted before.  The handshake of Login is in module     *)
(* Session; here a Login installs the next session.                        *)
(***************************************************************************)
EXTENDS Integers, Sequences

CONSTANTS
    Calls,          \* calls of Notifications
    RawCap,         \* capacity of the raw channel (64)
    OutCap,         \* capacity of the out channel (64)
    MaxLogins,      \* bound: Logins
    MaxNotes,       \* bound: notifications the node sends
    MaxRetransmits  \* bound: packets the mesh repeats

ASSUME NotificationsAssumption ==
    /\ RawCap \in Nat
    /\ OutCap \in Nat
    /\ MaxLogins \in Nat
    /\ MaxNotes \in Nat
    /\ MaxRetransmits \in Nat

VARIABLES
    notifyActive,   \* the flag under notifyMu
    session,        \* installed session, 0 before the first Login
    call,           \* where each call, then its pump goroutine, is
    sk,             \* session whose key the call captured
    ctxDone,        \* calls whose context is cancelled
    raw,            \* packets in the Transport's channel
    rawEnded,       \* calls whose raw channel was closed
    held,           \* notification the pump is about to deliver, << >> if none
    out,            \* notifications in the channel the caller reads
    notes,          \* history: packets the node sent, each once
    retransmits     \* packets the mesh repeated

vars == <<notifyActive, session, call, sk, ctxDone, raw, rawEnded, held, out,
          notes, retransmits>>

callVars == <<notifyActive, call, sk>>
streamVars == <<raw, rawEnded, held, out>>
worldVars == <<session, ctxDone, notes, retransmits>>

-----------------------------------------------------------------------------
Packets == [session : 0 .. MaxLogins, id : 1 .. MaxNotes]

\* Steps of the pump: waiting for a packet, waiting for room in out, and
\* its two deferred calls, in the order they run.
PumpSteps == {"select", "deliver", "release", "closeOut"}

\* The caller, or its pump, that set notifyActive and has not reset it.
OwnerSteps == {"session", "subscribe", "reset", "select", "deliver", "release"}

Owners == {c \in Calls : call[c] \in OwnerSteps}
Pumps == {c \in Calls : call[c] \in PumpSteps}

OutClosed(c) == call[c] = "done"

TypeOK ==
    /\ notifyActive \in BOOLEAN
    /\ session \in 0 .. MaxLogins
    /\ call \in [Calls -> {"new", "refused", "failed", "done", "closeOut"} \union OwnerSteps]
    /\ sk \in [Calls -> 0 .. MaxLogins]
    /\ ctxDone \subseteq Calls
    /\ rawEnded \subseteq Calls
    /\ raw \in [Calls -> Seq(Packets)]
    /\ held \in [Calls -> Seq(Packets)]
    /\ out \in [Calls -> Seq(Packets)]
    /\ \A c \in Calls :
          /\ Len(raw[c]) <= RawCap
          /\ Len(held[c]) <= 1
          /\ Len(out[c]) <= OutCap
    /\ notes \in Seq(Packets) /\ Len(notes) <= MaxNotes
    /\ retransmits \in 0 .. MaxRetransmits

Init ==
    /\ notifyActive = FALSE
    /\ session = 0
    /\ call = [c \in Calls |-> "new"]
    /\ sk = [c \in Calls |-> 0]
    /\ ctxDone = {}
    /\ raw = [c \in Calls |-> << >>]
    /\ rawEnded = {}
    /\ held = [c \in Calls |-> << >>]
    /\ out = [c \in Calls |-> << >>]
    /\ notes = << >>
    /\ retransmits = 0

Goto(c, step) == call' = [call EXCEPT ![c] = step]

-----------------------------------------------------------------------------
(* The call                                                                *)

\* notifyMu: a second subscription is refused.
Claim(c) ==
    /\ call[c] = "new"
    /\ IF notifyActive
       THEN Goto(c, "refused") /\ UNCHANGED notifyActive
       ELSE Goto(c, "session") /\ notifyActive' = TRUE
    /\ UNCHANGED <<sk, streamVars, worldVars>>

\* session.mu: ErrNotLoggedIn, or capture the key.
CaptureKey(c) ==
    /\ call[c] = "session"
    /\ IF session = 0
       THEN Goto(c, "reset") /\ UNCHANGED sk
       ELSE Goto(c, "subscribe") /\ sk' = [sk EXCEPT ![c] = session]
    /\ UNCHANGED <<notifyActive, streamVars, worldVars>>

Subscribed(c) ==
    /\ call[c] = "subscribe"
    /\ Goto(c, "select")
    /\ UNCHANGED <<notifyActive, sk, streamVars, worldVars>>

SubscribeFails(c) ==
    /\ call[c] = "subscribe"
    /\ Goto(c, "reset")
    /\ UNCHANGED <<notifyActive, sk, streamVars, worldVars>>

\* Variant for the mutants: an error return forgets the reset.
ActiveKept == notifyActive

\* What every error return of the call resets.
ActiveAfterError == FALSE

ReturnError(c) ==
    /\ call[c] = "reset"
    /\ notifyActive' = ActiveAfterError
    /\ Goto(c, "failed")
    /\ UNCHANGED <<sk, streamVars, worldVars>>

-----------------------------------------------------------------------------
(* The pump                                                                *)

\* crypto.Decrypt: the tag verifies under the key of the packet's session.
TagVerifies(key, pkt) == pkt.session = key

\* DecryptNotification under the captured key.
Decrypts(c, pkt) == TagVerifies(sk[c], pkt)

\* A packet that fails to decrypt is logged and skipped.
AfterDecryptFailure == "select"

PumpTakes(c) ==
    /\ call[c] = "select"
    /\ raw[c] # << >>
    /\ raw' = [raw EXCEPT ![c] = Tail(raw[c])]
    /\ IF Decrypts(c, Head(raw[c]))
       THEN Goto(c, "deliver") /\ held' = [held EXCEPT ![c] = <<Head(raw[c])>>]
       ELSE Goto(c, AfterDecryptFailure) /\ UNCHANGED held
    /\ UNCHANGED <<notifyActive, sk, rawEnded, out, worldVars>>

\* Variant for the mutants: the pump drops when out is full.
PumpDropsWhenFull(c) ==
    /\ call[c] = "deliver"
    /\ out' = IF Len(out[c]) < OutCap
              THEN [out EXCEPT ![c] = out[c] \o held[c]] ELSE out
    /\ held' = [held EXCEPT ![c] = << >>]
    /\ Goto(c, "select")
    /\ UNCHANGED <<notifyActive, sk, raw, rawEnded, worldVars>>

\* out <- n waits for room.
PumpDelivers(c) ==
    /\ call[c] = "deliver"
    /\ Len(out[c]) < OutCap
    /\ out' = [out EXCEPT ![c] = out[c] \o held[c]]
    /\ held' = [held EXCEPT ![c] = << >>]
    /\ Goto(c, "select")
    /\ UNCHANGED <<notifyActive, sk, raw, rawEnded, worldVars>>

\* raw is closed and drained, or the context is done: in either select.
PumpMayStop(c) ==
    \/ call[c] = "select" /\ c \in rawEnded /\ raw[c] = << >>
    \/ call[c] \in {"select", "deliver"} /\ c \in ctxDone

PumpStops(c) ==
    /\ PumpMayStop(c)
    /\ Goto(c, "release")
    /\ UNCHANGED <<notifyActive, sk, streamVars, worldVars>>

\* The deferred calls run last in, first out.
PumpReleases(c) ==
    /\ call[c] = "release"
    /\ notifyActive' = FALSE
    /\ Goto(c, "closeOut")
    /\ UNCHANGED <<sk, streamVars, worldVars>>

PumpClosesOut(c) ==
    /\ call[c] = "closeOut"
    /\ Goto(c, "done")
    /\ UNCHANGED <<notifyActive, sk, streamVars, worldVars>>

-----------------------------------------------------------------------------
(* The caller, the Transport, the node                                     *)

Receive(c) ==
    /\ out[c] # << >>
    /\ out' = [out EXCEPT ![c] = Tail(out[c])]
    /\ UNCHANGED <<callVars, raw, rawEnded, held, worldVars>>

Cancel(c) ==
    /\ call[c] # "new"
    /\ c \notin ctxDone
    /\ ctxDone' = ctxDone \union {c}
    /\ UNCHANGED <<callVars, streamVars, session, notes, retransmits>>

\* The Transport closes raw: the context is done, or the link is lost.
TransportEnds(c) ==
    /\ c \in Pumps
    /\ c \notin rawEnded
    /\ rawEnded' = rawEnded \union {c}
    /\ UNCHANGED <<callVars, raw, held, out, worldVars>>

\* Variant for the mutants: the channel has no bound.
ListeningUnbounded == {c \in Pumps : c \notin rawEnded}

\* The channels a packet off the air enters: a full one drops it.
Listening == {c \in Pumps : c \notin rawEnded /\ Len(raw[c]) < RawCap}

Arrives(pkt) ==
    raw' = [c \in Calls |-> IF c \in Listening THEN Append(raw[c], pkt) ELSE raw[c]]

\* A packet of the installed session, or a late one of the session before
\* (0: of another controller's).
NodeNotifies ==
    /\ Len(notes) < MaxNotes
    /\ \E s \in {session - 1, session} \intersect Nat :
          LET pkt == [session |-> s, id |-> Len(notes) + 1]
          IN  notes' = Append(notes, pkt) /\ Arrives(pkt)
    /\ UNCHANGED <<callVars, rawEnded, held, out, session, ctxDone, retransmits>>

MeshRetransmits ==
    /\ retransmits < MaxRetransmits
    /\ retransmits' = retransmits + 1
    /\ \E i \in DOMAIN notes : Arrives(notes[i])
    /\ UNCHANGED <<callVars, rawEnded, held, out, session, ctxDone, notes>>

Login ==
    /\ session < MaxLogins
    /\ session' = session + 1
    /\ UNCHANGED <<callVars, streamVars, ctxDone, notes, retransmits>>

-----------------------------------------------------------------------------
Call(c) ==
    \/ CaptureKey(c)
    \/ Subscribed(c)
    \/ SubscribeFails(c)
    \/ ReturnError(c)

Pump(c) ==
    \/ PumpTakes(c)
    \/ PumpDelivers(c)
    \/ PumpStops(c)
    \/ PumpReleases(c)
    \/ PumpClosesOut(c)

Next ==
    \/ \E c \in Calls :
          Claim(c) \/ Call(c) \/ Pump(c) \/ Receive(c) \/ Cancel(c) \/ TransportEnds(c)
    \/ NodeNotifies
    \/ MeshRetransmits
    \/ Login

Spec == Init /\ [][Next]_vars

\* A call that has begun goes on, and so does its pump; a case of its select
\* that keeps being ready is chosen in the end.  Of the Transport it takes that
\* SubscribeNotify returns, as the D-Bus calls of Linux do by the end of their
\* context at the latest; nothing of the channel that it returned, and nothing
\* of the caller, which may stop reading or never cancel.
Fairness ==
    \A c \in Calls :
        /\ WF_vars(Call(c)) /\ WF_vars(Pump(c))
        /\ WF_vars(PumpStops(c))

FairSpec == Spec /\ Fairness

-----------------------------------------------------------------------------
(* Properties                                                              *)

\* notifyActive is set exactly while one call, or its pump, owns the
\* subscription: no error return leaks it, and no two calls own it.
ActiveIffOwned ==
    /\ notifyActive <=> Owners # {}
    /\ \A c, d \in Owners : c = d

\* The packets of a sequence that decrypt under the key, in their order.
Decrypted(key, s) ==
    LET kept[n \in 0 .. Len(s)] ==
            IF n = 0 THEN << >>
            ELSE IF TagVerifies(key, s[n]) THEN Append(kept[n - 1], s[n])
            ELSE kept[n - 1]
    IN  kept[Len(s)]

\* What is under way to the caller: in out, in the hand of the pump, and, as
\* far as it decrypts, in raw.
UnderWay(c) ==
    IF call[c] \in {"select", "deliver"}
    THEN out[c] \o held[c] \o Decrypted(sk[c], raw[c])
    ELSE out[c]

Phase(c) ==
    CASE call[c] \in {"select", "deliver", "release"} -> "open"
      [] call[c] = "closeOut" -> "released"
      [] call[c] \in {"done", "failed", "refused"} -> "closed"
      [] OTHER -> "asked"

Stream == INSTANCE NotificationStream WITH
            Cap <- RawCap + 1 + OutCap,
            phase <- [c \in Calls |-> Phase(c)],
            cancelled <- ctxDone,
            ended <- rawEnded,
            queue <- [c \in Calls |-> UnderWay(c)]

\* Each call gives its caller the stream that is promised: raw, the pump's
\* hand and out are one queue, from which nothing is lost or moved before a
\* cancellation, and which a packet enters as often as it comes off the air;
\* after a cancellation the subscription is given back and the channel closed,
\* even if the caller has stopped reading (Notifications).
ImplementsNotificationStream == Stream!Spec

\* A mesh retransmit of a notification already consumed is dropped, so no
\* packet is in the caller's channel twice (the doc of Notifications).
RetransmitsDropped ==
    \A c \in Calls : \A i, j \in DOMAIN out[c] : out[c][i] = out[c][j] => i = j

-----------------------------------------------------------------------------
(* Why it does                                                             *)

\* Nothing is in a channel before the pump runs, nor in its hand but to be
\* delivered; it stops only at a cancellation or at the end of raw.
PumpInStep ==
    \A c \in Calls :
        /\ call[c] \notin PumpSteps \union {"done"} =>
              raw[c] = << >> /\ held[c] = << >> /\ out[c] = << >>
        /\ call[c] = "select" => held[c] = << >>
        /\ call[c] = "release" => c \in ctxDone \union rawEnded

=============================================================================
