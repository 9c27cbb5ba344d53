----------------------------- MODULE Heartbeat ------------------------------
(***************************************************************************)
(* The keepalive of a Client: startHeartbeat, heartbeatLoop and Close of   *)
(* client.go.                                                              *)
(*                                                                         *)
(* Login ends in startHeartbeat, which runs its body once per Client       *)
(* (sync.Once): it publishes hbCancel, then hbDone, then starts the loop.  *)
(* Close reads both fields without a lock.  When it is not synchronised    *)
(* with that Login the reads race, and each returns nil or the value       *)
(* written so far.                                                         *)
(*                                                                         *)
(* A heartbeat is known by a number: the value of hbCancel and hbDone, 0   *)
(* for nil.  The handshake part of Login is in module Session.             *)
(***************************************************************************)
EXTENDS Integers, FiniteSets

CONSTANTS
    Procs,          \* goroutines that call Login and Close
    MaxLogins,      \* bound: Logins that reach startHeartbeat
    MaxCloses,      \* bound: calls of Close
    CloseRaces,     \* TRUE: Close may run while a Login is in progress
    LoginAfterClose \* TRUE: Login may be called again after Close

ASSUME HeartbeatAssumption ==
    /\ MaxLogins \in Nat
    /\ MaxCloses \in Nat
    /\ CloseRaces \in BOOLEAN
    /\ LoginAfterClose \in BOOLEAN

VARIABLES
    once,       \* hbOnce: its body is fresh, running or done
    hbCancel,   \* which heartbeat's cancel the field holds, 0 for nil
    hbDone,     \* which heartbeat's done channel the field holds, 0 for nil
    cancelled,  \* contexts that were cancelled
    closed,     \* done channels that were closed
    loop,       \* where the goroutine of each heartbeat is
    tick,       \* tickers with a tick pending in their one-place channel
    pc,         \* where each caller is, "idle" outside the Client
    target,     \* locals of Close: the done channel it waits on
    logins,     \* Logins so far
    closes,     \* Closes so far
    open,       \* history: a Login returned and no Close was called since
    stopped     \* history: a Close that waited for the loop has returned

vars == <<once, hbCancel, hbDone, cancelled, closed, loop, tick, pc, target,
          logins, closes, open, stopped>>

clientVars == <<once, hbCancel, hbDone>>
loopVars == <<cancelled, closed, loop, tick>>
callVars == <<logins, closes, open, stopped>>

-----------------------------------------------------------------------------
Beats == 1 .. MaxLogins     \* no Login starts more than one heartbeat

StartSteps == {"onceEnter", "setCancel", "setDone", "startLoop", "return"}
CloseSteps == {"readCancel", "cancel", "readDone", "waitDone"}

Starting == {p \in Procs : pc[p] \in StartSteps}
Closing == {p \in Procs : pc[p] \in CloseSteps}

\* A loop that has been started and has not returned.
Live == {b \in Beats : loop[b] \in {"select", "read"}}

TypeOK ==
    /\ once \in {"fresh", "running", "done"}
    /\ hbCancel \in {0} \union Beats
    /\ hbDone \in {0} \union Beats
    /\ cancelled \subseteq Beats
    /\ closed \subseteq Beats
    /\ loop \in [Beats -> {"none", "select", "read", "exited"}]
    /\ tick \subseteq Beats
    /\ pc \in [Procs -> {"idle"} \union StartSteps \union CloseSteps]
    /\ target \in [Procs -> {0} \union Beats]
    /\ logins \in 0 .. MaxLogins
    /\ closes \in 0 .. MaxCloses
    /\ open \in BOOLEAN
    /\ stopped \in BOOLEAN

Init ==
    /\ once = "fresh"
    /\ hbCancel = 0
    /\ hbDone = 0
    /\ cancelled = {}
    /\ closed = {}
    /\ loop = [b \in Beats |-> "none"]
    /\ tick = {}
    /\ pc = [p \in Procs |-> "idle"]
    /\ target = [p \in Procs |-> 0]
    /\ logins = 0
    /\ closes = 0
    /\ open = FALSE
    /\ stopped = FALSE

Goto(p, step) == pc' = [pc EXCEPT ![p] = step]

-----------------------------------------------------------------------------
(* Login: startHeartbeat                                                   *)

LoginBegin(p) ==
    /\ pc[p] = "idle"
    /\ logins < MaxLogins
    /\ LoginAfterClose \/ closes = 0
    /\ CloseRaces \/ Closing = {}
    /\ logins' = logins + 1
    /\ Goto(p, "onceEnter")
    /\ UNCHANGED <<clientVars, loopVars, target, closes, open, stopped>>

\* Variant for the mutants: a check of the field instead of the Once.
NoHeartbeatYet == hbCancel = 0

\* hbOnce.Do: whether its body is to run.
OnceAdmits == once = "fresh"

OnceRuns(p) ==
    /\ pc[p] = "onceEnter"
    /\ OnceAdmits
    /\ once' = "running"
    /\ Goto(p, "setCancel")
    /\ UNCHANGED <<hbCancel, hbDone, loopVars, target, callVars>>

\* Do does not return before the one body that runs has returned.
OnceSkips(p) ==
    /\ pc[p] = "onceEnter"
    /\ ~OnceAdmits
    /\ once = "done"
    /\ Goto(p, "return")
    /\ UNCHANGED <<clientVars, loopVars, target, callVars>>

\* Variant for the mutants: heartbeats counted by Logins.
BeatOfLogin == logins + 1

\* Every start makes a heartbeat of its own.
NewBeat == Cardinality({b \in Beats : loop[b] # "none"}) + 1

SetCancel(p) ==
    /\ pc[p] = "setCancel"
    /\ hbCancel' = NewBeat
    /\ Goto(p, "setDone")
    /\ UNCHANGED <<once, hbDone, loopVars, target, callVars>>

SetDone(p) ==
    /\ pc[p] = "setDone"
    /\ hbDone' = NewBeat
    /\ Goto(p, "startLoop")
    /\ UNCHANGED <<once, hbCancel, loopVars, target, callVars>>

StartLoop(p) ==
    /\ pc[p] = "startLoop"
    /\ loop' = [loop EXCEPT ![hbDone] = "select"]
    /\ once' = "done"
    /\ Goto(p, "return")
    /\ UNCHANGED <<hbCancel, hbDone, cancelled, closed, tick, target, callVars>>

LoginReturn(p) ==
    /\ pc[p] = "return"
    /\ open' = TRUE
    /\ Goto(p, "idle")
    /\ UNCHANGED <<clientVars, loopVars, target, logins, closes, stopped>>

-----------------------------------------------------------------------------
(* heartbeatLoop                                                           *)

\* The interval elapses; a tick nobody took is not queued twice.
Tick(b) ==
    /\ b \in Live
    /\ b \notin tick
    /\ tick' = tick \union {b}
    /\ UNCHANGED <<clientVars, cancelled, closed, loop, pc, target, callVars>>

\* select takes the tick, even when the context is done as well.
LoopRead(b) ==
    /\ loop[b] = "select"
    /\ b \in tick
    /\ tick' = tick \ {b}
    /\ loop' = [loop EXCEPT ![b] = "read"]
    /\ UNCHANGED <<clientVars, cancelled, closed, pc, target, callVars>>

\* Variant for the mutants: a read error ends the loop.
ReadErrorEndsLoop(b) ==
    /\ loop[b] = "read"
    /\ loop' = [loop EXCEPT ![b] = "exited"]
    /\ closed' = closed \union {b}
    /\ tick' = tick \ {b}
    /\ UNCHANGED <<clientVars, cancelled, pc, target, callVars>>

\* ReadPair returns; its error is only logged.
LoopReadReturns(b) ==
    /\ loop[b] = "read"
    /\ loop' = [loop EXCEPT ![b] = "select"]
    /\ UNCHANGED <<clientVars, cancelled, closed, tick, pc, target, callVars>>

\* Variant for the mutants: the loop returns without closing hbDone.
StopWithoutDone(b) ==
    /\ loop[b] = "select"
    /\ b \in cancelled
    /\ loop' = [loop EXCEPT ![b] = "exited"]
    /\ tick' = tick \ {b}
    /\ UNCHANGED <<clientVars, cancelled, closed, pc, target, callVars>>

\* select takes ctx.Done; the ticker stops and hbDone is closed.
LoopStop(b) ==
    /\ loop[b] = "select"
    /\ b \in cancelled
    /\ loop' = [loop EXCEPT ![b] = "exited"]
    /\ closed' = closed \union {b}
    /\ tick' = tick \ {b}
    /\ UNCHANGED <<clientVars, cancelled, pc, target, callVars>>

-----------------------------------------------------------------------------
(* Close                                                                   *)

CloseBegin(p) ==
    /\ pc[p] = "idle"
    /\ closes < MaxCloses
    /\ CloseRaces \/ Starting = {}
    /\ closes' = closes + 1
    /\ open' = FALSE
    /\ Goto(p, "readCancel")
    /\ UNCHANGED <<clientVars, loopVars, target, logins, stopped>>

\* What an unsynchronised read of a field may return.
Reads(field) == IF CloseRaces THEN {0, field} ELSE {field}

CloseReadCancel(p) ==
    /\ pc[p] = "readCancel"
    /\ \E c \in Reads(hbCancel) :
          IF c = 0
          THEN Goto(p, "idle") /\ UNCHANGED target
          ELSE Goto(p, "cancel") /\ target' = [target EXCEPT ![p] = c]
    /\ UNCHANGED <<clientVars, loopVars, callVars>>

CloseCancel(p) ==
    /\ pc[p] = "cancel"
    /\ cancelled' = cancelled \union {target[p]}
    /\ Goto(p, "readDone")
    /\ UNCHANGED <<clientVars, closed, loop, tick, target, callVars>>

CloseReadDone(p) ==
    /\ pc[p] = "readDone"
    /\ \E d \in Reads(hbDone) : target' = [target EXCEPT ![p] = d]
    /\ Goto(p, "waitDone")
    /\ UNCHANGED <<clientVars, loopVars, callVars>>

\* Variant for the mutants: Close waits for the context only.
ContextDone(d) == d \in cancelled

\* A receive from a nil channel blocks for ever.
DoneReceived(d) == d \in closed

CloseReturn(p) ==
    /\ pc[p] = "waitDone"
    /\ DoneReceived(target[p])
    /\ stopped' = TRUE
    /\ Goto(p, "idle")
    /\ UNCHANGED <<clientVars, loopVars, target, logins, closes, open>>

-----------------------------------------------------------------------------
StartHeartbeat(p) ==
    \/ OnceRuns(p)
    \/ OnceSkips(p)
    \/ SetCancel(p)
    \/ SetDone(p)
    \/ StartLoop(p)
    \/ LoginReturn(p)

CloseProceeds(p) ==
    \/ CloseReadCancel(p)
    \/ CloseCancel(p)
    \/ CloseReadDone(p)
    \/ CloseReturn(p)

HeartbeatLoop(b) ==
    \/ Tick(b)
    \/ LoopRead(b)
    \/ LoopReadReturns(b)
    \/ LoopStop(b)

Next ==
    \/ \E p \in Procs :
          LoginBegin(p) \/ StartHeartbeat(p) \/ CloseBegin(p) \/ CloseProceeds(p)
    \/ \E b \in Beats : HeartbeatLoop(b)

Spec == Init /\ [][Next]_vars

\* Calls that have begun go on, time passes, and a loop takes a case of its
\* select that keeps being ready (select chooses among ready cases at
\* random).  ReadPair itself is not assumed to return...
Running ==
    /\ \A p \in Procs : WF_vars(StartHeartbeat(p)) /\ WF_vars(CloseProceeds(p))
    /\ \A b \in Beats : WF_vars(Tick(b)) /\ WF_vars(LoopRead(b)) /\ SF_vars(LoopStop(b))

FairSpec == Spec /\ Running

\* ...except once its context is cancelled, for a Transport that honours it
\* (BlueZ: CallWithContext; the tinygo charIO ignores it).
ReadInterrupted(b) == b \in cancelled /\ LoopReadReturns(b)

FairSpecCtx == FairSpec /\ \A b \in Beats : WF_vars(ReadInterrupted(b))

-----------------------------------------------------------------------------
(* Properties                                                              *)

\* A Client never runs two heartbeat loops, however many Logins reach
\* startHeartbeat at once (hbOnce).
AtMostOneLoop == Cardinality(Live) <= 1

\* When a Close that found a heartbeat has returned, no loop is left and
\* none of its reads is on its way to the node (Close waits on hbDone), not
\* even when the select took a tick after the cancellation.
ClosedMeansStopped == stopped => Live = {}

\* A Close comes to its end, with a heartbeat read in progress or not
\* (Close: <-c.hbDone).
CloseReturns == \A p \in Procs : pc[p] \in CloseSteps ~> pc[p] = "idle"

\* At any time after it was started the loop is in a read or comes to one,
\* whatever earlier reads returned, unless it is cancelled (heartbeatLoop logs
\* the error and goes on).  A read that never returns is the Transport's.
KeepsReading ==
    \A b \in Beats :
        once = "done" /\ hbDone = b ~> (loop[b] = "read" \/ b \in cancelled)

\* After a Login and until the next Close the heartbeat runs (Login:
\* "starts the heartbeat loop").
HeartbeatWhileOpen == open => Live # {}

=============================================================================
