----------------------------- MODULE Keepalive ------------------------------
(***************************************************************************)
(* The heartbeat against the clock: heartbeatLoop of client.go with the    *)
(* interval of options.go, and the timer of the node's firmware, which     *)
(* drops the connection when no read of CHAR_PAIR reached it for Timeout.  *)
(* Every read that does resets the timer, the one of Login first.          *)
(*                                                                         *)
(* Time passes one unit at a time.  A goroutine that can run does so       *)
(* within the unit; a read takes up to Latency from the call to its        *)
(* return, and reaches the node somewhere in between.                      *)
(***************************************************************************)
EXTENDS Integers

CONSTANTS
    Interval,       \* clientOptions.heartbeatInterval (25 s)
    Timeout,        \* the firmware's keepalive timer (30 s)
    Latency,        \* the longest a ReadPair takes
    MaxFailures     \* bound: reads that never reach the node

ASSUME KeepaliveAssumption ==
    /\ Interval \in Nat /\ Interval > 0
    /\ Timeout \in Nat /\ Timeout > 0
    /\ Latency \in Nat
    /\ MaxFailures \in Nat

\* "Telink keepalive timer is 30s -- stay under it comfortably" (options.go).
ASSUME Comfortably == Interval + 2 * Latency < Timeout

VARIABLES
    phase,      \* "login" until Login's own read returned, then the loop
    age,        \* time since the current read was called
    seen,       \* the current read has reached the node
    since,      \* time since the ticker last fired
    fired,      \* its channel holds a tick
    silent,     \* the firmware's timer: time since a read reached the node
    up,         \* the firmware keeps the connection
    failures    \* reads that never reached the node

clockVars == <<phase, age, seen, since, fired, silent, up, failures>>

-----------------------------------------------------------------------------
ClockTypeOK ==
    /\ phase \in {"login", "select", "read"}
    /\ age \in 0 .. Latency
    /\ seen \in BOOLEAN
    /\ since \in 0 .. Interval - 1
    /\ fired \in BOOLEAN
    /\ silent \in 0 .. Timeout
    /\ up \in BOOLEAN
    /\ failures \in 0 .. MaxFailures

\* Login's ReadPair has just reached the node.
ClockInit ==
    /\ phase = "login"
    /\ age = 0
    /\ seen = TRUE
    /\ since = 0
    /\ fired = FALSE
    /\ silent = 0
    /\ up = TRUE
    /\ failures = 0

-----------------------------------------------------------------------------
(* The loop                                                                *)

\* Login goes on to startHeartbeat: the ticker starts, and first fires
\* after one interval.
LoopStarts ==
    /\ phase = "login"
    /\ phase' = "select"
    /\ age' = 0
    /\ seen' = FALSE
    /\ since' = 0
    /\ UNCHANGED <<fired, silent, up, failures>>

LoopReads ==
    /\ phase = "select"
    /\ fired
    /\ fired' = FALSE
    /\ phase' = "read"
    /\ UNCHANGED <<age, seen, since, silent, up, failures>>

\* Answered or not: the loop goes on.
ReadReturns ==
    /\ phase = "read"
    /\ seen
    /\ phase' = "select"
    /\ age' = 0
    /\ seen' = FALSE
    /\ UNCHANGED <<since, fired, silent, up, failures>>

ReadFails ==
    /\ phase = "read"
    /\ ~seen
    /\ failures < MaxFailures
    /\ failures' = failures + 1
    /\ phase' = "select"
    /\ age' = 0
    /\ UNCHANGED <<seen, since, fired, silent, up>>

-----------------------------------------------------------------------------
(* The node and the clock                                                  *)

ReachesNode ==
    /\ phase = "read"
    /\ ~seen
    /\ up
    /\ seen' = TRUE
    /\ silent' = 0
    /\ UNCHANGED <<phase, age, since, fired, up, failures>>

\* Variants for the mutants: off by one; the interval is the node's timer.
FiresLate == since + 1 > Interval
FiresAtTimeout == since + 1 >= Timeout

Fires == since + 1 >= Interval

\* Variant for the mutants: the count is not restarted.
TicksOn ==
    IF phase = "login"
    THEN UNCHANGED <<since, fired>>
    ELSE since' = since + 1 /\ fired' = (fired \/ Fires)

\* A tick that falls due is kept until the loop takes it; later ones are
\* dropped.
Ticks ==
    IF phase = "login"
    THEN UNCHANGED <<since, fired>>
    ELSE /\ since' = IF Fires THEN 0 ELSE since + 1
         /\ fired' = (fired \/ Fires)

Reading == phase = "login" \/ phase = "read"

TimePasses ==
    /\ up
    /\ ~(phase = "select" /\ fired)
    /\ Reading => age < Latency
    /\ age' = IF Reading THEN age + 1 ELSE 0
    /\ Ticks
    /\ silent' = silent + 1
    /\ up' = (silent + 1 < Timeout)
    /\ UNCHANGED <<phase, seen, failures>>

ClockNext ==
    \/ LoopStarts
    \/ LoopReads
    \/ ReadReturns
    \/ ReadFails
    \/ ReachesNode
    \/ TimePasses

ClockSpec == ClockInit /\ [][ClockNext]_clockVars

-----------------------------------------------------------------------------
(* Properties                                                              *)

\* An interval that stays under the firmware's timer by more than two
\* latencies keeps the connection: it is dropped only after a read failed
\* (heartbeatLoop, the default of options.go).
DroppedOnlyAfterFailure == ~up => failures > 0

\* Why: as long as no read failed, the timer has run for at most one latency
\* longer than the ticker, and a read is on its way for at most another.
SilenceBounded ==
    failures = 0 =>
        /\ (phase = "login" \/ (phase = "read" /\ seen)) => silent <= age
        /\ (phase = "select" /\ ~fired) => silent <= Latency + since
        /\ (phase = "select" /\ fired) => silent <= Latency + Interval
        /\ (phase = "read" /\ ~seen) => silent <= Latency + Interval + age

=============================================================================
