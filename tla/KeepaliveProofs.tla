--------------------------- MODULE KeepaliveProofs --------------------------
(***************************************************************************)
(* The heartbeat keeps the connection, for every interval, node timer and  *)
(* latency with the interval under the timer by more than two latencies.   *)
(***************************************************************************)
EXTENDS Keepalive, TLAPS

\* The two halves of the type invariant, which different provers take.
Numbers ==
    /\ phase \in {"login", "select", "read"}
    /\ age \in 0 .. Latency
    /\ since \in 0 .. Interval - 1
    /\ silent \in 0 .. Timeout
    /\ failures \in 0 .. MaxFailures

Flags == seen \in BOOLEAN /\ fired \in BOOLEAN /\ up \in BOOLEAN

\* What SilenceBounded needs to be inductive: the loop that waits for a tick
\* has no read under way, and the node keeps the connection while its timer
\* runs.
IInv ==
    /\ ClockTypeOK
    /\ phase = "select" => age = 0 /\ ~seen
    /\ up <=> silent < Timeout
    /\ SilenceBounded

\* At the start the inductive invariant holds.
LEMMA InitIInv == ClockInit => IInv
<1> SUFFICES ASSUME ClockInit PROVE IInv
  OBVIOUS
<1>1. Numbers
  BY KeepaliveAssumption DEF ClockInit, Numbers
<1>2. Flags
  BY DEF ClockInit, Flags
<1>3. up <=> silent < Timeout
  BY KeepaliveAssumption DEF ClockInit
<1> QED
  BY <1>1, <1>2, <1>3 DEF ClockInit, IInv, ClockTypeOK, Numbers, Flags, SilenceBounded

\* Every step of the loop, the node and the clock keeps the invariant.
LEMMA NextIInv == IInv /\ [ClockNext]_clockVars => IInv'
<1> SUFFICES ASSUME IInv, [ClockNext]_clockVars PROVE IInv'
  OBVIOUS
<1>1. CASE LoopStarts
  <2>1. ClockTypeOK'
    <3>1. Numbers'
      BY <1>1, KeepaliveAssumption DEF IInv, ClockTypeOK, Numbers, LoopStarts
    <3>2. Flags'
      BY <1>1 DEF IInv, ClockTypeOK, Flags, LoopStarts
    <3> QED
      BY <3>1, <3>2 DEF ClockTypeOK, Numbers, Flags
  <2>2. (phase = "select" => age = 0 /\ ~seen)'
    BY <1>1 DEF IInv, ClockTypeOK, LoopStarts
  <2>3. (up <=> silent < Timeout)'
    BY <1>1, KeepaliveAssumption DEF IInv, ClockTypeOK, LoopStarts
  <2>4. SilenceBounded'
    BY <1>1, <2>1, KeepaliveAssumption DEF IInv, ClockTypeOK, SilenceBounded, LoopStarts
  <2> QED
    BY <2>1, <2>2, <2>3, <2>4 DEF IInv
<1>2. CASE LoopReads
  <2>1. ClockTypeOK'
    <3>1. Numbers'
      BY <1>2, KeepaliveAssumption DEF IInv, ClockTypeOK, Numbers, LoopReads
    <3>2. Flags'
      BY <1>2 DEF IInv, ClockTypeOK, Flags, LoopReads
    <3> QED
      BY <3>1, <3>2 DEF ClockTypeOK, Numbers, Flags
  <2>2. (phase = "select" => age = 0 /\ ~seen)'
    BY <1>2 DEF IInv, ClockTypeOK, LoopReads
  <2>3. (up <=> silent < Timeout)'
    BY <1>2, KeepaliveAssumption DEF IInv, ClockTypeOK, LoopReads
  <2>4. SilenceBounded'
    BY <1>2, <2>1, KeepaliveAssumption DEF IInv, ClockTypeOK, SilenceBounded, LoopReads
  <2> QED
    BY <2>1, <2>2, <2>3, <2>4 DEF IInv
<1>3. CASE ReadReturns
  <2>1. ClockTypeOK'
    <3>1. Numbers'
      BY <1>3, KeepaliveAssumption DEF IInv, ClockTypeOK, Numbers, ReadReturns
    <3>2. Flags'
      BY <1>3 DEF IInv, ClockTypeOK, Flags, ReadReturns
    <3> QED
      BY <3>1, <3>2 DEF ClockTypeOK, Numbers, Flags
  <2>2. (phase = "select" => age = 0 /\ ~seen)'
    BY <1>3 DEF IInv, ClockTypeOK, ReadReturns
  <2>3. (up <=> silent < Timeout)'
    BY <1>3, KeepaliveAssumption DEF IInv, ClockTypeOK, ReadReturns
  <2>4. SilenceBounded'
    BY <1>3, <2>1, KeepaliveAssumption DEF IInv, ClockTypeOK, SilenceBounded, ReadReturns
  <2> QED
    BY <2>1, <2>2, <2>3, <2>4 DEF IInv
<1>4. CASE ReadFails
  <2>1. ClockTypeOK'
    <3>1. Numbers'
      BY <1>4, KeepaliveAssumption DEF IInv, ClockTypeOK, Numbers, ReadFails
    <3>2. Flags'
      BY <1>4 DEF IInv, ClockTypeOK, Flags, ReadFails
    <3> QED
      BY <3>1, <3>2 DEF ClockTypeOK, Numbers, Flags
  <2>2. (phase = "select" => age = 0 /\ ~seen)'
    BY <1>4 DEF IInv, ClockTypeOK, ReadFails
  <2>3. (up <=> silent < Timeout)'
    BY <1>4, KeepaliveAssumption DEF IInv, ClockTypeOK, ReadFails
  <2>4. SilenceBounded'
    BY <1>4, <2>1, KeepaliveAssumption DEF IInv, ClockTypeOK, SilenceBounded, ReadFails
  <2> QED
    BY <2>1, <2>2, <2>3, <2>4 DEF IInv
<1>5. CASE ReachesNode
  <2>1. ClockTypeOK'
    <3>1. Numbers'
      BY <1>5, KeepaliveAssumption DEF IInv, ClockTypeOK, Numbers, ReachesNode
    <3>2. Flags'
      BY <1>5 DEF IInv, ClockTypeOK, Flags, ReachesNode
    <3> QED
      BY <3>1, <3>2 DEF ClockTypeOK, Numbers, Flags
  <2>2. (phase = "select" => age = 0 /\ ~seen)'
    BY <1>5 DEF IInv, ClockTypeOK, ReachesNode
  <2>3. (up <=> silent < Timeout)'
    BY <1>5, KeepaliveAssumption DEF IInv, ClockTypeOK, ReachesNode
  <2>4. SilenceBounded'
    BY <1>5, <2>1, KeepaliveAssumption DEF IInv, ClockTypeOK, SilenceBounded, ReachesNode
  <2> QED
    BY <2>1, <2>2, <2>3, <2>4 DEF IInv
<1>6. CASE TimePasses
  <2>1. ClockTypeOK'
    <3>1. Numbers'
      BY <1>6, KeepaliveAssumption DEF IInv, ClockTypeOK, Numbers, TimePasses, Ticks, Fires,
        Reading
    <3>2. Flags'
      <4>1. seen' \in BOOLEAN
        BY <1>6 DEF IInv, ClockTypeOK, TimePasses
      <4>2. fired' \in BOOLEAN
        BY <1>6 DEF IInv, ClockTypeOK, TimePasses, Ticks
      <4>3. up' \in BOOLEAN
        BY <1>6 DEF TimePasses
      <4> QED
        BY <4>1, <4>2, <4>3 DEF Flags
    <3> QED
      BY <3>1, <3>2 DEF ClockTypeOK, Numbers, Flags
  <2>2. (phase = "select" => age = 0 /\ ~seen)'
    BY <1>6 DEF IInv, ClockTypeOK, TimePasses, Reading
  <2>3. (up <=> silent < Timeout)'
    BY <1>6, KeepaliveAssumption DEF IInv, ClockTypeOK, TimePasses
  <2>4. SilenceBounded'
    <3> SUFFICES ASSUME failures = 0
        PROVE  /\ (phase = "login" \/ (phase = "read" /\ seen)) => silent + 1 <= age'
               /\ (phase = "select" /\ ~fired') => silent + 1 <= Latency + since'
               /\ (phase = "select" /\ fired') => silent + 1 <= Latency + Interval
               /\ (phase = "read" /\ ~seen) => silent + 1 <= Latency + Interval + age'
      BY <1>6 DEF SilenceBounded, TimePasses
    <3>1. CASE phase = "select"
      <4>1. ~fired /\ silent <= Latency + since
        BY <1>6, <3>1 DEF IInv, SilenceBounded, TimePasses
      <4>2. CASE Fires
        <5>1. fired'
          BY <1>6, <3>1, <4>2 DEF TimePasses, Ticks
        <5>2. silent + 1 <= Latency + Interval
          BY <4>1, KeepaliveAssumption DEF IInv, ClockTypeOK
        <5> QED
          BY <3>1, <5>1, <5>2
      <4>3. CASE ~Fires
        <5>1. ~fired' /\ since' = since + 1
          BY <1>6, <3>1, <4>1, <4>3 DEF TimePasses, Ticks
        <5>2. silent + 1 <= Latency + since'
          BY <4>1, <5>1, KeepaliveAssumption DEF IInv, ClockTypeOK
        <5> QED
          BY <3>1, <5>1, <5>2
      <4> QED
        BY <4>2, <4>3
    <3>2. CASE phase # "select"
      <4>1. age' = age + 1
        BY <1>6, <3>2 DEF IInv, ClockTypeOK, TimePasses, Reading
      <4> QED
        BY <3>2, <4>1, KeepaliveAssumption DEF IInv, ClockTypeOK, SilenceBounded
    <3> QED
      BY <3>1, <3>2
  <2> QED
    BY <2>1, <2>2, <2>3, <2>4 DEF IInv
<1>7. CASE UNCHANGED clockVars
  <2>1. ClockTypeOK'
    <3>1. Numbers'
      BY <1>7, KeepaliveAssumption DEF IInv, ClockTypeOK, Numbers, clockVars
    <3>2. Flags'
      BY <1>7 DEF IInv, ClockTypeOK, Flags, clockVars
    <3> QED
      BY <3>1, <3>2 DEF ClockTypeOK, Numbers, Flags
  <2>2. (phase = "select" => age = 0 /\ ~seen)'
    BY <1>7 DEF IInv, ClockTypeOK, clockVars
  <2>3. (up <=> silent < Timeout)'
    BY <1>7, KeepaliveAssumption DEF IInv, ClockTypeOK, clockVars
  <2>4. SilenceBounded'
    BY <1>7, <2>1, KeepaliveAssumption DEF IInv, ClockTypeOK, SilenceBounded, clockVars
  <2> QED
    BY <2>1, <2>2, <2>3, <2>4 DEF IInv
<1> QED
  BY <1>1, <1>2, <1>3, <1>4, <1>5, <1>6, <1>7 DEF ClockNext

\* The longest silence is two latencies more than the interval.
LEMMA IInvSafe == IInv => DroppedOnlyAfterFailure
BY KeepaliveAssumption, Comfortably
   DEF IInv, ClockTypeOK, SilenceBounded, DroppedOnlyAfterFailure

\* The invariant holds of every reachable state.
LEMMA Inductive == ClockSpec => []IInv
BY InitIInv, NextIInv, PTL DEF ClockSpec

\* Every reachable state is type correct.
THEOREM TypeCorrect == ClockSpec => []ClockTypeOK
<1>1. IInv => ClockTypeOK
  BY DEF IInv
<1> QED
  BY <1>1, Inductive, PTL

\* The silence bound of the loop (heartbeatLoop against the node's timer).
THEOREM SilenceStaysBounded == ClockSpec => []SilenceBounded
<1>1. IInv => SilenceBounded
  BY DEF IInv
<1> QED
  BY <1>1, Inductive, PTL

\* The node drops the connection only after a heartbeat read failed.
THEOREM KeptAlive == ClockSpec => []DroppedOnlyAfterFailure
BY IInvSafe, Inductive, PTL

=============================================================================
