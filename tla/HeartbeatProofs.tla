--------------------------- MODULE HeartbeatProofs --------------------------
(***************************************************************************)
(* A Client has one heartbeat loop at most, and none once a Close that     *)
(* waited has returned: for any goroutines, any number of Logins and       *)
(* Closes, and whether or not they race or Logins follow a Close.  An open *)
(* Client beats until its Close, if no Login follows or races with one.    *)
(* A Close that races no Login waits only for a loop told to end.          *)
(***************************************************************************)
EXTENDS Heartbeat, FiniteSetTheorems, TLAPS

\* The type invariant in two parts, with arithmetic and without.
Counters == logins \in 0 .. MaxLogins /\ closes \in 0 .. MaxCloses

Fields ==
    /\ once \in {"fresh", "running", "done"}
    /\ hbCancel \in {0} \union Beats
    /\ hbDone \in {0} \union Beats
    /\ cancelled \subseteq Beats
    /\ closed \subseteq Beats
    /\ loop \in [Beats -> {"none", "select", "read", "exited"}]
    /\ tick \subseteq Beats
    /\ pc \in [Procs -> {"idle"} \union StartSteps \union CloseSteps]
    /\ target \in [Procs -> {0} \union Beats]
    /\ open \in BOOLEAN
    /\ stopped \in BOOLEAN

\* The steps of the body of hbOnce.Do.
Body == {"setCancel", "setDone", "startLoop"}

\* One goroutine at most is in the body, while the Once is running.
BodyRunsAlone ==
    /\ \A p \in Procs : pc[p] \in Body => once = "running"
    /\ \A p, q \in Procs : pc[p] \in Body /\ pc[q] \in Body => p = q

\* No loop is started before the body ends, and none but the first at all.
OnlyFirstLoop ==
    /\ once # "done" => \A b \in Beats : loop[b] = "none"
    /\ \A b \in Beats : b # 1 => loop[b] = "none"
    /\ \A p \in Procs : pc[p] = "startLoop" => hbDone = 1

\* A goroutine on its way to a heartbeat was admitted by the bound on Logins.
LoginCounted == \A p \in Procs : pc[p] \in StartSteps => 1 \in Beats

\* Close cancels only what it found.
CancelHasTarget == \A p \in Procs : pc[p] = "cancel" => target[p] \in Beats

\* A done channel is closed by its loop as it ends...
ClosedByLoop == \A b \in closed : loop[b] = "exited"

\* ...and a Close that waited saw that of the one loop there is.
StoppedByLoop == stopped => 1 \in closed

IInv ==
    /\ TypeOK
    /\ BodyRunsAlone
    /\ OnlyFirstLoop
    /\ LoginCounted
    /\ CancelHasTarget
    /\ ClosedByLoop
    /\ StoppedByLoop

\* No heartbeat was made before the body ends: the one it makes is number 1.
LEMMA FirstBeat == once # "done" /\ OnlyFirstLoop => NewBeat = 1
<1> SUFFICES ASSUME once # "done", OnlyFirstLoop PROVE NewBeat = 1
  OBVIOUS
<1>1. {b \in Beats : loop[b] # "none"} = {}
  BY DEF OnlyFirstLoop
<1> QED
  BY <1>1, FS_EmptySet DEF NewBeat

\* No heartbeat started yet, the inductive invariant holds.
LEMMA InitIInv == Init => IInv
<1> SUFFICES ASSUME Init PROVE IInv
  OBVIOUS
<1>1. Counters
  BY HeartbeatAssumption DEF Init, Counters
<1>2. Fields
  BY DEF Init, Fields
<1>3. BodyRunsAlone /\ OnlyFirstLoop
  BY DEF Init, BodyRunsAlone, Body, OnlyFirstLoop
<1>4. LoginCounted /\ CancelHasTarget
  BY DEF Init, LoginCounted, StartSteps, CancelHasTarget
<1> QED
  BY <1>1, <1>2, <1>3, <1>4
  DEF Init, IInv, TypeOK, Counters, Fields, ClosedByLoop, StoppedByLoop

\* Every step of a Login, a loop and a Close keeps the invariant.
LEMMA NextIInv == IInv /\ [Next]_vars => IInv'
<1> SUFFICES ASSUME IInv, [Next]_vars PROVE IInv'
  OBVIOUS
<1> USE DEF IInv
<1>1. ASSUME NEW p \in Procs, LoginBegin(p) PROVE IInv'
  <2>1. TypeOK'
    <3>1. Counters'
      BY <1>1, HeartbeatAssumption
      DEF TypeOK, Counters, LoginBegin, clientVars, loopVars, Goto
    <3>2. Fields'
      BY <1>1
      DEF TypeOK, Fields, StartSteps, CloseSteps, LoginBegin, clientVars, loopVars,
          Goto
    <3> QED
      BY <3>1, <3>2 DEF TypeOK, Counters, Fields
  <2>2. BodyRunsAlone'
    BY <1>1
    DEF TypeOK, BodyRunsAlone, Body, StartSteps, CloseSteps, LoginBegin, clientVars,
        loopVars, Goto
  <2>3. OnlyFirstLoop'
    BY <1>1
    DEF TypeOK, BodyRunsAlone, OnlyFirstLoop, Body, StartSteps, CloseSteps,
        LoginBegin, clientVars, loopVars, Goto
  <2>4. LoginCounted'
    BY <1>1, HeartbeatAssumption
    DEF TypeOK, LoginCounted, Beats, StartSteps, CloseSteps, LoginBegin, clientVars,
        loopVars, Goto
  <2>5. CancelHasTarget'
    BY <1>1 DEF TypeOK, CancelHasTarget, LoginBegin, clientVars, loopVars, Goto
  <2>6. ClosedByLoop' /\ StoppedByLoop'
    BY <1>1
    DEF TypeOK, ClosedByLoop, StoppedByLoop, OnlyFirstLoop, BodyRunsAlone, Body,
        LoginBegin, clientVars, loopVars, Goto
  <2> QED
    BY <2>1, <2>2, <2>3, <2>4, <2>5, <2>6 DEF IInv
<1>2. ASSUME NEW p \in Procs, OnceRuns(p) PROVE IInv'
  <2>1. TypeOK'
    <3>1. Counters'
      BY <1>2, HeartbeatAssumption
      DEF TypeOK, Counters, OnceRuns, OnceAdmits, loopVars, callVars, Goto
    <3>2. Fields'
      BY <1>2
      DEF TypeOK, Fields, StartSteps, CloseSteps, OnceRuns, OnceAdmits, loopVars,
          callVars, Goto
    <3> QED
      BY <3>1, <3>2 DEF TypeOK, Counters, Fields
  <2>2. BodyRunsAlone'
    BY <1>2
    DEF TypeOK, BodyRunsAlone, Body, StartSteps, CloseSteps, OnceRuns, OnceAdmits,
        loopVars, callVars, Goto
  <2>3. OnlyFirstLoop'
    BY <1>2
    DEF TypeOK, BodyRunsAlone, OnlyFirstLoop, Body, StartSteps, CloseSteps, OnceRuns,
        OnceAdmits, loopVars, callVars, Goto
  <2>4. LoginCounted'
    BY <1>2, HeartbeatAssumption
    DEF TypeOK, LoginCounted, Beats, StartSteps, CloseSteps, OnceRuns, OnceAdmits,
        loopVars, callVars, Goto
  <2>5. CancelHasTarget'
    BY <1>2 DEF TypeOK, CancelHasTarget, OnceRuns, OnceAdmits, loopVars, callVars,
       Goto
  <2>6. ClosedByLoop' /\ StoppedByLoop'
    BY <1>2
    DEF TypeOK, ClosedByLoop, StoppedByLoop, OnlyFirstLoop, BodyRunsAlone, Body,
        OnceRuns, OnceAdmits, loopVars, callVars, Goto
  <2> QED
    BY <2>1, <2>2, <2>3, <2>4, <2>5, <2>6 DEF IInv
<1>3. ASSUME NEW p \in Procs, OnceSkips(p) PROVE IInv'
  <2>1. TypeOK'
    <3>1. Counters'
      BY <1>3, HeartbeatAssumption
      DEF TypeOK, Counters, OnceSkips, clientVars, loopVars, callVars, Goto
    <3>2. Fields'
      BY <1>3
      DEF TypeOK, Fields, StartSteps, CloseSteps, OnceSkips, clientVars, loopVars,
          callVars, Goto
    <3> QED
      BY <3>1, <3>2 DEF TypeOK, Counters, Fields
  <2>2. BodyRunsAlone'
    BY <1>3
    DEF TypeOK, BodyRunsAlone, Body, StartSteps, CloseSteps, OnceSkips, clientVars,
        loopVars, callVars, Goto
  <2>3. OnlyFirstLoop'
    BY <1>3
    DEF TypeOK, BodyRunsAlone, OnlyFirstLoop, Body, StartSteps, CloseSteps, OnceSkips,
        clientVars, loopVars, callVars, Goto
  <2>4. LoginCounted'
    BY <1>3, HeartbeatAssumption
    DEF TypeOK, LoginCounted, Beats, StartSteps, CloseSteps, OnceSkips, clientVars,
        loopVars, callVars, Goto
  <2>5. CancelHasTarget'
    BY <1>3 DEF TypeOK, CancelHasTarget, OnceSkips, clientVars, loopVars, callVars,
       Goto
  <2>6. ClosedByLoop' /\ StoppedByLoop'
    BY <1>3
    DEF TypeOK, ClosedByLoop, StoppedByLoop, OnlyFirstLoop, BodyRunsAlone, Body,
        OnceSkips, clientVars, loopVars, callVars, Goto
  <2> QED
    BY <2>1, <2>2, <2>3, <2>4, <2>5, <2>6 DEF IInv
<1>4. ASSUME NEW p \in Procs, SetCancel(p) PROVE IInv'
  <2>1. NewBeat = 1 /\ 1 \in Beats
    BY <1>4, FirstBeat DEF BodyRunsAlone, Body, LoginCounted, StartSteps, SetCancel
  <2>2. TypeOK'
    <3>1. Counters'
      BY <1>4, HeartbeatAssumption DEF TypeOK, Counters, SetCancel, loopVars,
         callVars, Goto
    <3>2. Fields'
      BY <1>4, <2>1
      DEF TypeOK, Fields, StartSteps, CloseSteps, SetCancel, loopVars, callVars, Goto
    <3> QED
      BY <3>1, <3>2 DEF TypeOK, Counters, Fields
  <2>3. BodyRunsAlone'
    BY <1>4
    DEF TypeOK, BodyRunsAlone, Body, StartSteps, CloseSteps, SetCancel, loopVars,
        callVars, Goto
  <2>4. OnlyFirstLoop'
    BY <1>4, <2>1
    DEF TypeOK, BodyRunsAlone, OnlyFirstLoop, Body, StartSteps, CloseSteps, SetCancel,
        loopVars, callVars, Goto
  <2>5. LoginCounted'
    BY <1>4, HeartbeatAssumption
    DEF TypeOK, LoginCounted, Beats, StartSteps, CloseSteps, SetCancel, loopVars,
        callVars, Goto
  <2>6. CancelHasTarget'
    BY <1>4 DEF TypeOK, CancelHasTarget, SetCancel, loopVars, callVars, Goto
  <2>7. ClosedByLoop' /\ StoppedByLoop'
    BY <1>4
    DEF TypeOK, ClosedByLoop, StoppedByLoop, OnlyFirstLoop, BodyRunsAlone, Body,
        SetCancel, loopVars, callVars, Goto
  <2> QED
    BY <2>2, <2>3, <2>4, <2>5, <2>6, <2>7 DEF IInv
<1>5. ASSUME NEW p \in Procs, SetDone(p) PROVE IInv'
  <2>1. NewBeat = 1 /\ 1 \in Beats
    BY <1>5, FirstBeat DEF BodyRunsAlone, Body, LoginCounted, StartSteps, SetDone
  <2>2. TypeOK'
    <3>1. Counters'
      BY <1>5, HeartbeatAssumption DEF TypeOK, Counters, SetDone, loopVars, callVars,
         Goto
    <3>2. Fields'
      BY <1>5, <2>1
      DEF TypeOK, Fields, StartSteps, CloseSteps, SetDone, loopVars, callVars, Goto
    <3> QED
      BY <3>1, <3>2 DEF TypeOK, Counters, Fields
  <2>3. BodyRunsAlone'
    BY <1>5
    DEF TypeOK, BodyRunsAlone, Body, StartSteps, CloseSteps, SetDone, loopVars,
        callVars, Goto
  <2>4. OnlyFirstLoop'
    BY <1>5, <2>1
    DEF TypeOK, BodyRunsAlone, OnlyFirstLoop, Body, StartSteps, CloseSteps, SetDone,
        loopVars, callVars, Goto
  <2>5. LoginCounted'
    BY <1>5, HeartbeatAssumption
    DEF TypeOK, LoginCounted, Beats, StartSteps, CloseSteps, SetDone, loopVars,
        callVars, Goto
  <2>6. CancelHasTarget'
    BY <1>5 DEF TypeOK, CancelHasTarget, SetDone, loopVars, callVars, Goto
  <2>7. ClosedByLoop' /\ StoppedByLoop'
    BY <1>5
    DEF TypeOK, ClosedByLoop, StoppedByLoop, OnlyFirstLoop, BodyRunsAlone, Body,
        SetDone, loopVars, callVars, Goto
  <2> QED
    BY <2>2, <2>3, <2>4, <2>5, <2>6, <2>7 DEF IInv
<1>6. ASSUME NEW p \in Procs, StartLoop(p) PROVE IInv'
  <2>1. TypeOK'
    <3>1. Counters'
      BY <1>6, HeartbeatAssumption DEF TypeOK, Counters, StartLoop, callVars, Goto
    <3>2. Fields'
      BY <1>6 DEF TypeOK, Fields, StartSteps, CloseSteps, StartLoop, callVars, Goto
    <3> QED
      BY <3>1, <3>2 DEF TypeOK, Counters, Fields
  <2>2. BodyRunsAlone'
    BY <1>6
    DEF TypeOK, BodyRunsAlone, Body, StartSteps, CloseSteps, StartLoop, callVars, Goto
  <2>3. OnlyFirstLoop'
    BY <1>6
    DEF TypeOK, BodyRunsAlone, OnlyFirstLoop, Body, StartSteps, CloseSteps, StartLoop,
        callVars, Goto
  <2>4. LoginCounted'
    BY <1>6, HeartbeatAssumption
    DEF TypeOK, LoginCounted, Beats, StartSteps, CloseSteps, StartLoop, callVars, Goto
  <2>5. CancelHasTarget'
    BY <1>6 DEF TypeOK, CancelHasTarget, StartLoop, callVars, Goto
  <2>6. ClosedByLoop' /\ StoppedByLoop'
    BY <1>6
    DEF TypeOK, ClosedByLoop, StoppedByLoop, OnlyFirstLoop, BodyRunsAlone, Body,
        StartLoop, callVars, Goto
  <2> QED
    BY <2>1, <2>2, <2>3, <2>4, <2>5, <2>6 DEF IInv
<1>7. ASSUME NEW p \in Procs, LoginReturn(p) PROVE IInv'
  <2>1. TypeOK'
    <3>1. Counters'
      BY <1>7, HeartbeatAssumption
      DEF TypeOK, Counters, LoginReturn, clientVars, loopVars, Goto
    <3>2. Fields'
      BY <1>7
      DEF TypeOK, Fields, StartSteps, CloseSteps, LoginReturn, clientVars, loopVars,
          Goto
    <3> QED
      BY <3>1, <3>2 DEF TypeOK, Counters, Fields
  <2>2. BodyRunsAlone'
    BY <1>7
    DEF TypeOK, BodyRunsAlone, Body, StartSteps, CloseSteps, LoginReturn, clientVars,
        loopVars, Goto
  <2>3. OnlyFirstLoop'
    BY <1>7
    DEF TypeOK, BodyRunsAlone, OnlyFirstLoop, Body, StartSteps, CloseSteps,
        LoginReturn, clientVars, loopVars, Goto
  <2>4. LoginCounted'
    BY <1>7, HeartbeatAssumption
    DEF TypeOK, LoginCounted, Beats, StartSteps, CloseSteps, LoginReturn, clientVars,
        loopVars, Goto
  <2>5. CancelHasTarget'
    BY <1>7 DEF TypeOK, CancelHasTarget, LoginReturn, clientVars, loopVars, Goto
  <2>6. ClosedByLoop' /\ StoppedByLoop'
    BY <1>7
    DEF TypeOK, ClosedByLoop, StoppedByLoop, OnlyFirstLoop, BodyRunsAlone, Body,
        LoginReturn, clientVars, loopVars, Goto
  <2> QED
    BY <2>1, <2>2, <2>3, <2>4, <2>5, <2>6 DEF IInv
<1>8. ASSUME NEW b \in Beats, Tick(b) PROVE IInv'
  <2>1. TypeOK'
    <3>1. Counters'
      BY <1>8, HeartbeatAssumption DEF TypeOK, Counters, Tick, clientVars, callVars
    <3>2. Fields'
      BY <1>8 DEF TypeOK, Fields, StartSteps, CloseSteps, Tick, clientVars, callVars
    <3> QED
      BY <3>1, <3>2 DEF TypeOK, Counters, Fields
  <2>2. BodyRunsAlone'
    BY <1>8
    DEF TypeOK, BodyRunsAlone, Body, StartSteps, CloseSteps, Tick, clientVars,
        callVars
  <2>3. OnlyFirstLoop'
    BY <1>8
    DEF TypeOK, BodyRunsAlone, OnlyFirstLoop, Body, StartSteps, CloseSteps, Tick,
        clientVars, callVars
  <2>4. LoginCounted'
    BY <1>8, HeartbeatAssumption
    DEF TypeOK, LoginCounted, Beats, StartSteps, CloseSteps, Tick, clientVars,
        callVars
  <2>5. CancelHasTarget'
    BY <1>8 DEF TypeOK, CancelHasTarget, Tick, clientVars, callVars
  <2>6. ClosedByLoop' /\ StoppedByLoop'
    BY <1>8
    DEF TypeOK, ClosedByLoop, StoppedByLoop, OnlyFirstLoop, BodyRunsAlone, Body, Tick,
        clientVars, callVars
  <2> QED
    BY <2>1, <2>2, <2>3, <2>4, <2>5, <2>6 DEF IInv
<1>9. ASSUME NEW b \in Beats, LoopRead(b) PROVE IInv'
  <2>1. TypeOK'
    <3>1. Counters'
      BY <1>9, HeartbeatAssumption DEF TypeOK, Counters, LoopRead, clientVars,
         callVars
    <3>2. Fields'
      BY <1>9 DEF TypeOK, Fields, StartSteps, CloseSteps, LoopRead, clientVars,
         callVars
    <3> QED
      BY <3>1, <3>2 DEF TypeOK, Counters, Fields
  <2>2. BodyRunsAlone'
    BY <1>9
    DEF TypeOK, BodyRunsAlone, Body, StartSteps, CloseSteps, LoopRead, clientVars,
        callVars
  <2>3. OnlyFirstLoop'
    BY <1>9
    DEF TypeOK, BodyRunsAlone, OnlyFirstLoop, Body, StartSteps, CloseSteps, LoopRead,
        clientVars, callVars
  <2>4. LoginCounted'
    BY <1>9, HeartbeatAssumption
    DEF TypeOK, LoginCounted, Beats, StartSteps, CloseSteps, LoopRead, clientVars,
        callVars
  <2>5. CancelHasTarget'
    BY <1>9 DEF TypeOK, CancelHasTarget, LoopRead, clientVars, callVars
  <2>6. ClosedByLoop' /\ StoppedByLoop'
    BY <1>9
    DEF TypeOK, ClosedByLoop, StoppedByLoop, OnlyFirstLoop, BodyRunsAlone, Body,
        LoopRead, clientVars, callVars
  <2> QED
    BY <2>1, <2>2, <2>3, <2>4, <2>5, <2>6 DEF IInv
<1>10. ASSUME NEW b \in Beats, LoopReadReturns(b) PROVE IInv'
  <2>1. TypeOK'
    <3>1. Counters'
      BY <1>10, HeartbeatAssumption
      DEF TypeOK, Counters, LoopReadReturns, clientVars, callVars
    <3>2. Fields'
      BY <1>10
      DEF TypeOK, Fields, StartSteps, CloseSteps, LoopReadReturns, clientVars,
          callVars
    <3> QED
      BY <3>1, <3>2 DEF TypeOK, Counters, Fields
  <2>2. BodyRunsAlone'
    BY <1>10
    DEF TypeOK, BodyRunsAlone, Body, StartSteps, CloseSteps, LoopReadReturns,
        clientVars, callVars
  <2>3. OnlyFirstLoop'
    BY <1>10
    DEF TypeOK, BodyRunsAlone, OnlyFirstLoop, Body, StartSteps, CloseSteps,
        LoopReadReturns, clientVars, callVars
  <2>4. LoginCounted'
    BY <1>10, HeartbeatAssumption
    DEF TypeOK, LoginCounted, Beats, StartSteps, CloseSteps, LoopReadReturns,
        clientVars, callVars
  <2>5. CancelHasTarget'
    BY <1>10 DEF TypeOK, CancelHasTarget, LoopReadReturns, clientVars, callVars
  <2>6. ClosedByLoop' /\ StoppedByLoop'
    BY <1>10
    DEF TypeOK, ClosedByLoop, StoppedByLoop, OnlyFirstLoop, BodyRunsAlone, Body,
        LoopReadReturns, clientVars, callVars
  <2> QED
    BY <2>1, <2>2, <2>3, <2>4, <2>5, <2>6 DEF IInv
<1>11. ASSUME NEW b \in Beats, LoopStop(b) PROVE IInv'
  <2>1. TypeOK'
    <3>1. Counters'
      BY <1>11, HeartbeatAssumption DEF TypeOK, Counters, LoopStop, clientVars,
         callVars
    <3>2. Fields'
      BY <1>11 DEF TypeOK, Fields, StartSteps, CloseSteps, LoopStop, clientVars,
         callVars
    <3> QED
      BY <3>1, <3>2 DEF TypeOK, Counters, Fields
  <2>2. BodyRunsAlone'
    BY <1>11
    DEF TypeOK, BodyRunsAlone, Body, StartSteps, CloseSteps, LoopStop, clientVars,
        callVars
  <2>3. OnlyFirstLoop'
    BY <1>11
    DEF TypeOK, BodyRunsAlone, OnlyFirstLoop, Body, StartSteps, CloseSteps, LoopStop,
        clientVars, callVars
  <2>4. LoginCounted'
    BY <1>11, HeartbeatAssumption
    DEF TypeOK, LoginCounted, Beats, StartSteps, CloseSteps, LoopStop, clientVars,
        callVars
  <2>5. CancelHasTarget'
    BY <1>11 DEF TypeOK, CancelHasTarget, LoopStop, clientVars, callVars
  <2>6. ClosedByLoop' /\ StoppedByLoop'
    BY <1>11
    DEF TypeOK, ClosedByLoop, StoppedByLoop, OnlyFirstLoop, BodyRunsAlone, Body,
        LoopStop, clientVars, callVars
  <2> QED
    BY <2>1, <2>2, <2>3, <2>4, <2>5, <2>6 DEF IInv
<1>12. ASSUME NEW p \in Procs, CloseBegin(p) PROVE IInv'
  <2>1. TypeOK'
    <3>1. Counters'
      BY <1>12, HeartbeatAssumption
      DEF TypeOK, Counters, CloseBegin, clientVars, loopVars, Goto
    <3>2. Fields'
      BY <1>12
      DEF TypeOK, Fields, StartSteps, CloseSteps, CloseBegin, clientVars, loopVars,
          Goto
    <3> QED
      BY <3>1, <3>2 DEF TypeOK, Counters, Fields
  <2>2. BodyRunsAlone'
    BY <1>12
    DEF TypeOK, BodyRunsAlone, Body, StartSteps, CloseSteps, CloseBegin, clientVars,
        loopVars, Goto
  <2>3. OnlyFirstLoop'
    BY <1>12
    DEF TypeOK, BodyRunsAlone, OnlyFirstLoop, Body, StartSteps, CloseSteps,
        CloseBegin, clientVars, loopVars, Goto
  <2>4. LoginCounted'
    BY <1>12, HeartbeatAssumption
    DEF TypeOK, LoginCounted, Beats, StartSteps, CloseSteps, CloseBegin, clientVars,
        loopVars, Goto
  <2>5. CancelHasTarget'
    BY <1>12 DEF TypeOK, CancelHasTarget, CloseBegin, clientVars, loopVars, Goto
  <2>6. ClosedByLoop' /\ StoppedByLoop'
    BY <1>12
    DEF TypeOK, ClosedByLoop, StoppedByLoop, OnlyFirstLoop, BodyRunsAlone, Body,
        CloseBegin, clientVars, loopVars, Goto
  <2> QED
    BY <2>1, <2>2, <2>3, <2>4, <2>5, <2>6 DEF IInv
<1>13. ASSUME NEW p \in Procs, CloseReadCancel(p) PROVE IInv'
  <2>1. TypeOK'
    <3>1. Counters'
      BY <1>13, HeartbeatAssumption
      DEF TypeOK, Counters, CloseReadCancel, Reads, clientVars, loopVars, callVars,
          Goto
    <3>2. Fields'
      BY <1>13
      DEF TypeOK, Fields, StartSteps, CloseSteps, CloseReadCancel, Reads, clientVars,
          loopVars, callVars, Goto
    <3> QED
      BY <3>1, <3>2 DEF TypeOK, Counters, Fields
  <2>2. BodyRunsAlone'
    BY <1>13
    DEF TypeOK, BodyRunsAlone, Body, StartSteps, CloseSteps, CloseReadCancel, Reads,
        clientVars, loopVars, callVars, Goto
  <2>3. OnlyFirstLoop'
    BY <1>13
    DEF TypeOK, BodyRunsAlone, OnlyFirstLoop, Body, StartSteps, CloseSteps,
        CloseReadCancel, Reads, clientVars, loopVars, callVars, Goto
  <2>4. LoginCounted'
    BY <1>13, HeartbeatAssumption
    DEF TypeOK, LoginCounted, Beats, StartSteps, CloseSteps, CloseReadCancel, Reads,
        clientVars, loopVars, callVars, Goto
  <2>5. CancelHasTarget'
    BY <1>13
    DEF TypeOK, CancelHasTarget, CloseReadCancel, Reads, clientVars, loopVars,
        callVars, Goto
  <2>6. ClosedByLoop' /\ StoppedByLoop'
    BY <1>13
    DEF TypeOK, ClosedByLoop, StoppedByLoop, OnlyFirstLoop, BodyRunsAlone, Body,
        CloseReadCancel, Reads, clientVars, loopVars, callVars, Goto
  <2> QED
    BY <2>1, <2>2, <2>3, <2>4, <2>5, <2>6 DEF IInv
<1>14. ASSUME NEW p \in Procs, CloseCancel(p) PROVE IInv'
  <2>1. TypeOK'
    <3>1. Counters'
      BY <1>14, HeartbeatAssumption
      DEF TypeOK, Counters, CloseCancel, clientVars, callVars, Goto
    <3>2. Fields'
      BY <1>14
      DEF TypeOK, Fields, StartSteps, CloseSteps, CancelHasTarget, CloseCancel,
          clientVars, callVars, Goto
    <3> QED
      BY <3>1, <3>2 DEF TypeOK, Counters, Fields
  <2>2. BodyRunsAlone'
    BY <1>14
    DEF TypeOK, BodyRunsAlone, Body, StartSteps, CloseSteps, CloseCancel, clientVars,
        callVars, Goto
  <2>3. OnlyFirstLoop'
    BY <1>14
    DEF TypeOK, BodyRunsAlone, OnlyFirstLoop, Body, StartSteps, CloseSteps,
        CloseCancel, clientVars, callVars, Goto
  <2>4. LoginCounted'
    BY <1>14, HeartbeatAssumption
    DEF TypeOK, LoginCounted, Beats, StartSteps, CloseSteps, CloseCancel, clientVars,
        callVars, Goto
  <2>5. CancelHasTarget'
    BY <1>14 DEF TypeOK, CancelHasTarget, CloseCancel, clientVars, callVars, Goto
  <2>6. ClosedByLoop' /\ StoppedByLoop'
    BY <1>14
    DEF TypeOK, ClosedByLoop, StoppedByLoop, OnlyFirstLoop, BodyRunsAlone, Body,
        CloseCancel, clientVars, callVars, Goto
  <2> QED
    BY <2>1, <2>2, <2>3, <2>4, <2>5, <2>6 DEF IInv
<1>15. ASSUME NEW p \in Procs, CloseReadDone(p) PROVE IInv'
  <2>1. TypeOK'
    <3>1. Counters'
      BY <1>15, HeartbeatAssumption
      DEF TypeOK, Counters, CloseReadDone, Reads, clientVars, loopVars, callVars, Goto
    <3>2. Fields'
      BY <1>15
      DEF TypeOK, Fields, StartSteps, CloseSteps, CloseReadDone, Reads, clientVars,
          loopVars, callVars, Goto
    <3> QED
      BY <3>1, <3>2 DEF TypeOK, Counters, Fields
  <2>2. BodyRunsAlone'
    BY <1>15
    DEF TypeOK, BodyRunsAlone, Body, StartSteps, CloseSteps, CloseReadDone, Reads,
        clientVars, loopVars, callVars, Goto
  <2>3. OnlyFirstLoop'
    BY <1>15
    DEF TypeOK, BodyRunsAlone, OnlyFirstLoop, Body, StartSteps, CloseSteps,
        CloseReadDone, Reads, clientVars, loopVars, callVars, Goto
  <2>4. LoginCounted'
    BY <1>15, HeartbeatAssumption
    DEF TypeOK, LoginCounted, Beats, StartSteps, CloseSteps, CloseReadDone, Reads,
        clientVars, loopVars, callVars, Goto
  <2>5. CancelHasTarget'
    BY <1>15
    DEF TypeOK, CancelHasTarget, CloseReadDone, Reads, clientVars, loopVars, callVars,
        Goto
  <2>6. ClosedByLoop' /\ StoppedByLoop'
    BY <1>15
    DEF TypeOK, ClosedByLoop, StoppedByLoop, OnlyFirstLoop, BodyRunsAlone, Body,
        CloseReadDone, Reads, clientVars, loopVars, callVars, Goto
  <2> QED
    BY <2>1, <2>2, <2>3, <2>4, <2>5, <2>6 DEF IInv
<1>16. ASSUME NEW p \in Procs, CloseReturn(p) PROVE IInv'
  <2>1. TypeOK'
    <3>1. Counters'
      BY <1>16, HeartbeatAssumption
      DEF TypeOK, Counters, CloseReturn, DoneReceived, clientVars, loopVars, Goto
    <3>2. Fields'
      BY <1>16
      DEF TypeOK, Fields, StartSteps, CloseSteps, CloseReturn, DoneReceived,
          clientVars,
          loopVars, Goto
    <3> QED
      BY <3>1, <3>2 DEF TypeOK, Counters, Fields
  <2>2. BodyRunsAlone'
    BY <1>16
    DEF TypeOK, BodyRunsAlone, Body, StartSteps, CloseSteps, CloseReturn,
        DoneReceived, clientVars, loopVars, Goto
  <2>3. OnlyFirstLoop'
    BY <1>16
    DEF TypeOK, BodyRunsAlone, OnlyFirstLoop, Body, StartSteps, CloseSteps,
        CloseReturn, DoneReceived, clientVars, loopVars, Goto
  <2>4. LoginCounted'
    BY <1>16, HeartbeatAssumption
    DEF TypeOK, LoginCounted, Beats, StartSteps, CloseSteps, CloseReturn,
        DoneReceived, clientVars, loopVars, Goto
  <2>5. CancelHasTarget'
    BY <1>16
    DEF TypeOK, CancelHasTarget, CloseReturn, DoneReceived, clientVars, loopVars, Goto
  <2>6. ClosedByLoop' /\ StoppedByLoop'
    BY <1>16
    DEF TypeOK, ClosedByLoop, StoppedByLoop, OnlyFirstLoop, BodyRunsAlone, Body,
        CloseReturn, DoneReceived, clientVars, loopVars, Goto
  <2> QED
    BY <2>1, <2>2, <2>3, <2>4, <2>5, <2>6 DEF IInv
<1>17. CASE UNCHANGED vars
  BY <1>17
  DEF vars, IInv, TypeOK, BodyRunsAlone, OnlyFirstLoop, LoginCounted, CancelHasTarget,
      ClosedByLoop, StoppedByLoop
<1> QED
  BY <1>1, <1>2, <1>3, <1>4, <1>5, <1>6, <1>7, <1>8, <1>9, <1>10, <1>11, <1>12, <1>13,
     <1>14, <1>15, <1>16, <1>17
  DEF Next, StartHeartbeat, CloseProceeds, HeartbeatLoop

\* The invariant holds of every reachable state.
LEMMA Inductive == Spec => []IInv
BY InitIInv, NextIInv, PTL DEF Spec

\* Every reachable state is type correct.
THEOREM TypeCorrect == Spec => []TypeOK
<1>1. IInv => TypeOK
  BY DEF IInv
<1> QED
  BY <1>1, Inductive, PTL

\* A Client never runs two heartbeat loops (hbOnce).
THEOREM NeverTwoLoops == Spec => []AtMostOneLoop
<1>1. ASSUME IInv PROVE AtMostOneLoop
  <2>1. Live \subseteq {1}
    BY <1>1 DEF IInv, OnlyFirstLoop, Live
  <2>2. CASE Live = {}
    BY <2>2, FS_EmptySet DEF AtMostOneLoop
  <2>3. CASE Live = {1}
    <3>1. Cardinality({1}) = 1
      BY FS_Singleton
    <3> QED
      BY <2>3, <3>1 DEF AtMostOneLoop
  <2> QED
    BY <2>1, <2>2, <2>3
<1> QED
  BY <1>1, Inductive, PTL

\* When a Close that waited has returned, no loop is left, even if it raced
\* the Login that started it or Logins followed (Close waits on hbDone).
THEOREM ClosedForGood == Spec => []ClosedMeansStopped
<1>1. ASSUME IInv PROVE ClosedMeansStopped
  BY <1>1 DEF IInv, TypeOK, OnlyFirstLoop, ClosedByLoop, StoppedByLoop,
     ClosedMeansStopped, Live
<1> QED
  BY <1>1, Inductive, PTL

-----------------------------------------------------------------------------
(* The documented use: no Login after a Close, and no Close while a Login   *)
(* is in progress.                                                          *)

\* Until a Close begins, the one loop is there and nothing cancels it.
RunsUntilClose ==
    closes = 0 => cancelled = {} /\ Closing = {} /\ (once = "done" => 1 \in Live)

\* No Login is in progress once a Close began, and none follows.
OverAfterClose == closes # 0 => ~open /\ Starting = {}

\* A Login returns only when the body of the Once has.
ReturnsAfterStart ==
    /\ \A p \in Procs : pc[p] = "return" => once = "done"
    /\ open => once = "done"

DocumentedInv == RunsUntilClose /\ OverAfterClose /\ ReturnsAfterStart

\* Every step keeps the invariant, and with it that of the documented use.
LEMMA NextDocumentedInv ==
  ASSUME LoginAfterClose = FALSE, CloseRaces = FALSE,
         IInv, DocumentedInv, [Next]_vars
  PROVE  DocumentedInv'
<1>0. TypeOK /\ BodyRunsAlone /\ OnlyFirstLoop
  BY DEF IInv
<1>t. Counters
  BY <1>0 DEF TypeOK, Counters
<1>1. ASSUME NEW p \in Procs, LoginBegin(p) PROVE DocumentedInv'
  BY <1>1, <1>0, HeartbeatAssumption, <1>t
  DEF DocumentedInv, RunsUntilClose, OverAfterClose, ReturnsAfterStart, Starting,
      Closing, StartSteps, CloseSteps, Live, TypeOK, Counters, LoginBegin, clientVars,
      loopVars, Goto
<1>2. ASSUME NEW p \in Procs, OnceRuns(p) PROVE DocumentedInv'
  BY <1>2, <1>0
  DEF DocumentedInv, RunsUntilClose, OverAfterClose, ReturnsAfterStart, Starting,
      Closing, StartSteps, CloseSteps, Live, TypeOK, OnceRuns, OnceAdmits, loopVars,
      callVars, Goto
<1>3. ASSUME NEW p \in Procs, OnceSkips(p) PROVE DocumentedInv'
  BY <1>3, <1>0
  DEF DocumentedInv, RunsUntilClose, OverAfterClose, ReturnsAfterStart, Starting,
      Closing, StartSteps, CloseSteps, Live, TypeOK, OnceSkips, OnceAdmits,
      clientVars, loopVars, callVars, Goto
<1>4. ASSUME NEW p \in Procs, SetCancel(p) PROVE DocumentedInv'
  BY <1>4, <1>0
  DEF DocumentedInv, RunsUntilClose, OverAfterClose, ReturnsAfterStart, Starting,
      Closing, StartSteps, CloseSteps, Live, TypeOK, SetCancel, loopVars, callVars,
      Goto
<1>5. ASSUME NEW p \in Procs, SetDone(p) PROVE DocumentedInv'
  BY <1>5, <1>0
  DEF DocumentedInv, RunsUntilClose, OverAfterClose, ReturnsAfterStart, Starting,
      Closing, StartSteps, CloseSteps, Live, TypeOK, SetDone, loopVars, callVars, Goto
<1>6. ASSUME NEW p \in Procs, StartLoop(p) PROVE DocumentedInv'
  BY <1>6, <1>0
  DEF DocumentedInv, RunsUntilClose, OverAfterClose, ReturnsAfterStart, Starting,
      Closing, StartSteps, CloseSteps, Live, TypeOK, OnlyFirstLoop, BodyRunsAlone,
      Body, StartLoop, callVars, Goto
<1>7. ASSUME NEW p \in Procs, LoginReturn(p) PROVE DocumentedInv'
  BY <1>7, <1>0
  DEF DocumentedInv, RunsUntilClose, OverAfterClose, ReturnsAfterStart, Starting,
      Closing, StartSteps, CloseSteps, Live, TypeOK, LoginReturn, clientVars,
      loopVars, Goto
<1>8. ASSUME NEW b \in Beats, Tick(b) PROVE DocumentedInv'
  BY <1>8, <1>0
  DEF DocumentedInv, RunsUntilClose, OverAfterClose, ReturnsAfterStart, Starting,
      Closing, StartSteps, CloseSteps, Live, TypeOK, Tick, clientVars, callVars
<1>9. ASSUME NEW b \in Beats, LoopRead(b) PROVE DocumentedInv'
  BY <1>9, <1>0
  DEF DocumentedInv, RunsUntilClose, OverAfterClose, ReturnsAfterStart, Starting,
      Closing, StartSteps, CloseSteps, Live, TypeOK, LoopRead, clientVars, callVars
<1>10. ASSUME NEW b \in Beats, LoopReadReturns(b) PROVE DocumentedInv'
  BY <1>10, <1>0
  DEF DocumentedInv, RunsUntilClose, OverAfterClose, ReturnsAfterStart, Starting,
      Closing, StartSteps, CloseSteps, Live, TypeOK, LoopReadReturns, clientVars,
      callVars
<1>11. ASSUME NEW b \in Beats, LoopStop(b) PROVE DocumentedInv'
  BY <1>11, <1>0
  DEF DocumentedInv, RunsUntilClose, OverAfterClose, ReturnsAfterStart, Starting,
      Closing, StartSteps, CloseSteps, Live, TypeOK, LoopStop, clientVars, callVars
<1>12. ASSUME NEW p \in Procs, CloseBegin(p) PROVE DocumentedInv'
  BY <1>12, <1>0, HeartbeatAssumption, <1>t
  DEF DocumentedInv, RunsUntilClose, OverAfterClose, ReturnsAfterStart, Starting,
      Closing, StartSteps, CloseSteps, Live, TypeOK, Counters, CloseBegin, clientVars,
      loopVars, Goto
<1>13. ASSUME NEW p \in Procs, CloseReadCancel(p) PROVE DocumentedInv'
  BY <1>13, <1>0
  DEF DocumentedInv, RunsUntilClose, OverAfterClose, ReturnsAfterStart, Starting,
      Closing, StartSteps, CloseSteps, Live, TypeOK, CloseReadCancel, Reads,
      clientVars, loopVars, callVars, Goto
<1>14. ASSUME NEW p \in Procs, CloseCancel(p) PROVE DocumentedInv'
  BY <1>14, <1>0
  DEF DocumentedInv, RunsUntilClose, OverAfterClose, ReturnsAfterStart, Starting,
      Closing, StartSteps, CloseSteps, Live, TypeOK, CloseCancel, clientVars,
      callVars, Goto
<1>15. ASSUME NEW p \in Procs, CloseReadDone(p) PROVE DocumentedInv'
  BY <1>15, <1>0
  DEF DocumentedInv, RunsUntilClose, OverAfterClose, ReturnsAfterStart, Starting,
      Closing, StartSteps, CloseSteps, Live, TypeOK, CloseReadDone, Reads, clientVars,
      loopVars, callVars, Goto
<1>16. ASSUME NEW p \in Procs, CloseReturn(p) PROVE DocumentedInv'
  BY <1>16, <1>0
  DEF DocumentedInv, RunsUntilClose, OverAfterClose, ReturnsAfterStart, Starting,
      Closing, StartSteps, CloseSteps, Live, TypeOK, CloseReturn, DoneReceived,
      clientVars, loopVars, Goto
<1>17. CASE UNCHANGED vars
  BY <1>17
  DEF vars, DocumentedInv, RunsUntilClose, OverAfterClose, ReturnsAfterStart,
      Starting, Closing, Live
<1> QED
  BY <1>1, <1>2, <1>3, <1>4, <1>5, <1>6, <1>7, <1>8, <1>9, <1>10, <1>11, <1>12, <1>13,
     <1>14, <1>15, <1>16, <1>17
  DEF Next, StartHeartbeat, CloseProceeds, HeartbeatLoop

\* After a Login and until the next Close the heartbeat runs, for a Client
\* that is used as documented: otherwise a Login after a Close starts no
\* loop, and a Close that races a Login stops the loop of a Client whose
\* Login then returns.
THEOREM BeatsWhileOpen ==
  ASSUME LoginAfterClose = FALSE, CloseRaces = FALSE
  PROVE  Spec => []HeartbeatWhileOpen
<1>1. Init => DocumentedInv
  BY DEF Init, DocumentedInv, RunsUntilClose, OverAfterClose, ReturnsAfterStart,
     Closing, CloseSteps
<1>2. IInv /\ DocumentedInv /\ [Next]_vars => DocumentedInv'
  BY NextDocumentedInv
<1>3. DocumentedInv => HeartbeatWhileOpen
  BY DEF DocumentedInv, RunsUntilClose, OverAfterClose, ReturnsAfterStart,
     HeartbeatWhileOpen
<1> QED
  BY <1>1, <1>2, <1>3, Inductive, PTL DEF Spec

-----------------------------------------------------------------------------
(* No Close races a Login, but Logins may follow a Close.                   *)

\* What Close waits for will come: the done channel of a loop that was started
\* and told to end, never nil, and never one the loop left open.
AwaitsCancelledLoop ==
    \A p \in Procs : pc[p] = "waitDone" =>
        /\ target[p] \in cancelled
        /\ target[p] \in Live \/ target[p] \in closed

\* Close and startHeartbeat keep out of each other's way.
Apart == Closing = {} \/ Starting = {}

\* The Once is running only while a goroutine is in its body.
RunningInBody == once = "running" => \E p \in Procs : pc[p] \in Body

\* The fields are published in the body, hbCancel first.
FieldsPublished ==
    /\ once = "fresh" => hbCancel = 0 /\ hbDone = 0
    /\ once = "done" => hbCancel = 1 /\ hbDone = 1 /\ 1 \in Beats /\ loop[1] # "none"
    /\ \A p \in Procs : pc[p] \in {"setDone", "startLoop"} => hbCancel = 1

\* A Close that found a heartbeat found the one there is, and cancels it before
\* it waits.
CloseHasLoop ==
    \A p \in Procs :
        /\ pc[p] = "cancel" => once = "done" /\ target[p] = 1
        /\ pc[p] = "readDone" => once = "done" /\ 1 \in cancelled
        /\ pc[p] = "waitDone" => once = "done" /\ 1 \in cancelled /\ target[p] = 1

\* A loop that has returned has closed its done channel.
ExitCloses == \A b \in Beats : loop[b] = "exited" => b \in closed

WaitInv == Apart /\ RunningInBody /\ FieldsPublished /\ CloseHasLoop /\ ExitCloses

\* Every step keeps the invariant, and with it what Close waits for.
LEMMA NextWaitInv ==
  ASSUME CloseRaces = FALSE, IInv, WaitInv, [Next]_vars
  PROVE  WaitInv'
<1>0. TypeOK /\ BodyRunsAlone /\ OnlyFirstLoop /\ LoginCounted
  BY DEF IInv
<1>t. Fields
  BY <1>0 DEF TypeOK, Fields
<1> USE DEF WaitInv, Apart, RunningInBody, FieldsPublished, CloseHasLoop, ExitCloses,
            Closing, Starting, StartSteps, CloseSteps, Body, Fields, clientVars, loopVars,
            callVars, Goto
<1>1. ASSUME NEW p \in Procs, LoginBegin(p) PROVE WaitInv'
  BY <1>1, <1>t DEF LoginBegin
<1>2. ASSUME NEW p \in Procs, OnceRuns(p) PROVE WaitInv'
  BY <1>2, <1>t, <1>0 DEF BodyRunsAlone, OnlyFirstLoop, LoginCounted, OnceRuns, OnceAdmits
<1>3. ASSUME NEW p \in Procs, OnceSkips(p) PROVE WaitInv'
  BY <1>3, <1>t, <1>0 DEF BodyRunsAlone, OnlyFirstLoop, LoginCounted, OnceSkips, OnceAdmits
<1>4. ASSUME NEW p \in Procs, SetCancel(p) PROVE WaitInv'
  <2>1. once = "running" /\ pc[p] = "setCancel"
    BY <1>4, <1>0 DEF BodyRunsAlone, SetCancel
  <2>2. NewBeat = 1
    BY <1>0, <2>1, FirstBeat
  <2>3. /\ hbCancel' = 1 /\ pc' = [pc EXCEPT ![p] = "setDone"]
        /\ UNCHANGED <<once, hbDone, cancelled, closed, loop, target>>
    BY <1>4, <2>2 DEF SetCancel
  <2>4. Apart' /\ CloseHasLoop' /\ ExitCloses'
    BY <1>t, <2>1, <2>3
  <2>5. RunningInBody'
    BY <1>t, <2>3
  <2>6. FieldsPublished'
    BY <1>t, <2>1, <2>3
  <2> QED
    BY <2>4, <2>5, <2>6
<1>5. ASSUME NEW p \in Procs, SetDone(p) PROVE WaitInv'
  BY <1>5, <1>t, <1>0 DEF BodyRunsAlone, OnlyFirstLoop, LoginCounted, SetDone
<1>6. ASSUME NEW p \in Procs, StartLoop(p) PROVE WaitInv'
  BY <1>6, <1>t, <1>0 DEF BodyRunsAlone, OnlyFirstLoop, LoginCounted, StartLoop
<1>7. ASSUME NEW p \in Procs, LoginReturn(p) PROVE WaitInv'
  BY <1>7, <1>t, <1>0 DEF BodyRunsAlone, OnlyFirstLoop, LoginCounted, LoginReturn
<1>8. ASSUME NEW b \in Beats, Tick(b) PROVE WaitInv'
  BY <1>8, <1>t DEF Tick
<1>9. ASSUME NEW b \in Beats, LoopRead(b) PROVE WaitInv'
  BY <1>9, <1>t DEF LoopRead
<1>10. ASSUME NEW b \in Beats, LoopReadReturns(b) PROVE WaitInv'
  BY <1>10, <1>t DEF LoopReadReturns
<1>11. ASSUME NEW b \in Beats, LoopStop(b) PROVE WaitInv'
  BY <1>11, <1>t DEF LoopStop
<1>12. ASSUME NEW p \in Procs, CloseBegin(p) PROVE WaitInv'
  BY <1>12, <1>t DEF CloseBegin
<1>13. ASSUME NEW p \in Procs, CloseReadCancel(p) PROVE WaitInv'
  BY <1>13, <1>t DEF CloseReadCancel, Reads
<1>14. ASSUME NEW p \in Procs, CloseCancel(p) PROVE WaitInv'
  BY <1>14, <1>t DEF CloseCancel
<1>15. ASSUME NEW p \in Procs, CloseReadDone(p) PROVE WaitInv'
  BY <1>15, <1>t DEF CloseReadDone, Reads
<1>16. ASSUME NEW p \in Procs, CloseReturn(p) PROVE WaitInv'
  BY <1>16, <1>t DEF CloseReturn, DoneReceived
<1>17. CASE UNCHANGED vars
  BY <1>17 DEF vars
<1> QED
  BY <1>1, <1>2, <1>3, <1>4, <1>5, <1>6, <1>7, <1>8, <1>9, <1>10, <1>11, <1>12, <1>13,
     <1>14, <1>15, <1>16, <1>17
  DEF Next, StartHeartbeat, CloseProceeds, HeartbeatLoop

\* A Close that does not race a Login never waits on a channel nobody will
\* close: it waits for a loop that was started and whose context it or another
\* Close has cancelled, or that has already closed its done channel.  (That
\* the loop then closes it rests on fairness: CloseReturns is model-checked.)
THEOREM CloseAwaitsCancelledLoop ==
  ASSUME CloseRaces = FALSE
  PROVE  Spec => []AwaitsCancelledLoop
<1>1. Init => WaitInv
  BY DEF Init, WaitInv, Apart, Closing, CloseSteps, RunningInBody, FieldsPublished,
     CloseHasLoop, ExitCloses
<1>2. IInv /\ WaitInv /\ [Next]_vars => WaitInv'
  BY NextWaitInv
<1>3. ASSUME IInv, WaitInv PROVE AwaitsCancelledLoop
  <2>1. Fields
    BY <1>3 DEF IInv, TypeOK, Fields
  <2> QED
    BY <1>3, <2>1
    DEF WaitInv, FieldsPublished, CloseHasLoop, ExitCloses, AwaitsCancelledLoop, Live, Fields
<1> QED
  BY <1>1, <1>2, <1>3, Inductive, PTL DEF Spec

=============================================================================
