------------------------------ MODULE ScanProofs -----------------------------
(* Theorems about Scan, for every set of devices, every capacity of the two *)
(* channels and every number of callbacks and of changes in BlueZ.          *)
EXTENDS Scan, SequenceTheorems, TLAPS

-----------------------------------------------------------------------------
(* Properties and signals                                                  *)

\* A device nothing is known of has no properties.
LEMMA NoPropertiesType == Linux!NoProperties \in Linux!Properties /\ DOMAIN Linux!NoProperties = {}
<1>1. Linux!NoProperties \in [{} -> {"wanted", "unwanted"}]
  BY DEF Linux!NoProperties
<1>2. {} \in SUBSET {"mfg", "name"}
  OBVIOUS
<1> QED
  BY <1>1, <1>2 DEF Linux!Properties, Linux!NoProperties

\* What properties are.
LEMMA PropertiesType ==
    ASSUME NEW p
    PROVE  p \in Linux!Properties <=>
              \E keys \in SUBSET {"mfg", "name"} : p \in [keys -> {"wanted", "unwanted"}]
  BY DEF Linux!Properties

\* Merging keeps the newer value of each property and adds what is missing.
LEMMA OverMerges ==
    ASSUME NEW a \in Linux!Properties, NEW b \in Linux!Properties
    PROVE  /\ Linux!Over(b, a) \in Linux!Properties
           /\ DOMAIN Linux!Over(b, a) = DOMAIN b \union DOMAIN a
           /\ \A key \in DOMAIN b : Linux!Over(b, a)[key] = b[key]
           /\ \A key \in DOMAIN a \ DOMAIN b : Linux!Over(b, a)[key] = a[key]
<1>1. PICK A \in SUBSET {"mfg", "name"} : a \in [A -> {"wanted", "unwanted"}]
  BY PropertiesType
<1>2. PICK B \in SUBSET {"mfg", "name"} : b \in [B -> {"wanted", "unwanted"}]
  BY PropertiesType
<1>3. Linux!Over(b, a) \in [B \union A -> {"wanted", "unwanted"}]
  BY <1>1, <1>2 DEF Linux!Over
<1>4. Linux!Over(b, a) \in Linux!Properties
  BY <1>3, PropertiesType
<1> QED
  BY <1>4 DEF Linux!Over

-----------------------------------------------------------------------------
\* Nothing scanned yet, the types and the invariant hold.
LEMMA InitScan == Init => TypeOK /\ ScanInv
<1> SUFFICES ASSUME Init PROVE TypeOK /\ ScanInv
  OBVIOUS
<1>e. << >> \in Seq(Linux!Signals) /\ << >> \in Seq(Devices) /\ Len(<< >>) = 0 /\ DOMAIN << >> = {}
  OBVIOUS
<1>1. Linux!TypeOK
  <2>1. sigs = << >> /\ out = << >>
    BY DEF Init, Linux!Init
  <2>2. Len(sigs) <= SigCap /\ Len(out) <= OutCap /\ events \in 0 .. MaxEvents
    BY <1>e, <2>1, ScanAssumption DEF Init, Linux!Init
  <2> QED
    BY <1>e, <2>1, <2>2, NoPropertiesType DEF Init, Linux!Init, Linux!TypeOK
<1>2. Tinygo!TypeOK
  <2>1. out = << >> /\ \A t \in Threads : found[t] = {}
    BY DEF Init, Linux!Init, Tinygo!Init
  <2>2. Len(out) <= OutCap /\ \A t \in Threads : \A d, e \in found[t] : d = e
    BY <1>e, <2>1, ScanAssumption
  <2> QED
    <3>1. closed \in BOOLEAN /\ ctxDone \in BOOLEAN /\ found \in [Threads -> SUBSET Devices]
      BY DEF Init, Linux!Init, Tinygo!Init
    <3>2. stack = "called" /\ closer = "select" /\ panicked \in BOOLEAN
      BY DEF Init, Tinygo!Init
    <3> QED
      BY <1>e, <2>1, <2>2, <3>1, <3>2 DEF Tinygo!TypeOK
<1>3. TakenBack
  BY DEF Init, Linux!Init, TakenBack
<1>4. HeardInOrder
  <2>1. sigs = << >> /\ props = [d \in Devices |-> Linux!NoProperties]
    BY DEF Init, Linux!Init
  <2>2. QueueCurrent
    BY <1>e, <2>1, NoPropertiesType DEF QueueCurrent
  <2> QED
    BY <2>1, <2>2 DEF Init, Linux!Init, HeardInOrder
<1> QED
  BY <1>1, <1>2, <1>3, <1>4 DEF TypeOK, ScanInv, Init

-----------------------------------------------------------------------------
(* The types, action by action                                             *)

\* Every step on linux keeps the types.
LEMMA LinuxTypes ==
    ASSUME Linux!TypeOK,
           Linux!Scan \/ Linux!LoopCancelled \/ Linux!Bluez \/ Linux!StopScan
    PROVE  Linux!TypeOK'
<1> USE ScanAssumption
    DEF Linux!TypeOK, Linux!bus, Linux!signals, Linux!work, Linux!channel, Linux!caller,
        Linux!bluez, Linux!Goto, Linux!AfterEmit
<1>1. CASE Linux!SetDiscoveryFilter
  BY <1>1 DEF Linux!SetDiscoveryFilter
<1>2. CASE Linux!AddMatch
  BY <1>2 DEF Linux!AddMatch, Linux!Rules
<1>3. CASE Linux!AddMatchFails
  BY <1>3 DEF Linux!AddMatchFails
<1>4. CASE Linux!RegisterSignal
  BY <1>4 DEF Linux!RegisterSignal
<1>5. CASE Linux!Seed
  BY <1>5 DEF Linux!Seed
<1>6. CASE Linux!NextSeed
  BY <1>6 DEF Linux!NextSeed
<1>7. CASE Linux!StartDiscovery
  BY <1>7 DEF Linux!StartDiscovery
<1>8. CASE Linux!StartDiscoveryFails
  BY <1>8 DEF Linux!StartDiscoveryFails
<1>9. CASE Linux!TakeSignal
  <2>1. Head(sigs) \in Linux!Signals /\ Tail(sigs) \in Seq(Linux!Signals)
        /\ Len(Tail(sigs)) <= SigCap
    BY <1>9, HeadTailProperties DEF Linux!TakeSignal
  <2> DEFINE merged == Linux!mergeProps(props[Head(sigs).dev], Head(sigs).changed)
  <2>2. merged \in Linux!Properties /\ Head(sigs).dev \in Devices
    BY <2>1, OverMerges DEF Linux!mergeProps, Linux!Signals
  <2>3. props' = [props EXCEPT ![Head(sigs).dev] = merged]
    BY <1>9 DEF Linux!TakeSignal
  <2>4. props' \in [Devices -> Linux!Properties]
    BY <2>2, <2>3
  <2>5. result' \subseteq Devices /\ pc' \in {"loop", "emit"}
    BY <1>9, <2>2 DEF Linux!TakeSignal
  <2> QED
    BY <1>9, <2>1, <2>4, <2>5 DEF Linux!TakeSignal
<1>10. CASE Linux!EmitSends
  <2>1. PICK d \in result : out' = Append(out, d) /\ reported' = reported \union {d}
    BY <1>10 DEF Linux!EmitSends
  <2>2. out' \in Seq(Devices) /\ Len(out') <= OutCap
    BY <1>10, <2>1 DEF Linux!EmitSends, Linux!HasRoom
  <2> QED
    BY <1>10, <2>1, <2>2 DEF Linux!EmitSends
<1>11. CASE Linux!EmitCancelled
  BY <1>11 DEF Linux!EmitCancelled
<1>12. CASE Linux!StopDiscovery
  BY <1>12 DEF Linux!StopDiscovery
<1>13. CASE Linux!RemoveMatches
  BY <1>13 DEF Linux!RemoveMatches
<1>14. CASE Linux!CloseOut
  BY <1>14 DEF Linux!CloseOut
<1>15. CASE Linux!LoopCancelled
  BY <1>15 DEF Linux!LoopCancelled
<1>16. CASE Linux!StopScan
  BY <1>16 DEF Linux!StopScan
<1>17. CASE Linux!LateSignal
  <2>1. PICK sig \in late : sigs' = Append(sigs, sig) /\ late' = late \ {sig}
    BY <1>17 DEF Linux!LateSignal
  <2>2. sigs' \in Seq(Linux!Signals) /\ Len(sigs') <= SigCap
    BY <1>17, <2>1 DEF Linux!LateSignal
  <2> QED
    BY <1>17, <2>1, <2>2 DEF Linux!LateSignal
<1>h. ASSUME NEW name \in Linux!Rules, NEW d \in Devices, NEW p \in Linux!Properties,
             Linux!Hear(name, d, p)
      PROVE  /\ sigs' \in Seq(Linux!Signals) /\ Len(sigs') <= SigCap
             /\ late' \subseteq Linux!Signals /\ overflowed' \in BOOLEAN
  <2> DEFINE sig == [name |-> name, dev |-> d, changed |-> p]
  <2>1. sig \in Linux!Signals
    BY DEF Linux!Signals
  <2>2. CASE UNCHANGED <<sigs, late, overflowed>>
    BY <2>2
  <2>3. CASE Len(sigs) < SigCap /\ sigs' = Append(sigs, sig) /\ UNCHANGED <<late, overflowed>>
    BY <2>1, <2>3
  <2>4. CASE late' = late \union {sig} /\ overflowed' = TRUE /\ UNCHANGED sigs
    BY <2>1, <2>4
  <2> QED
    BY <1>h, <2>2, <2>3, <2>4 DEF Linux!Hear
<1>18. ASSUME NEW d \in Devices, NEW p \in Linux!Properties, Linux!DeviceAppears(d, p)
      PROVE  Linux!TypeOK'
  <2>1. /\ sigs' \in Seq(Linux!Signals) /\ Len(sigs') <= SigCap
        /\ late' \subseteq Linux!Signals /\ overflowed' \in BOOLEAN
    BY <1>18, <1>h DEF Linux!DeviceAppears, Linux!Rules
  <2> QED
    BY <1>18, <2>1 DEF Linux!DeviceAppears, Linux!Happens
<1>19. ASSUME NEW d \in Devices, NEW p \in Linux!Properties, Linux!PropertiesChange(d, p)
      PROVE  Linux!TypeOK'
  <2>1. /\ sigs' \in Seq(Linux!Signals) /\ Len(sigs') <= SigCap
        /\ late' \subseteq Linux!Signals /\ overflowed' \in BOOLEAN
    BY <1>19, <1>h DEF Linux!PropertiesChange, Linux!Rules
  <2>2. known' = [known EXCEPT ![d] = Linux!Over(p, known[d])]
        /\ Linux!Over(p, known[d]) \in Linux!Properties
    BY <1>19, OverMerges DEF Linux!PropertiesChange
  <2> QED
    BY <1>19, <2>1, <2>2 DEF Linux!PropertiesChange, Linux!Happens
<1>20. ASSUME NEW d \in Devices, Linux!DeviceVanishes(d)
      PROVE  Linux!TypeOK'
  BY <1>20, NoPropertiesType DEF Linux!DeviceVanishes, Linux!Happens
<1>21. CASE Linux!SigChClosed
  BY <1>21 DEF Linux!SigChClosed
<1>22. CASE Linux!BusLost
  <2>1. events' \in 0 .. MaxEvents
    BY <1>22 DEF Linux!BusLost
  <2> QED
    BY <1>22, <2>1 DEF Linux!BusLost
<1> QED
  BY <1>1, <1>2, <1>3, <1>4, <1>5, <1>6, <1>7, <1>8, <1>9, <1>10, <1>11,
     <1>12, <1>13, <1>14, <1>15, <1>16, <1>17, <1>18, <1>19, <1>20, <1>21, <1>22
  DEF Linux!Scan, Linux!Bluez

\* Every step on tinygo keeps the types.
LEMMA TinygoTypes ==
    ASSUME Tinygo!TypeOK, Tinygo!Closer \/ Tinygo!Stack \/ Tinygo!StopScan
    PROVE  Tinygo!TypeOK'
<1> USE ScanAssumption DEF Tinygo!TypeOK
<1>1. CASE Tinygo!StopAndLeave
  BY <1>1 DEF Tinygo!StopAndLeave
<1>2. CASE Tinygo!LeaveOnError
  BY <1>2 DEF Tinygo!LeaveOnError
<1>3. CASE Tinygo!CloseChannel
  BY <1>3 DEF Tinygo!CloseChannel
<1>4. CASE Tinygo!ScanBegins
  BY <1>4 DEF Tinygo!ScanBegins
<1>5. CASE Tinygo!ScanFails
  BY <1>5 DEF Tinygo!ScanFails
<1>6. CASE Tinygo!StopScan
  BY <1>6 DEF Tinygo!StopScan
<1>7. ASSUME NEW t \in Threads, Tinygo!CallbackBegins(t)
      PROVE  Tinygo!TypeOK'
  <2>1. PICK d \in Devices : found' = [found EXCEPT ![t] = {d}]
    BY <1>7 DEF Tinygo!CallbackBegins
  <2>2. found' \in [Threads -> SUBSET Devices]
        /\ \A u \in Threads : \A d1, d2 \in found'[u] : d1 = d2
    BY <2>1
  <2> QED
    BY <1>7, <2>2 DEF Tinygo!CallbackBegins
<1>8. ASSUME NEW t \in Threads, Tinygo!CallbackReturns(t)
      PROVE  /\ found' \in [Threads -> SUBSET Devices]
             /\ \A u \in Threads : \A d1, d2 \in found'[u] : d1 = d2
             /\ UNCHANGED <<stack, closer, closed, ctxDone>>
  BY <1>8 DEF Tinygo!CallbackReturns
<1>9. ASSUME NEW t \in Threads, Tinygo!CallbackSends(t)
      PROVE  Tinygo!TypeOK'
  <2>1. PICK d \in found[t] : out' = Append(out, d)
    BY <1>9 DEF Tinygo!CallbackSends
  <2>2. out' \in Seq(Devices) /\ Len(out') <= OutCap
    BY <1>9, <2>1 DEF Tinygo!CallbackSends
  <2> QED
    BY <1>8, <1>9, <2>2 DEF Tinygo!CallbackSends
<1>10. ASSUME NEW t \in Threads, Tinygo!CallbackGivesUp(t)
      PROVE  Tinygo!TypeOK'
  BY <1>8, <1>10 DEF Tinygo!CallbackGivesUp
<1>11. ASSUME NEW t \in Threads, Tinygo!CallbackPanics(t)
      PROVE  Tinygo!TypeOK'
  BY <1>8, <1>11 DEF Tinygo!CallbackPanics
<1> QED
  BY <1>1, <1>2, <1>3, <1>4, <1>5, <1>6, <1>7, <1>9, <1>10, <1>11
  DEF Tinygo!Closer, Tinygo!Stack

\* Every step keeps the types.
LEMMA NextTypes == ASSUME TypeOK, [Next]_vars PROVE TypeOK'
<1> USE DEF OnLinux, OnOther, linuxVars, tinygoVars
<1>1. CASE OnLinux(Linux!Scan \/ Linux!LoopCancelled \/ Linux!Bluez \/ Linux!StopScan)
  BY <1>1, LinuxTypes DEF TypeOK
<1>2. CASE OnOther(Tinygo!Closer \/ Tinygo!Stack \/ Tinygo!StopScan)
  BY <1>2, TinygoTypes DEF TypeOK
<1>3. CASE UNCHANGED vars
  BY <1>3 DEF TypeOK, vars, Linux!TypeOK, Tinygo!TypeOK
<1>4. CASE Receive
  <2>1. out # << >> /\ out' = Tail(out)
        /\ UNCHANGED <<platform, closed, ctxDone, gone, linuxVars, tinygoVars>>
    BY <1>4 DEF Receive
  <2>2. out \in Seq(Devices) /\ Len(out) <= OutCap
    BY DEF TypeOK, Linux!TypeOK, Tinygo!TypeOK
  <2>3. out' \in Seq(Devices) /\ Len(out') <= OutCap
    BY <2>1, <2>2, ScanAssumption, HeadTailProperties
  <2> QED
    BY <2>1, <2>3 DEF TypeOK, Linux!TypeOK, Tinygo!TypeOK
<1>5. CASE StopsReceiving \/ Cancel
  BY <1>5 DEF StopsReceiving, Cancel, TypeOK, Linux!TypeOK, Tinygo!TypeOK
<1> QED
  BY <1>1, <1>2, <1>3, <1>4, <1>5
  DEF Next, ScanStep, LoopCancelled, Environment, StopScan

-----------------------------------------------------------------------------
(* The match rules, the registration and the discovery                     *)

\* Every step keeps what Scan has set up and must take back.
LEMMA NextTakenBack == ASSUME TypeOK, TakenBack, [Next]_vars PROVE TakenBack'
<1>r. Linux!Rules = {"InterfacesAdded", "PropertiesChanged"}
  BY DEF Linux!Rules
<1>b. TypeOK => ctxDone \in BOOLEAN /\ closed \in BOOLEAN
  BY DEF TypeOK, Linux!TypeOK, Tinygo!TypeOK
<1> USE DEF TakenBack, linuxVars, tinygoVars, Linux!bus, Linux!signals, Linux!work,
        Linux!channel, Linux!caller, Linux!bluez, Linux!Goto, Linux!AfterEmit
<1>1. ASSUME OnLinux(Linux!Scan) PROVE TakenBack'
  <2> USE DEF OnLinux
  <2>1. CASE Linux!SetDiscoveryFilter
    BY <1>1, <1>r, <1>b, <2>1 DEF Linux!SetDiscoveryFilter
  <2>2. CASE Linux!AddMatch
    BY <1>1, <1>r, <1>b, <2>2 DEF Linux!AddMatch
  <2>3. CASE Linux!AddMatchFails
    BY <1>1, <1>r, <1>b, <2>3 DEF Linux!AddMatchFails
  <2>4. CASE Linux!RegisterSignal
    BY <1>1, <1>r, <1>b, <2>4 DEF Linux!RegisterSignal
  <2>5. CASE Linux!Seed
    BY <1>1, <1>r, <1>b, <2>5 DEF Linux!Seed
  <2>6. CASE Linux!NextSeed
    BY <1>1, <1>r, <1>b, <2>6 DEF Linux!NextSeed
  <2>7. CASE Linux!StartDiscovery
    BY <1>1, <1>r, <1>b, <2>7 DEF Linux!StartDiscovery
  <2>8. CASE Linux!StartDiscoveryFails
    BY <1>1, <1>r, <1>b, <2>8 DEF Linux!StartDiscoveryFails
  <2>9. CASE Linux!TakeSignal
    BY <1>1, <1>r, <1>b, <2>9 DEF Linux!TakeSignal
  <2>10. CASE Linux!EmitSends
    BY <1>1, <1>r, <1>b, <2>10 DEF Linux!EmitSends
  <2>11. CASE Linux!EmitCancelled
    BY <1>1, <1>r, <1>b, <2>11 DEF Linux!EmitCancelled
  <2>12. CASE Linux!StopDiscovery
    BY <1>1, <1>r, <1>b, <2>12 DEF Linux!StopDiscovery
  <2>13. CASE Linux!RemoveMatches
    BY <1>1, <1>r, <1>b, <2>13 DEF Linux!RemoveMatches
  <2>14. CASE Linux!CloseOut
    BY <1>1, <1>r, <1>b, <2>14 DEF Linux!CloseOut
  <2>15. CASE Linux!SigChClosed
    BY <1>1, <1>r, <1>b, <2>15 DEF Linux!SigChClosed
  <2> QED
    BY <1>1, <2>1, <2>2, <2>3, <2>4, <2>5, <2>6, <2>7, <2>8, <2>9, <2>10, <2>11,
       <2>12, <2>13, <2>14, <2>15
    DEF Linux!Scan
<1>2. ASSUME OnLinux(Linux!LoopCancelled \/ Linux!Bluez \/ Linux!StopScan) PROVE TakenBack'
  <2>1. CASE Linux!BusLost
    <3>1. /\ UNCHANGED <<platform, pc, closed, leftOn>> /\ platform = "linux" /\ registered
          /\ rules' = {} /\ ~registered' /\ ~discovering'
      BY <1>2, <2>1 DEF OnLinux, Linux!BusLost
    <3> QED
      BY <3>1
  <2>2. CASE ~Linux!BusLost
    <3>1. /\ UNCHANGED <<platform, rules, registered, closed, leftOn>>
          /\ UNCHANGED pc \/ (pc = "loop" /\ pc' = "stopDiscovery")
          /\ discovering' => discovering
      BY <1>2, <2>2
      DEF OnLinux, Linux!LoopCancelled, Linux!Bluez, Linux!StopScan, Linux!LateSignal,
          Linux!DeviceAppears, Linux!PropertiesChange, Linux!DeviceVanishes, Linux!Happens
    <3> QED
      BY <3>1
  <2> QED
    BY <2>1, <2>2
<1>3. CASE OnOther(Tinygo!Closer \/ Tinygo!Stack \/ Tinygo!StopScan)
  BY <1>3 DEF OnOther
<1>4. CASE UNCHANGED vars
  BY <1>4 DEF vars
<1>5. CASE Receive \/ StopsReceiving \/ Cancel
  BY <1>5 DEF Receive, StopsReceiving, Cancel
<1> QED
  BY <1>1, <1>2, <1>3, <1>4, <1>5
  DEF Next, ScanStep, LoopCancelled, Environment, StopScan, OnLinux, OnOther

-----------------------------------------------------------------------------
(* What sigCh and the loop know of BlueZ                                   *)

\* An empty sigCh is current when BlueZ knows nothing.
LEMMA QueueEmpty ==
    ASSUME sigs = << >>, props = [d \in Devices |-> Linux!NoProperties]
    PROVE  QueueCurrent
<1>1. DOMAIN sigs = {}
  OBVIOUS
<1> QED
  BY <1>1, NoPropertiesType DEF QueueCurrent

\* A change of BlueZ's at the end of sigCh.
LEMMA QueueAfterNews ==
    ASSUME Linux!TypeOK, QueueCurrent,
           NEW d \in Devices, NEW p \in Linux!Properties, NEW q \in Linux!Properties,
           NEW name \in Linux!Rules,
           sigs' = Append(sigs, [name |-> name, dev |-> d, changed |-> p]),
           known' = [known EXCEPT ![d] = q], UNCHANGED props,
           \A key \in DOMAIN p \intersect DOMAIN q : q[key] = p[key],
           \A key \in DOMAIN q \ DOMAIN p : key \in DOMAIN known[d] /\ q[key] = known[d][key]
    PROVE  QueueCurrent'
<1> DEFINE sig == [name |-> name, dev |-> d, changed |-> p]
<1>n. PICK n \in Nat : n = Len(sigs) + 1
  BY DEF Linux!TypeOK
<1>1. sigs \in Seq(Linux!Signals) /\ sig \in Linux!Signals /\ known \in [Devices -> Linux!Properties]
  BY DEF Linux!TypeOK, Linux!Signals
<1>2. /\ DOMAIN sigs = 1 .. Len(sigs) /\ DOMAIN sigs' = 1 .. n /\ Len(sigs) \in Nat
      /\ sigs'[n] = sig /\ \A i \in DOMAIN sigs : sigs'[i] = sigs[i]
  BY <1>1, <1>n
<1>3. sig.dev = d /\ sig.changed = p
  OBVIOUS
<1> SUFFICES ASSUME NEW e \in Devices, NEW key \in DOMAIN known'[e]
             PROVE  /\ \A i \in DOMAIN sigs' :
                          LastToMention(i, e, key)' => sigs'[i].changed[key] = known'[e][key]
                    /\ key \in DOMAIN props'[e] /\ (\A i \in DOMAIN sigs' : ~Mentions(i, e, key)') =>
                          props'[e][key] = known'[e][key]
  BY DEF QueueCurrent
<1>4. /\ Mentions(n, e, key)' <=> e = d /\ key \in DOMAIN p
      /\ \A i \in DOMAIN sigs : Mentions(i, e, key)' <=> Mentions(i, e, key)
  BY <1>n, <1>2, <1>3 DEF Mentions
<1>5. CASE e = d /\ key \in DOMAIN p
  <2>1. known'[e] = q
    BY <1>1, <1>5
  <2>2. sigs'[n].changed[key] = known'[e][key]
    BY <1>2, <1>3, <1>5, <2>1
  <2>3. ASSUME NEW i \in DOMAIN sigs', LastToMention(i, e, key)' PROVE i = n
    BY <1>n, <1>2, <1>4, <1>5, <2>3 DEF LastToMention
  <2>4. ~(\A i \in DOMAIN sigs' : ~Mentions(i, e, key)')
    BY <1>n, <1>2, <1>4, <1>5
  <2> QED
    BY <2>2, <2>3, <2>4
<1>6. CASE ~(e = d /\ key \in DOMAIN p)
  <2>1. key \in DOMAIN known[e] /\ known'[e][key] = known[e][key]
    BY <1>1, <1>6
  <2>2. ASSUME NEW i \in DOMAIN sigs', LastToMention(i, e, key)'
        PROVE  sigs'[i].changed[key] = known'[e][key]
    <3>1. i \in DOMAIN sigs /\ sigs'[i] = sigs[i]
      BY <1>n, <1>2, <1>4, <1>6, <2>2 DEF LastToMention
    <3>2. LastToMention(i, e, key)
      BY <1>2, <1>4, <2>2, <3>1 DEF LastToMention
    <3> QED
      BY <2>1, <3>1, <3>2 DEF QueueCurrent
  <2>3. ASSUME key \in DOMAIN props'[e], \A i \in DOMAIN sigs' : ~Mentions(i, e, key)'
        PROVE  props'[e][key] = known'[e][key]
    <3>1. \A i \in DOMAIN sigs : ~Mentions(i, e, key)
      BY <1>2, <1>4, <2>3
    <3> QED
      BY <2>1, <2>3, <3>1 DEF QueueCurrent
  <2> QED
    BY <2>2, <2>3
<1> QED
  BY <1>5, <1>6

\* The loop works the first signal off.
LEMMA QueueAfterTake ==
    ASSUME Linux!TypeOK, QueueCurrent, Linux!TakeSignal
    PROVE  QueueCurrent'
<1> DEFINE sig == Head(sigs)
           merged == Linux!Over(sig.changed, props[sig.dev])
<1>1. /\ sigs # << >> /\ sigs' = Tail(sigs) /\ UNCHANGED known
      /\ props' = [props EXCEPT ![sig.dev] = merged]
  BY DEF Linux!TakeSignal, Linux!mergeProps, Linux!bluez
<1>2. sigs \in Seq(Linux!Signals) /\ props \in [Devices -> Linux!Properties]
  BY DEF Linux!TypeOK
<1>3. /\ sig \in Linux!Signals /\ sig = sigs[1] /\ 1 \in DOMAIN sigs
      /\ \A i \in DOMAIN sigs' : i \in Nat /\ i >= 1 /\ i + 1 \in DOMAIN sigs /\ sigs'[i] = sigs[i + 1]
      /\ \A i \in DOMAIN sigs : i \in Nat /\ (i = 1 \/ (i > 1 /\ i - 1 \in DOMAIN sigs' /\ sigs'[i - 1] = sigs[i]))
  BY <1>1, <1>2, HeadTailProperties
<1>4. /\ sig.dev \in Devices /\ sig.changed \in Linux!Properties
      /\ props[sig.dev] \in Linux!Properties
  BY <1>2, <1>3 DEF Linux!Signals
<1>5. /\ DOMAIN merged = DOMAIN sig.changed \union DOMAIN props[sig.dev]
      /\ \A key \in DOMAIN sig.changed : merged[key] = sig.changed[key]
      /\ \A key \in DOMAIN props[sig.dev] \ DOMAIN sig.changed :
            merged[key] = props[sig.dev][key]
  BY <1>4, OverMerges
<1> SUFFICES ASSUME NEW e \in Devices, NEW key \in DOMAIN known[e]
             PROVE  /\ \A i \in DOMAIN sigs' :
                          LastToMention(i, e, key)' => sigs'[i].changed[key] = known[e][key]
                    /\ key \in DOMAIN props'[e] /\ (\A i \in DOMAIN sigs' : ~Mentions(i, e, key)') =>
                          props'[e][key] = known[e][key]
  BY <1>1 DEF QueueCurrent
<1>6. \A i \in DOMAIN sigs' : Mentions(i, e, key)' <=> Mentions(i + 1, e, key)
  BY <1>3 DEF Mentions
<1>7. ASSUME NEW i \in DOMAIN sigs', LastToMention(i, e, key)'
      PROVE  sigs'[i].changed[key] = known[e][key]
  <2>1. Mentions(i + 1, e, key) /\ i + 1 \in DOMAIN sigs
    BY <1>3, <1>6, <1>7 DEF LastToMention
  <2>2. ASSUME NEW j \in DOMAIN sigs, j > i + 1 PROVE ~Mentions(j, e, key)
    <3>1. j - 1 \in DOMAIN sigs' /\ j - 1 > i /\ (j - 1) + 1 = j
      BY <1>3, <2>2
    <3>2. ~Mentions(j - 1, e, key)'
      BY <1>7, <3>1 DEF LastToMention
    <3> QED
      BY <1>6, <3>1, <3>2
  <2>3. LastToMention(i + 1, e, key)
    BY <2>1, <2>2 DEF LastToMention
  <2> QED
    BY <1>3, <2>1, <2>3 DEF QueueCurrent
<1>8. ASSUME key \in DOMAIN props'[e], \A i \in DOMAIN sigs' : ~Mentions(i, e, key)'
      PROVE  props'[e][key] = known[e][key]
  <2>1. \A j \in DOMAIN sigs : j > 1 => ~Mentions(j, e, key)
    <3> SUFFICES ASSUME NEW j \in DOMAIN sigs, j > 1 PROVE ~Mentions(j, e, key)
      OBVIOUS
    <3>1. j - 1 \in DOMAIN sigs' /\ (j - 1) + 1 = j
      BY <1>3
    <3> QED
      BY <1>6, <1>8, <3>1
  <2>2. CASE Mentions(1, e, key)
    <3>1. LastToMention(1, e, key)
      BY <2>1, <2>2 DEF LastToMention
    <3>2. sig.changed[key] = known[e][key] /\ e = sig.dev /\ key \in DOMAIN sig.changed
      BY <1>3, <2>2, <3>1 DEF QueueCurrent, Mentions
    <3> QED
      BY <1>1, <1>2, <1>5, <3>2
  <2>3. CASE ~Mentions(1, e, key)
    <3>1. \A j \in DOMAIN sigs : ~Mentions(j, e, key)
      BY <1>3, <2>1, <2>3
    <3>2. key \in DOMAIN props[e] /\ props'[e][key] = props[e][key]
      BY <1>1, <1>2, <1>3, <1>4, <1>5, <1>8, <2>3 DEF Mentions
    <3> QED
      BY <3>1, <3>2 DEF QueueCurrent
  <2> QED
    BY <2>2, <2>3
<1> QED
  BY <1>7, <1>8

\* A step that leaves sigCh, BlueZ and the loop's properties alone.
LEMMA HeardKept ==
    ASSUME HeardInOrder, UNCHANGED <<sigs, late, overflowed, objects, known, props>>,
           pc' \in {"setFilter", "addMatch", "failed"} => pc \in {"setFilter", "addMatch", "failed"},
           registered' => registered \/ pc \in {"setFilter", "addMatch", "failed"}
    PROVE  HeardInOrder'
<1>1. QueueCurrent => QueueCurrent'
  BY DEF QueueCurrent, LastToMention, Mentions
<1> QED
  BY <1>1 DEF HeardInOrder

\* A change in BlueZ, heard, lost or before anything is heard.
LEMMA HeardAfterNews ==
    ASSUME Linux!TypeOK, TakenBack, HeardInOrder, UNCHANGED <<pc, props, registered>>,
           registered \/ pc \in {"setFilter", "addMatch"},
           NEW d \in Devices, NEW p \in Linux!Properties, NEW q \in Linux!Properties,
           NEW name \in Linux!Rules, Linux!Hear(name, d, p),
           d \in objects', objects \subseteq objects',
           known' = [known EXCEPT ![d] = q],
           \A key \in DOMAIN p \intersect DOMAIN q : q[key] = p[key],
           \A key \in DOMAIN q \ DOMAIN p : key \in DOMAIN known[d] /\ q[key] = known[d][key]
    PROVE  HeardInOrder'
<1> DEFINE Early == pc \in {"setFilter", "addMatch", "failed"}
<1>1. \A e \in Devices \ objects' : known'[e] = Linux!NoProperties
  BY DEF HeardInOrder, Linux!TypeOK
<1>2. CASE Early
  <2>1. ~registered
    BY <1>2 DEF TakenBack
  <2>2. UNCHANGED <<sigs, late, overflowed>>
    BY <2>1 DEF Linux!Hear, Linux!signals
  <2>3. sigs' = << >> /\ props' = [e \in Devices |-> Linux!NoProperties]
    BY <1>2, <2>2 DEF HeardInOrder
  <2>4. QueueCurrent'
    BY <2>3, NoPropertiesType DEF QueueCurrent
  <2> QED
    BY <1>1, <1>2, <2>2, <2>3, <2>4 DEF HeardInOrder
<1>3. CASE ~Early
  <2>1. registered /\ name \in rules
    BY <1>3 DEF TakenBack, Linux!TypeOK
  <2>2. CASE Len(sigs) < SigCap
    <3>1. sigs' = Append(sigs, [name |-> name, dev |-> d, changed |-> p])
          /\ UNCHANGED <<late, overflowed>>
      BY <2>1, <2>2 DEF Linux!Hear
    <3>2. QueueCurrent => QueueCurrent'
      BY <3>1, QueueAfterNews
    <3> QED
      BY <1>1, <1>3, <3>1, <3>2 DEF HeardInOrder
  <2>3. CASE ~(Len(sigs) < SigCap)
    <3>1. overflowed' = TRUE
      BY <2>1, <2>3 DEF Linux!Hear
    <3> QED
      BY <1>1, <1>3, <3>1 DEF HeardInOrder
  <2> QED
    BY <2>2, <2>3
<1> QED
  BY <1>2, <1>3

\* Every step keeps sigCh in the order of BlueZ's changes.
LEMMA NextHeard ==
    ASSUME TypeOK, TakenBack, HeardInOrder, [Next]_vars
    PROVE  HeardInOrder'
<1> USE DEF linuxVars, tinygoVars, Linux!bus, Linux!signals, Linux!work, Linux!channel,
        Linux!caller, Linux!bluez, Linux!Goto, Linux!AfterEmit
<1>1. ASSUME OnLinux(Linux!Scan) PROVE HeardInOrder'
  <2>t. Linux!TypeOK
    BY <1>1 DEF OnLinux, TypeOK
  <2>1. CASE Linux!TakeSignal
    <3>1. /\ UNCHANGED <<late, overflowed, objects, known, registered>>
          /\ pc = "loop" /\ pc' \in {"loop", "emit"}
      BY <2>1 DEF Linux!TakeSignal
    <3>2. QueueCurrent => QueueCurrent'
      BY <2>1, <2>t, QueueAfterTake
    <3> QED
      BY <3>1, <3>2 DEF HeardInOrder
  <2>2. CASE ~Linux!TakeSignal
    <3>1. UNCHANGED <<sigs, late, overflowed, objects, known, props>>
      BY <1>1, <2>2
      DEF OnLinux, Linux!Scan, Linux!SetDiscoveryFilter, Linux!AddMatch, Linux!AddMatchFails,
          Linux!RegisterSignal, Linux!Seed, Linux!NextSeed, Linux!StartDiscovery,
          Linux!StartDiscoveryFails, Linux!EmitSends, Linux!EmitCancelled,
          Linux!StopDiscovery, Linux!RemoveMatches, Linux!CloseOut, Linux!SigChClosed
    <3>2. /\ pc' \in {"setFilter", "addMatch", "failed"} => pc \in {"setFilter", "addMatch", "failed"}
          /\ registered' => registered \/ pc \in {"setFilter", "addMatch", "failed"}
      BY <1>1, <2>2
      DEF OnLinux, Linux!Scan, Linux!SetDiscoveryFilter, Linux!AddMatch, Linux!AddMatchFails,
          Linux!RegisterSignal, Linux!Seed, Linux!NextSeed, Linux!StartDiscovery,
          Linux!StartDiscoveryFails, Linux!EmitSends, Linux!EmitCancelled,
          Linux!StopDiscovery, Linux!RemoveMatches, Linux!CloseOut, Linux!SigChClosed
    <3> QED
      BY <3>1, <3>2, HeardKept
  <2> QED
    BY <2>1, <2>2
<1>2. ASSUME OnLinux(Linux!Bluez) PROVE HeardInOrder'
  <2>t. Linux!TypeOK
    BY <1>2 DEF OnLinux, TypeOK
  <2>1. CASE Linux!LateSignal
    <3>1. registered /\ late # {} /\ UNCHANGED <<pc, overflowed, objects, known, registered>>
      BY <2>1 DEF Linux!LateSignal
    <3>2. overflowed /\ pc \notin {"setFilter", "addMatch", "failed"}
      BY <3>1, <2>t DEF HeardInOrder, TakenBack, Linux!TypeOK
    <3> QED
      BY <3>1, <3>2 DEF HeardInOrder
  <2>2. ASSUME NEW d \in Devices, NEW p \in Linux!Properties, Linux!DeviceAppears(d, p)
        PROVE  HeardInOrder'
    <3>1. /\ UNCHANGED <<pc, props, registered>> /\ Linux!Hear("InterfacesAdded", d, p)
          /\ registered \/ pc \in {"setFilter", "addMatch"}
          /\ objects' = objects \union {d} /\ known' = [known EXCEPT ![d] = p]
      BY <2>2 DEF Linux!DeviceAppears, Linux!Happens
    <3>2. "InterfacesAdded" \in Linux!Rules
      BY DEF Linux!Rules
    <3> QED
      BY <2>t, <3>1, <3>2, HeardAfterNews
  <2>3. ASSUME NEW d \in Devices, NEW p \in Linux!Properties, Linux!PropertiesChange(d, p)
        PROVE  HeardInOrder'
    <3>1. /\ UNCHANGED <<pc, props, registered, objects>> /\ Linux!Hear("PropertiesChanged", d, p)
          /\ registered \/ pc \in {"setFilter", "addMatch"}
          /\ d \in objects /\ known' = [known EXCEPT ![d] = Linux!Over(p, known[d])]
      BY <2>3, <2>t DEF Linux!PropertiesChange, Linux!Happens, Linux!TypeOK
    <3>2. "PropertiesChanged" \in Linux!Rules /\ known[d] \in Linux!Properties
      BY <2>t DEF Linux!Rules, Linux!TypeOK
    <3>3. PICK q \in Linux!Properties :
             /\ q = Linux!Over(p, known[d])
             /\ \A key \in DOMAIN p \intersect DOMAIN q : q[key] = p[key]
             /\ \A key \in DOMAIN q \ DOMAIN p : key \in DOMAIN known[d] /\ q[key] = known[d][key]
      <4> DEFINE o == Linux!Over(p, known[d])
      <4>1. /\ o \in Linux!Properties /\ DOMAIN o = DOMAIN p \union DOMAIN known[d]
            /\ \A key \in DOMAIN p : o[key] = p[key]
            /\ \A key \in DOMAIN known[d] \ DOMAIN p : o[key] = known[d][key]
        BY <3>2, OverMerges
      <4> HIDE DEF o
      <4>2. /\ \A key \in DOMAIN p \intersect DOMAIN o : o[key] = p[key]
            /\ \A key \in DOMAIN o \ DOMAIN p : key \in DOMAIN known[d] /\ o[key] = known[d][key]
        BY <4>1
      <4> QED
        BY <4>1, <4>2 DEF o
    <3> QED
      BY <2>t, <3>1, <3>2, <3>3, HeardAfterNews
  <2>4. ASSUME NEW d \in Devices, Linux!DeviceVanishes(d) PROVE HeardInOrder'
    <3>1. /\ UNCHANGED <<pc, sigs, late, overflowed, props, registered>>
          /\ objects' = objects \ {d} /\ known' = [known EXCEPT ![d] = Linux!NoProperties]
      BY <2>4 DEF Linux!DeviceVanishes, Linux!Happens
    <3>2. /\ known' \in [Devices -> Linux!Properties]
          /\ known'[d] = Linux!NoProperties /\ DOMAIN known'[d] = {}
          /\ \A e \in Devices \ {d} : known'[e] = known[e]
      BY <2>t, <3>1, NoPropertiesType DEF Linux!TypeOK
    <3>3. QueueCurrent => QueueCurrent'
      BY <3>1, <3>2 DEF QueueCurrent, LastToMention, Mentions
    <3>4. \A e \in Devices \ objects' : known'[e] = Linux!NoProperties
      BY <3>1, <3>2 DEF HeardInOrder
    <3> QED
      BY <3>1, <3>3, <3>4 DEF HeardInOrder
  <2>5. CASE Linux!BusLost
    <3>1. /\ UNCHANGED <<pc, sigs, overflowed, objects, known, props>>
          /\ late' = {} /\ registered /\ ~registered'
      BY <2>5 DEF Linux!BusLost
    <3>2. pc' \notin {"setFilter", "addMatch", "failed"}
      BY <3>1 DEF TakenBack
    <3> QED
      BY <3>1, <3>2 DEF HeardInOrder
  <2> QED
    BY <1>2, <2>1, <2>2, <2>3, <2>4, <2>5 DEF OnLinux, Linux!Bluez
<1>3. CASE OnLinux(Linux!LoopCancelled \/ Linux!StopScan)
  <2>1. /\ UNCHANGED <<sigs, late, overflowed, objects, known, props>>
        /\ UNCHANGED registered /\ (UNCHANGED pc \/ (pc = "loop" /\ pc' = "stopDiscovery"))
    BY <1>3 DEF OnLinux, Linux!LoopCancelled, Linux!StopScan
  <2> QED
    BY <2>1, HeardKept
<1>4. CASE OnOther(Tinygo!Closer \/ Tinygo!Stack \/ Tinygo!StopScan)
  BY <1>4, HeardKept DEF OnOther
<1>5. CASE UNCHANGED vars \/ Receive \/ StopsReceiving \/ Cancel
  <2>1. UNCHANGED <<pc, sigs, late, overflowed, objects, known, props, registered>>
    BY <1>5 DEF vars, Receive, StopsReceiving, Cancel
  <2> QED
    BY <2>1, HeardKept
<1> QED
  BY <1>1, <1>2, <1>3, <1>4, <1>5
  DEF Next, ScanStep, LoopCancelled, Environment, StopScan, OnLinux, OnOther

-----------------------------------------------------------------------------
(* The invariant, and what it is for                                       *)

\* Whatever the order of signals, cancellations and steps of the caller, the
\* scan takes back what it added to the bus and started in BlueZ, and sigCh
\* together with what the loop accumulated is up to date with BlueZ as long as
\* no signal was lost (linuxAdapter.scan).
THEOREM ScanInvariant == Spec => [](TypeOK /\ ScanInv)
<1>1. TypeOK /\ ScanInv /\ [Next]_vars => TypeOK' /\ ScanInv'
  BY NextTypes, NextTakenBack, NextHeard DEF ScanInv
<1> QED
  BY <1>1, InitScan, PTL DEF Spec

\* The channels keep to their capacities and every variable to its type, on
\* both platforms.
THEOREM TypeCorrect == Spec => []TypeOK
  BY ScanInvariant, PTL

\* By the end of the channel of linuxAdapter.scan, and when scan fails, nothing
\* of it is left on the bus or in BlueZ but what NothingLeft names: a discovery
\* whose stop failed or whose start was given up, and scan's first match rule.
THEOREM ScanNothingLeft == Spec => []NothingLeft
<1>1. ScanInv => NothingLeft
  BY DEF ScanInv, TakenBack, NothingLeft, Linux!Rules
<1> QED
  BY <1>1, ScanInvariant, PTL

\* With its signals worked off, the loop's accumulated properties agree with
\* BlueZ's: mergeProps lets the newer value win, and signals come in order.
THEOREM ScanAccumulatedCurrent == Spec => []AccumulatedCurrent
<1>1. TypeOK /\ ScanInv => AccumulatedCurrent
  <2> SUFFICES ASSUME TypeOK, ScanInv, pc = "loop", registered, sigs = << >>, ~overflowed,
                      NEW d \in objects,
                      NEW key \in DOMAIN props[d] \intersect DOMAIN known[d]
               PROVE  props[d][key] = known[d][key]
    BY DEF AccumulatedCurrent
  <2>1. QueueCurrent
    BY DEF ScanInv, HeardInOrder
  <2>2. platform = "linux" /\ d \in Devices
    BY DEF TypeOK, ScanInv, TakenBack, Linux!TypeOK
  <2>3. DOMAIN sigs = {}
    OBVIOUS
  <2> QED
    BY <2>1, <2>2, <2>3 DEF QueueCurrent
<1> QED
  BY <1>1, ScanInvariant, PTL

=============================================================================
