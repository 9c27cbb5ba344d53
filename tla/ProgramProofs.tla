---------------------------- MODULE ProgramProofs ---------------------------
(* Theorems about Connect and Program, for every channel capacity and      *)
(* every number of signals, on both platforms and in all three programs;   *)
(* and when a timeout of Connect is proof of unresolved services.          *)
EXTENDS Program, SequenceTheorems, TLAPS

-----------------------------------------------------------------------------
(* connect                                                                 *)

\* Nothing connected yet, Connect's types and invariant hold.
LEMMA InitConnect == Init => TypeOK /\ ConnectInv
<1> SUFFICES ASSUME Init PROVE TypeOK /\ ConnectInv
  OBVIOUS
<1>1. << >> \in Seq(Signals) /\ Len(<< >>) = 0 /\ sigs = << >>
  BY DEF Init
<1>2. sigs \in Seq(Signals) /\ Len(sigs) = 0 /\ DOMAIN sigs = {}
  <2>1. Len(sigs) = 0
    BY <1>1, Zenon
  <2> QED
    BY <1>1, <2>1
<1>3. TypeOK
  <2>1. Len(sigs) <= SigCap /\ others \in 0 .. MaxOthers
    BY <1>2, ConnectAssumption DEF Init
  <2> QED
    BY <1>2, <2>1 DEF Init, TypeOK
<1>4. ConnectInv
  BY <1>2 DEF Init, ConnectInv, MatchWhileWaiting, LinkWithinConnect,
                   NewsIsTrue, WaitEndsOnNews, EnumeratesResolved
<1> QED
  BY <1>3, <1>4

\* A signal goes to the end of the channel, beside it, or nowhere.
LEMMA HeardNews ==
    ASSUME TypeOK, NewsIsTrue, NEW sig \in Signals, Heard(sig),
           announced' \in BOOLEAN, announced => announced',
           sig = "resolved" => announced', resolved' => announced', UNCHANGED pc
    PROVE  sigs' \in Seq(Signals) /\ Len(sigs') <= SigCap /\ late' \subseteq Signals
           /\ NewsIsTrue'
<1> USE ConnectAssumption DEF TypeOK, NewsIsTrue
<1>1. CASE ~(match /\ Registered)
  BY <1>1 DEF Heard, chVars
<1>2. CASE match /\ Registered /\ Len(sigs) < SigCap
  <2>1. sigs' = Append(sigs, sig) /\ late' = late
    BY <1>2 DEF Heard
  <2>2. sigs' \in Seq(Signals) /\ Len(sigs') <= SigCap
    BY <1>2, <2>1
  <2>3. \A i \in DOMAIN sigs' : sigs'[i] = sig \/ (i \in DOMAIN sigs /\ sigs'[i] = sigs[i])
    BY <2>1
  <2> QED
    BY <1>2, <2>1, <2>2, <2>3 DEF Registered
<1>3. CASE match /\ Registered /\ ~(Len(sigs) < SigCap)
  BY <1>3 DEF Heard, Registered
<1> QED
  BY <1>1, <1>2, <1>3

\* Every step of Connect keeps its types and its invariant.
LEMMA NextConnect == TypeOK /\ ConnectInv /\ [Next]_vars => TypeOK' /\ ConnectInv'
<1> SUFFICES ASSUME TypeOK, ConnectInv, [Next]_vars
             PROVE  TypeOK' /\ ConnectInv'
  OBVIOUS
<1> USE ConnectAssumption
    DEF TypeOK, ConnectInv, MatchWhileWaiting, LinkWithinConnect, NewsIsTrue,
        WaitEndsOnNews, EnumeratesResolved, Goto, deviceVars, chVars
<1>u. CASE UNCHANGED vars
  BY <1>u DEF vars
<1>1. CASE DeviceConnect
  BY <1>1 DEF DeviceConnect
<1>2. CASE DeviceConnectFails
  <2>1. linkUp' = FALSE \/ linkUp' = ctxDone
    BY <1>2, Zenon DEF DeviceConnectFails
  <2>2. CASE linkUp' = FALSE
    BY <1>2, <2>2 DEF DeviceConnectFails
  <2>3. CASE linkUp' = ctxDone /\ ctxDone
    <3>1. linkUp'
      BY <2>3
    <3> QED
      BY <1>2, <2>3, <3>1 DEF DeviceConnectFails
  <2>4. CASE linkUp' = ctxDone /\ ~ctxDone
    <3>1. ~linkUp'
      BY <2>4
    <3> QED
      BY <1>2, <2>4, <3>1 DEF DeviceConnectFails
  <2> QED
    BY <2>1, <2>2, <2>3, <2>4
<1>3. CASE GetProperty
  BY <1>3 DEF GetProperty
<1>4. CASE AddMatch
  BY <1>4 DEF AddMatch
<1>5. CASE AddMatchFails
  BY <1>5 DEF AddMatchFails
<1>6. CASE RegisterSignal
  BY <1>6 DEF RegisterSignal
<1>7. CASE TakeSignal
  <2>1. /\ Tail(sigs) \in Seq(Signals) /\ Len(Tail(sigs)) <= SigCap
        /\ \A i \in DOMAIN Tail(sigs) : i + 1 \in DOMAIN sigs /\ Tail(sigs)[i] = sigs[i + 1]
        /\ 1 \in DOMAIN sigs /\ Head(sigs) = sigs[1]
    BY <1>7, HeadTailProperties DEF TakeSignal
  <2> QED
    BY <1>7, <2>1 DEF TakeSignal, SaysResolved
<1>8. CASE Deadline
  BY <1>8 DEF Deadline
<1>9. CASE WaitCancelled
  BY <1>9 DEF WaitCancelled
<1>10. CASE LeaveWait
  <2>1. /\ pc = "leaveWait" /\ match' = FALSE
        /\ pc' = IF result = "none" THEN "enumerate" ELSE "disconnect"
        /\ UNCHANGED <<platform, linkUp, resolved, announced, complete, kept, sigs, late,
                       expired, ctxDone, others, result>>
    BY <1>10 DEF LeaveWait
  <2>2. CASE result = "none"
    BY <2>1, <2>2
  <2>3. CASE result # "none"
    <3>1. pc' = "disconnect" /\ result' # "none" /\ ~match'
      BY <2>1, <2>3
    <3>2. TypeOK'
      <4> HIDE DEF ConnectInv, MatchWhileWaiting, LinkWithinConnect, NewsIsTrue,
                   WaitEndsOnNews, EnumeratesResolved
      <4>1. match' \in BOOLEAN
        BY <2>1
      <4>2. UNCHANGED <<platform, linkUp, resolved, announced, complete, kept, sigs, late,
                        expired, ctxDone, others, result>>
        BY <2>1, Zenon
      <4> QED
        BY <3>1, <4>1, <4>2
    <3>3. MatchWhileWaiting' /\ LinkWithinConnect' /\ EnumeratesResolved'
      <4>1. ~kept' /\ result' # "ok"
        <5> HIDE DEF TypeOK, MatchWhileWaiting, NewsIsTrue, WaitEndsOnNews,
                     EnumeratesResolved
        <5> QED
          BY <2>1
      <4> HIDE DEF TypeOK, NewsIsTrue, WaitEndsOnNews, ConnectInv
      <4> QED
        BY <3>1, <4>1
    <3>4. NewsIsTrue' /\ WaitEndsOnNews'
      <4>1. /\ resolved' = resolved /\ announced' = announced
            /\ sigs' = sigs /\ late' = late
        BY <2>1
      <4> HIDE DEF TypeOK, MatchWhileWaiting, LinkWithinConnect, EnumeratesResolved
      <4> QED
        BY <2>3, <3>1, <4>1
    <3> QED
      <4> HIDE DEF TypeOK, MatchWhileWaiting, LinkWithinConnect, NewsIsTrue,
                   WaitEndsOnNews, EnumeratesResolved
      <4> QED
        BY <3>2, <3>3, <3>4
  <2> QED
    BY <2>2, <2>3
<1>11. CASE GetManagedObjects
  BY <1>11 DEF GetManagedObjects
<1>12. CASE GetManagedObjectsFails
  BY <1>12 DEF GetManagedObjectsFails
<1>13. CASE Lookup
  BY <1>13 DEF Lookup
<1>14. CASE Disconnect
  <2>1. CASE Disconnects
    BY <1>14, <2>1 DEF Disconnect, Disconnects
  <2>2. CASE DisconnectFails
    BY <1>14, <2>2 DEF Disconnect, DisconnectFails
  <2> QED
    BY <1>14, <2>1, <2>2 DEF Disconnect
<1>15. CASE Tinygo
  <2>1. CASE TinygoConnect
    BY <2>1 DEF TinygoConnect
  <2>2. CASE TinygoConnectFails
    BY <2>2 DEF TinygoConnectFails
  <2>3. CASE DiscoverServices
    BY <2>3 DEF DiscoverServices
  <2>4. CASE DiscoverCharacteristics
    BY <2>4 DEF DiscoverCharacteristics
  <2>5. CASE DiscoveryFails
    BY <2>5 DEF DiscoveryFails
  <2>6. CASE ReadDIS
    BY <2>6 DEF ReadDIS
  <2> QED
    BY <1>15, <2>1, <2>2, <2>3, <2>4, <2>5, <2>6 DEF Tinygo
<1>16. CASE LateSignal
  <2>1. PICK sig \in late : sigs' = Append(sigs, sig) /\ late' = late \ {sig}
    BY <1>16 DEF LateSignal
  <2>2. sigs' \in Seq(Signals) /\ Len(sigs') <= SigCap
    BY <1>16, <2>1 DEF LateSignal
  <2>3. \A i \in DOMAIN sigs' : sigs'[i] = sig \/ (i \in DOMAIN sigs /\ sigs'[i] = sigs[i])
    BY <2>1
  <2> QED
    BY <1>16, <2>1, <2>2, <2>3 DEF LateSignal, Registered
<1>17. CASE Resolve
  <2>1. sigs' \in Seq(Signals) /\ Len(sigs') <= SigCap /\ late' \subseteq Signals
        /\ NewsIsTrue'
    BY <1>17, HeardNews DEF Resolve, Signals
  <2> QED
    BY <1>17, <2>1 DEF Resolve
<1>18. CASE LinkDrops
  <2>1. sigs' \in Seq(Signals) /\ Len(sigs') <= SigCap /\ late' \subseteq Signals
        /\ NewsIsTrue'
    BY <1>18, HeardNews DEF LinkDrops, Signals
  <2>2. /\ linkUp /\ linkUp' = FALSE /\ resolved' = FALSE
        /\ UNCHANGED <<platform, pc, announced, complete, kept, match, expired, ctxDone,
                       others, result>>
    BY <1>18 DEF LinkDrops
  <2>3. TypeOK'
    <3> HIDE DEF ConnectInv, MatchWhileWaiting, LinkWithinConnect, NewsIsTrue,
                 WaitEndsOnNews, EnumeratesResolved
    <3>1. /\ linkUp' \in BOOLEAN /\ resolved' \in BOOLEAN
          /\ sigs' \in Seq(Signals) /\ Len(sigs') <= SigCap /\ late' \subseteq Signals
      BY <2>1, <2>2
    <3>2. UNCHANGED <<platform, pc, announced, complete, kept, match, expired, ctxDone,
                     others, result>>
      BY <2>2, Zenon
    <3> QED
      BY <3>1, <3>2
  <2>4. MatchWhileWaiting' /\ LinkWithinConnect'
    BY <2>2
  <2>5. WaitEndsOnNews' /\ EnumeratesResolved'
    BY <2>2
  <2> QED
    BY <2>1, <2>3, <2>4, <2>5 DEF ConnectInv
<1>19. CASE OtherSignal
  <2>1. sigs' \in Seq(Signals) /\ Len(sigs') <= SigCap /\ late' \subseteq Signals
        /\ NewsIsTrue'
    BY <1>19, HeardNews DEF OtherSignal, Signals
  <2> QED
    BY <1>19, <2>1 DEF OtherSignal
<1>20. CASE Expire
  BY <1>20 DEF Expire
<1>21. CASE Cancel
  BY <1>21 DEF Cancel
<1> QED
  BY <1>u, <1>1, <1>2, <1>3, <1>4, <1>5, <1>6, <1>7, <1>8, <1>9, <1>10, <1>11,
     <1>12, <1>13, <1>14, <1>15, <1>16, <1>17, <1>18, <1>19, <1>20,
     <1>21
  DEF Next, Before, Wait, After, Environment

-----------------------------------------------------------------------------
\* The match rule of waitServicesResolved is added only while it waits, connect
\* fails only without a connection, and its wait ends without an error only on
\* a signal that is true: an invariant of Adapter.Connect.
THEOREM ConnectInvariant == Spec => [](TypeOK /\ ConnectInv)
  BY InitConnect, NextConnect, PTL DEF Spec

\* What Connect's invariant says of its last step.
LEMMA ConnectInvImplies == ConnectInv => ConnectLeavesNothing /\ EnumeratesResolved
  BY DEF ConnectInv, MatchWhileWaiting, LinkWithinConnect, ConnectLeavesNothing

-----------------------------------------------------------------------------
(* What it takes for a timeout to mean that the services are not resolved  *)

\* The services become resolved before the one look at the property, which
\* then finds them so, or while connect listens.  The code cannot see to it,
\* because it looks before it listens and not again: it is what a second look
\* after RegisterSignal would make needless.
ResolvedWhileHeard ==
    /\ ~resolved /\ resolved' =>
          pc \in {"connect", "getProperty"} \/ (match /\ Registered)
    /\ pc = "getProperty" /\ pc' = "addMatch" => ~resolved

\* BlueZ's news is on its way to the loop.
NewsOnItsWay == "resolved" \in late \/ \E i \in DOMAIN sigs : sigs[i] = "resolved"

\* What is resolved while connect waits is on its way to it.
NewsNotMissed ==
    /\ pc \in {"addMatch", "signal"} => ~resolved
    /\ pc = "wait" /\ resolved => NewsOnItsWay
    /\ TimeoutMeansUnresolved

\* Signals are put in, one of them the news or none, and none is lost.
LEMMA NewsKept ==
    ASSUME TypeOK, NEW sig \in Signals, Heard(sig), match, Registered
    PROVE  NewsOnItsWay' <=> NewsOnItsWay \/ sig = "resolved"
<1>1. CASE Len(sigs) < SigCap
  <2>1. sigs' = Append(sigs, sig) /\ late' = late
    BY <1>1 DEF Heard
  <2>2. sigs \in Seq(Signals)
    BY DEF TypeOK
  <2>3. /\ DOMAIN sigs = 1 .. Len(sigs) /\ Len(sigs) \in Nat
        /\ DOMAIN sigs' = 1 .. (Len(sigs) + 1)
        /\ \A i \in 1 .. Len(sigs) : sigs'[i] = sigs[i]
        /\ sigs'[Len(sigs) + 1] = sig
    BY <2>1, <2>2
  <2>4. \A i \in 1 .. (Len(sigs) + 1) : i \in 1 .. Len(sigs) \/ i = Len(sigs) + 1
    BY <2>3
  <2>5. Len(sigs) + 1 \in 1 .. (Len(sigs) + 1)
        /\ \A i \in 1 .. Len(sigs) : i \in 1 .. (Len(sigs) + 1)
    BY <2>3
  <2> QED
    BY <2>1, <2>3, <2>4, <2>5, Zenon DEF NewsOnItsWay
<1>2. CASE ~(Len(sigs) < SigCap)
  BY <1>2 DEF Heard, NewsOnItsWay
<1> QED
  BY <1>1, <1>2

\* A signal that waited beside the channel is put in.
LEMMA LateNewsKept ==
    ASSUME TypeOK, LateSignal, NewsOnItsWay
    PROVE  NewsOnItsWay'
<1>1. PICK sig \in late : sigs' = Append(sigs, sig) /\ late' = late \ {sig}
  BY DEF LateSignal
<1>2. sigs \in Seq(Signals)
  BY DEF TypeOK
<1>3. /\ DOMAIN sigs = 1 .. Len(sigs) /\ Len(sigs) \in Nat
      /\ DOMAIN sigs' = 1 .. (Len(sigs) + 1)
      /\ \A i \in 1 .. Len(sigs) : sigs'[i] = sigs[i]
      /\ sigs'[Len(sigs) + 1] = sig
  BY <1>1, <1>2
<1>4. CASE "resolved" \in late
  <2>1. CASE sig = "resolved"
    <3>1. Len(sigs) + 1 \in DOMAIN sigs'
      BY <1>3
    <3> QED
      BY <1>3, <2>1, <3>1, Zenon DEF NewsOnItsWay
  <2>2. CASE sig # "resolved"
    BY <1>1, <1>4, <2>2, Zenon DEF NewsOnItsWay
  <2> QED
    BY <2>1, <2>2
<1>5. ASSUME NEW i \in DOMAIN sigs, sigs[i] = "resolved" PROVE NewsOnItsWay'
  <2>1. i \in DOMAIN sigs' /\ sigs'[i] = sigs[i]
    BY <1>3
  <2> QED
    BY <1>5, <2>1, Zenon DEF NewsOnItsWay
<1> QED
  BY <1>4, <1>5 DEF NewsOnItsWay

\* Taking a signal that is not the news leaves the news where it is.
LEMMA NewsLeft ==
    ASSUME TypeOK, TakeSignal, NewsOnItsWay, Head(sigs) # "resolved"
    PROVE  NewsOnItsWay'
<1>1. sigs \in Seq(Signals) /\ sigs # << >> /\ sigs' = Tail(sigs) /\ late' = late
  BY DEF TypeOK, TakeSignal
<1>2. CASE "resolved" \in late
  BY <1>1, <1>2, Zenon DEF NewsOnItsWay
<1>3. ASSUME NEW i \in DOMAIN sigs, sigs[i] = "resolved" PROVE NewsOnItsWay'
  <2>1. /\ Len(sigs) \in Nat /\ i \in 1 .. Len(sigs) /\ Head(sigs) = sigs[1]
        /\ DOMAIN sigs' = 1 .. (Len(sigs) - 1)
        /\ \A j \in 1 .. (Len(sigs) - 1) : sigs'[j] = sigs[j + 1]
    BY <1>1, <1>3, HeadTailProperties
  <2>2. i # 1
    BY <1>3, <2>1, Zenon
  <2>3. i - 1 \in 1 .. (Len(sigs) - 1) /\ (i - 1) + 1 = i
    BY <2>1, <2>2
  <2>4. i - 1 \in DOMAIN sigs' /\ sigs'[i - 1] = "resolved"
    BY <1>3, <2>1, <2>3
  <2> QED
    BY <2>4, Zenon DEF NewsOnItsWay
<1> QED
  BY <1>2, <1>3 DEF NewsOnItsWay

\* A step that puts nothing in, resolves nothing, times nothing out and begins
\* no part of the wait misses no news.
LEMMA NewsUntouched ==
    ASSUME NewsNotMissed, UNCHANGED chVars, resolved' => resolved,
           result' = "timeout" => result = "timeout",
           pc' \in {"addMatch", "signal", "wait"} => pc' = pc
    PROVE  NewsNotMissed'
<1>1. NewsOnItsWay' <=> NewsOnItsWay
  BY DEF NewsOnItsWay, chVars
<1> QED
  BY <1>1 DEF NewsNotMissed, TimeoutMeansUnresolved, NewsOnItsWay

\* Every step of Connect misses no news, if BlueZ's comes while it listens.
LEMMA NextNewsNotMissed ==
    ASSUME TypeOK, ConnectInv, NewsNotMissed, [Next]_vars, [ResolvedWhileHeard]_vars
    PROVE  NewsNotMissed'
<1> USE DEF Goto, deviceVars
<1>t. /\ TimeoutMeansUnresolved <=> (result = "timeout" /\ resolved => NewsOnItsWay)
      /\ TimeoutMeansUnresolved' <=> (result' = "timeout" /\ resolved' => NewsOnItsWay')
  BY DEF TimeoutMeansUnresolved, NewsOnItsWay
<1>e. pc \in {"connect", "getProperty", "addMatch", "signal", "wait"} => result = "none"
  BY DEF ConnectInv, WaitEndsOnNews
<1>u. CASE UNCHANGED vars
  BY <1>u, NewsUntouched DEF vars
<1>h. CASE ~UNCHANGED vars
  <2>0. ResolvedWhileHeard
    BY <1>h
  <2>1. CASE DeviceConnect
    <3>1. pc' = "getProperty" /\ result' = "none"
      BY <1>e, <2>1 DEF DeviceConnect
    <3> QED
      BY <1>t, <3>1 DEF NewsNotMissed
  <2>2. CASE DeviceConnectFails
    BY <2>2, NewsUntouched DEF DeviceConnectFails
  <2>3. CASE GetProperty
    <3>1. /\ pc = "getProperty" /\ pc' \in {"enumerate", "addMatch"} /\ result' = "none"
          /\ UNCHANGED resolved
      BY <1>e, <2>3 DEF GetProperty
    <3>2. pc' = "addMatch" => ~resolved'
      BY <2>0, <3>1 DEF ResolvedWhileHeard
    <3> QED
      BY <1>t, <3>1, <3>2 DEF NewsNotMissed
  <2>4. CASE AddMatch
    <3>1. pc = "addMatch" /\ pc' = "signal" /\ result' = "none" /\ UNCHANGED resolved
      BY <1>e, <2>4 DEF AddMatch
    <3> QED
      BY <1>t, <3>1 DEF NewsNotMissed
  <2>5. CASE AddMatchFails
    BY <2>5, NewsUntouched DEF AddMatchFails
  <2>6. CASE RegisterSignal
    <3>1. pc = "signal" /\ pc' = "wait" /\ result' = "none" /\ UNCHANGED resolved
      BY <1>e, <2>6 DEF RegisterSignal
    <3> QED
      BY <1>t, <3>1 DEF NewsNotMissed
  <2>7. CASE TakeSignal
    <3>1. pc = "wait" /\ result' = "none" /\ UNCHANGED resolved
      BY <1>e, <2>7 DEF TakeSignal
    <3>2. CASE Head(sigs) = "resolved"
      <4>1. pc' = "leaveWait"
        BY <2>7, <3>2 DEF TakeSignal, SaysResolved
      <4> QED
        BY <1>t, <3>1, <4>1 DEF NewsNotMissed
    <3>3. CASE Head(sigs) # "resolved"
      <4>1. pc' = "wait"
        BY <2>7, <3>3 DEF TakeSignal, SaysResolved
      <4>2. NewsOnItsWay => NewsOnItsWay'
        BY <2>7, <3>3, NewsLeft
      <4> QED
        BY <1>t, <3>1, <4>1, <4>2 DEF NewsNotMissed
    <3> QED
      BY <3>2, <3>3
  <2>8. CASE Deadline
    <3>1. /\ pc = "wait" /\ pc' = "leaveWait" /\ UNCHANGED <<resolved, sigs, late>>
      BY <2>8 DEF Deadline, chVars
    <3>2. NewsOnItsWay' <=> NewsOnItsWay
      BY <3>1 DEF NewsOnItsWay
    <3> QED
      BY <1>t, <3>1, <3>2 DEF NewsNotMissed
  <2>9. CASE WaitCancelled
    BY <2>9, NewsUntouched DEF WaitCancelled
  <2>10. CASE LeaveWait
    BY <2>10, NewsUntouched DEF LeaveWait
  <2>11. CASE GetManagedObjects
    BY <2>11, NewsUntouched DEF GetManagedObjects
  <2>12. CASE GetManagedObjectsFails
    BY <2>12, NewsUntouched DEF GetManagedObjectsFails
  <2>13. CASE Lookup
    BY <2>13, NewsUntouched DEF Lookup
  <2>14. CASE Disconnect
    BY <2>14, NewsUntouched DEF Disconnect, Disconnects, DisconnectFails
  <2>15. CASE Tinygo
    <3>1. CASE TinygoConnect
      BY <3>1, NewsUntouched DEF TinygoConnect
    <3>2. CASE TinygoConnectFails
      BY <3>2, NewsUntouched DEF TinygoConnectFails
    <3>3. CASE DiscoverServices
      BY <3>3, NewsUntouched DEF DiscoverServices
    <3>4. CASE DiscoverCharacteristics
      BY <3>4, NewsUntouched DEF DiscoverCharacteristics
    <3>5. CASE DiscoveryFails
      BY <3>5, NewsUntouched DEF DiscoveryFails
    <3>6. CASE ReadDIS
      BY <3>6, NewsUntouched DEF ReadDIS
    <3> QED
      BY <2>15, <3>1, <3>2, <3>3, <3>4, <3>5, <3>6 DEF Tinygo
  <2>16. CASE LateSignal
    <3>1. UNCHANGED <<pc, resolved, result>>
      BY <2>16 DEF LateSignal
    <3>2. NewsOnItsWay => NewsOnItsWay'
      BY <2>16, LateNewsKept
    <3> QED
      BY <1>t, <3>1, <3>2 DEF NewsNotMissed
  <2>17. CASE Resolve
    <3>1. ~resolved /\ resolved' /\ Heard("resolved") /\ UNCHANGED <<pc, result>>
      BY <2>17 DEF Resolve
    <3>2. CASE pc \in {"connect", "getProperty"}
      BY <1>e, <1>t, <3>1, <3>2 DEF NewsNotMissed
    <3>3. CASE match /\ Registered
      <4>1. NewsOnItsWay'
        BY <3>1, <3>3, NewsKept DEF Signals
      <4>2. pc' \notin {"addMatch", "signal"}
        BY <3>1, <3>3 DEF Registered
      <4> QED
        BY <1>t, <4>1, <4>2 DEF NewsNotMissed
    <3> QED
      BY <2>0, <3>1, <3>2, <3>3 DEF ResolvedWhileHeard
  <2>18. CASE LinkDrops
    <3>1. resolved' = FALSE
      BY <2>18 DEF LinkDrops
    <3> QED
      BY <1>t, <3>1 DEF NewsNotMissed
  <2>19. CASE OtherSignal
    <3>1. Heard("other") /\ UNCHANGED <<pc, resolved, result>>
      BY <2>19 DEF OtherSignal
    <3>2. CASE match /\ Registered
      <4>1. NewsOnItsWay => NewsOnItsWay'
        BY <3>1, <3>2, NewsKept DEF Signals
      <4> QED
        BY <1>t, <3>1, <4>1 DEF NewsNotMissed
    <3>3. CASE ~(match /\ Registered)
      BY <3>1, <3>3, NewsUntouched DEF Heard
    <3> QED
      BY <3>2, <3>3
  <2>20. CASE Expire
    BY <2>20, NewsUntouched DEF Expire
  <2>21. CASE Cancel
    BY <2>21, NewsUntouched DEF Cancel
  <2> QED
    BY <1>h, <2>1, <2>2, <2>3, <2>4, <2>5, <2>6, <2>7, <2>8, <2>9, <2>10, <2>11, <2>12,
       <2>13, <2>14, <2>15, <2>16, <2>17, <2>18, <2>19, <2>20, <2>21
    DEF Next, Before, Wait, After, Environment
<1> QED
  BY <1>u, <1>h

\* waitServicesResolved times out on a device whose services are resolved only
\* if they became so between its one look and RegisterSignal, or once it had
\* given up, or if that look failed: no signal that comes while it listens is
\* missed, however many others come and however full the channel.
THEOREM TimesOutOnlyUnheard ==
    Spec /\ [][ResolvedWhileHeard]_vars => []TimeoutMeansUnresolved
<1>1. Init => NewsNotMissed
  BY DEF Init, NewsNotMissed, TimeoutMeansUnresolved
<1>2. (TypeOK /\ ConnectInv) /\ NewsNotMissed /\ [Next]_vars /\ [ResolvedWhileHeard]_vars
        => NewsNotMissed'
  BY NextNewsNotMissed
<1>3. NewsNotMissed => TimeoutMeansUnresolved
  BY DEF NewsNotMissed
<1> QED
  BY <1>1, <1>2, <1>3, ConnectInvariant, PTL DEF Spec

-----------------------------------------------------------------------------
(* The programs around it                                                  *)

\* At the start the types and both invariants hold.
LEMMA InitProgram ==
    ProgramInit => ProgramTypeOK /\ ConnectInv /\ ProgramInv
<1> SUFFICES ASSUME ProgramInit
             PROVE  ProgramTypeOK /\ ConnectInv /\ ProgramInv
  OBVIOUS
<1>1. TypeOK /\ ConnectInv
  BY InitConnect DEF ProgramInit
<1>2. ProgramTypeOK
  <2>1. step \in 0 .. AllCommands /\ queue \in 0 .. OutCap
    BY ProgramAssumption DEF ProgramInit, AllCommands, FirstCommands
  <2> QED
    BY <1>1, <2>1 DEF ProgramInit, ProgramTypeOK, Programs
<1>3. ProgramInv
  BY DEF ProgramInit, Init, ProgramInv, StepInPlace, DownInOrder, TakenDownInOrder
<1> QED
  BY <1>1, <1>2, <1>3

\* A process that ends in log.Fatal drops the connection or leaves it as it is.
LEMMA FatalEnds ==
    ASSUME ProgramTypeOK, ConnectInv, ProgramInv, Fatal, ends = "no"
    PROVE  ProgramTypeOK' /\ ConnectInv' /\ ProgramInv'
<1>1. linkUp' \in BOOLEAN /\ resolved' \in BOOLEAN /\ (linkUp' => linkUp)
      /\ (resolved' => resolved)
  BY DEF Fatal, ProgramTypeOK, TypeOK
<1>2. TypeOK' /\ ConnectInv'
  BY <1>1
  DEF Fatal, ProgramTypeOK, TypeOK, ConnectInv, MatchWhileWaiting,
      LinkWithinConnect, NewsIsTrue, WaitEndsOnNews, EnumeratesResolved, chVars
<1>3. ProgramTypeOK'
  BY <1>2
  DEF Fatal, ProgramTypeOK, Programs, AllCommands, FirstCommands, streamVars
<1>4. ProgramInv'
  BY DEF Fatal, ProgramInv, StepInPlace, DownInOrder, TakenDownInOrder, streamVars
<1> QED
  BY <1>2, <1>3, <1>4

\* connect returns no connection that it was to drop.
LEMMA ConnectedAfresh ==
    ASSUME ConnectInv, ~(kept /\ result = "ok"), Next
    PROVE  ~(kept' /\ result' = "ok")
<1> USE DEF Goto, deviceVars, ConnectInv, LinkWithinConnect
<1>1. CASE DeviceConnect \/ GetProperty \/ AddMatch \/ RegisterSignal \/ TakeSignal
             \/ LeaveWait \/ GetManagedObjects
  BY <1>1
  DEF DeviceConnect, GetProperty, AddMatch, RegisterSignal, TakeSignal, LeaveWait,
      GetManagedObjects
<1>2. CASE DeviceConnectFails \/ AddMatchFails \/ Deadline \/ WaitCancelled
             \/ GetManagedObjectsFails
  BY <1>2
  DEF DeviceConnectFails, AddMatchFails, Deadline, WaitCancelled,
      GetManagedObjectsFails
<1>3. CASE Lookup
  BY <1>3 DEF Lookup
<1>4. CASE Disconnect
  BY <1>4 DEF Disconnect
<1>5. CASE Tinygo
  BY <1>5
  DEF Tinygo, TinygoConnect, TinygoConnectFails, DiscoverServices,
      DiscoverCharacteristics, DiscoveryFails, ReadDIS
<1>6. CASE Environment
  BY <1>6
  DEF Environment, LateSignal, Resolve, LinkDrops, OtherSignal, Expire, Cancel
<1> QED
  BY <1>1, <1>2, <1>3, <1>4, <1>5, <1>6 DEF Next, Before, Wait, After

\* A step of main, its goroutines or the client that leaves the device alone.
LEMMA ConnectKept ==
    ASSUME TypeOK, ConnectInv, UNCHANGED vars
    PROVE  TypeOK' /\ ConnectInv'
  BY NextConnect

\* Every step of a program keeps the types and both invariants.
LEMMA NextProgram ==
    ASSUME ProgramTypeOK, ConnectInv, ProgramInv, [ProgramNext]_programVars
    PROVE  ProgramTypeOK' /\ ConnectInv' /\ ProgramInv'
<1>t. TypeOK
  BY DEF ProgramTypeOK
<1>s. FirstCommands \in Nat /\ AllCommands = FirstCommands + 2
      /\ (program = "smoke" => FirstCommands = 4) /\ (program # "smoke" => FirstCommands = 1)
  BY DEF FirstCommands, AllCommands
<1>v. UNCHANGED program => UNCHANGED <<FirstCommands, AllCommands>>
  BY DEF FirstCommands, AllCommands
<1> USE ProgramAssumption
    DEF ProgramTypeOK, ProgramInv, StepInPlace, DownInOrder, TakenDownInOrder,
        Main, mainVars, streamVars
<1>u. CASE UNCHANGED programVars
  <2>1. TypeOK' /\ ConnectInv'
    BY <1>u, <1>t, ConnectKept DEF programVars
  <2> QED
    BY <1>u, <1>v, <2>1 DEF programVars, vars, deviceVars
<1>1. CASE ConnectSteps
  <2>1. Next /\ UNCHANGED <<mainVars, streamVars>>
    BY <1>1 DEF ConnectSteps, Connecting, Next, Environment
  <2>2. TypeOK' /\ ConnectInv'
    BY <1>t, <2>1, NextConnect
  <2>3. Main("connect")
    BY <1>1 DEF ConnectSteps, Connecting
  <2>4. kept' /\ result' = "ok" => kept /\ result = "ok"
    BY <2>1, ConnectedAfresh
  <2> QED
    BY <1>v, <2>1, <2>2, <2>3, <2>4
<1>2. CASE NothingFound \/ ConnectFailed \/ CallFails
  BY <1>2, FatalEnds DEF NothingFound, ConnectFailed, CallFails, Main
<1>3. CASE TakeResult
  <2>1. TypeOK' /\ ConnectInv'
    BY <1>3, <1>t, ConnectKept DEF TakeResult
  <2> QED
    BY <1>3, <1>t, <1>s, <1>v, <2>1 DEF TakeResult, vars, deviceVars
<1>4. CASE ScanEnds
  <2>1. TypeOK' /\ ConnectInv'
    BY <1>4, <1>t, ConnectKept DEF ScanEnds
  <2> QED
    BY <1>4, <1>t, <1>s, <1>v, <2>1 DEF ScanEnds, vars, deviceVars
<1>5. CASE Connected
  <2>1. TypeOK' /\ ConnectInv'
    BY <1>5, <1>t, ConnectKept DEF Connected
  <2> QED
    BY <1>5, <1>t, <1>s, <1>v, <2>1 DEF Connected, vars, deviceVars
<1>6. CASE LoggedIn
  <2>1. TypeOK' /\ ConnectInv'
    BY <1>6, <1>t, ConnectKept DEF LoggedIn
  <2> QED
    BY <1>6, <1>t, <1>s, <1>v, <2>1 DEF LoggedIn, vars, deviceVars
<1>7. CASE Subscribed
  <2>1. TypeOK' /\ ConnectInv'
    BY <1>7, <1>t, ConnectKept DEF Subscribed
  <2>2. receiver' \in {"none", "running"} /\ (program = "listen" => receiver' = "none")
    BY <1>7 DEF Subscribed
  <2>3. stream' = "open" /\ at' = "send" /\ at = "notifications"
        /\ UNCHANGED <<program, step, ends, linkUp, kept, result, queue, heartbeat, best, known,
                       overdue, notifyDone>>
    BY <1>7 DEF Subscribed, vars, deviceVars
  <2>4. step < AllCommands /\ (program # "smoke" => step < FirstCommands)
    BY <2>3, <1>s
  <2> QED
    BY <1>7, <1>t, <1>s, <1>v, <2>1, <2>2, <2>3, <2>4
<1>8. CASE Sends
  <2>1. TypeOK' /\ ConnectInv'
    BY <1>8, <1>t, ConnectKept DEF Sends
  <2> QED
    BY <1>8, <1>t, <1>s, <1>v, <2>1 DEF Sends, AfterSend, vars, deviceVars
<1>9. CASE List
  <2>1. TypeOK' /\ ConnectInv'
    BY <1>9, <1>t, ConnectKept DEF List
  <2>2. at = "list" /\ at' \in {"send", "await"} /\ notifyDone' \in BOOLEAN
        /\ UNCHANGED <<program, best, step, known, overdue, heartbeat, ends, streamVars,
                       linkUp, kept, result>>
    BY <1>9 DEF List, vars, deviceVars
  <2> QED
    BY <1>9, <1>t, <1>s, <1>v, <2>1, <2>2
<1>10. CASE Peek
  <2>1. TypeOK' /\ ConnectInv'
    BY <1>10, <1>t, ConnectKept DEF Peek
  <2> QED
    BY <1>10, <1>t, <1>s, <1>v, <2>1 DEF Peek, vars, deviceVars
<1>11. CASE WatchEnds
  <2>1. TypeOK' /\ ConnectInv'
    BY <1>11, <1>t, ConnectKept DEF WatchEnds
  <2> QED
    BY <1>11, <1>t, <1>s, <1>v, <2>1 DEF WatchEnds, StopWatching, vars, deviceVars
<1>12. CASE ListenReceives
  <2>1. TypeOK' /\ ConnectInv'
    BY <1>12, <1>t, ConnectKept DEF ListenReceives
  <2>2. at' \in {"watch", "closeClient"} /\ notifyDone' \in BOOLEAN
        /\ queue' \in 0 .. OutCap /\ at = "watch" /\ program = "listen"
        /\ UNCHANGED <<program, best, step, known, overdue, heartbeat, ends, stream,
                       receiver, linkUp, kept, result>>
    <3>1. at' \in {"watch", "closeClient"} /\ notifyDone' \in BOOLEAN
      BY <1>12 DEF ListenReceives, LookAtDeadline, StopWatching
    <3> QED
      BY <1>12, <3>1 DEF ListenReceives, vars, deviceVars
  <2> QED
    BY <1>12, <1>t, <1>s, <1>v, <2>1, <2>2
<1>13. CASE Await
  <2>1. TypeOK' /\ ConnectInv'
    BY <1>13, <1>t, ConnectKept DEF Await
  <2> QED
    BY <1>13, <1>t, <1>s, <1>v, <2>1 DEF Await, vars, deviceVars
<1>14. CASE CloseCancels
  <2>1. TypeOK' /\ ConnectInv'
    BY <1>14, <1>t, ConnectKept DEF CloseCancels
  <2> QED
    BY <1>14, <1>t, <1>s, <1>v, <2>1 DEF CloseCancels, vars, deviceVars
<1>15. CASE CloseReturns
  <2>1. TypeOK' /\ ConnectInv'
    BY <1>15, <1>t, ConnectKept DEF CloseReturns
  <2> QED
    BY <1>15, <1>t, <1>s, <1>v, <2>1 DEF CloseReturns, CloseWaits, vars, deviceVars
<1>16. CASE HeartbeatStops
  <2>1. TypeOK' /\ ConnectInv'
    BY <1>16, <1>t, ConnectKept DEF HeartbeatStops
  <2> QED
    BY <1>16, <1>t, <1>s, <1>v, <2>1 DEF HeartbeatStops, vars, deviceVars
<1>17. CASE Notified
  <2>1. TypeOK' /\ ConnectInv'
    BY <1>17, <1>t, ConnectKept DEF Notified
  <2> QED
    BY <1>17, <1>t, <1>s, <1>v, <2>1 DEF Notified, vars, deviceVars
<1>18. CASE StreamEnds
  <2>1. TypeOK' /\ ConnectInv'
    BY <1>18, <1>t, ConnectKept DEF StreamEnds
  <2> QED
    BY <1>18, <1>t, <1>s, <1>v, <2>1 DEF StreamEnds, vars, deviceVars
<1>19. CASE ReceiverTakes
  <2>1. TypeOK' /\ ConnectInv'
    BY <1>19, <1>t, ConnectKept DEF ReceiverTakes
  <2>2. ends = "no" /\ receiver = "running" /\ queue' \in 0 .. OutCap
        /\ UNCHANGED <<program, best, step, overdue, notifyDone, heartbeat, stream,
                       receiver, linkUp, kept, result>>
    BY <1>19 DEF ReceiverTakes, vars, deviceVars
  <2>3. known' \in BOOLEAN
    BY <1>19, Zenon DEF ReceiverTakes
  <2>4. CASE UNCHANGED <<at, ends>>
    BY <1>t, <1>s, <1>v, <2>1, <2>2, <2>3, <2>4
  <2>5. CASE at' = "over" /\ ends' = "crashed"
    BY <1>t, <1>s, <1>v, <2>1, <2>2, <2>3, <2>5
  <2> QED
    BY <1>19, <2>4, <2>5 DEF ReceiverTakes
<1>20. CASE ReceiverEnds
  <2>1. TypeOK' /\ ConnectInv'
    BY <1>20, <1>t, ConnectKept DEF ReceiverEnds
  <2> QED
    BY <1>20, <1>t, <1>s, <1>v, <2>1 DEF ReceiverEnds, vars, deviceVars
<1>21. CASE TimeIsUp
  <2>1. TypeOK' /\ ConnectInv'
    BY <1>21, <1>t, ConnectKept DEF TimeIsUp
  <2> QED
    BY <1>21, <1>t, <1>s, <1>v, <2>1 DEF TimeIsUp, vars, deviceVars
<1>22. CASE CloseConn
  <2>d. /\ linkUp' \in BOOLEAN /\ resolved' \in BOOLEAN /\ kept' \in BOOLEAN
        /\ (linkUp' => linkUp) /\ (resolved' => resolved)
        /\ (linkUp' => kept')
    <3>1. CASE Disconnects
      BY <1>t, <3>1 DEF Disconnects, TypeOK
    <3>2. CASE DisconnectFails
      BY <1>t, <3>2 DEF DisconnectFails, TypeOK
    <3> QED
      BY <1>22, <3>1, <3>2 DEF CloseConn
  <2>r. result = "ok" /\ pc = "returned"
    BY <1>22 DEF CloseConn, ConnectInv, LinkWithinConnect
  <2>1. /\ linkUp' \in BOOLEAN /\ resolved' \in BOOLEAN /\ kept' \in BOOLEAN
        /\ (linkUp' => linkUp) /\ (resolved' => resolved)
        /\ (linkUp' => kept') /\ result = "ok" /\ pc = "returned"
        /\ UNCHANGED <<platform, pc, announced, complete, match, sigs, late, expired,
                       ctxDone, others, result>>
    BY <1>22, <2>d, <2>r DEF CloseConn, chVars
  <2>2. TypeOK' /\ ConnectInv'
    <3>1. TypeOK'
      BY <1>t, <2>1 DEF TypeOK
    <3>2. MatchWhileWaiting' /\ LinkWithinConnect' /\ WaitEndsOnNews'
          /\ EnumeratesResolved'
      BY <2>1 DEF ConnectInv, MatchWhileWaiting, LinkWithinConnect, WaitEndsOnNews,
                  EnumeratesResolved
    <3>3. NewsIsTrue'
      BY <2>1 DEF ConnectInv, NewsIsTrue
    <3> QED
      BY <3>1, <3>2, <3>3 DEF ConnectInv
  <2> QED
    BY <1>22, <1>t, <1>s, <1>v, <2>1, <2>2 DEF CloseConn
<1>23. CASE Interrupt
  <2>1. TypeOK' /\ ConnectInv'
    BY <1>23, <1>t
    DEF Interrupt, TypeOK, ConnectInv, MatchWhileWaiting, LinkWithinConnect,
        NewsIsTrue, WaitEndsOnNews, EnumeratesResolved, chVars, deviceVars
  <2> QED
    BY <1>23, <1>v, <2>1 DEF Interrupt, deviceVars
<1>24. CASE Device
  <2>1. /\ Next /\ UNCHANGED <<mainVars, streamVars, kept, result>>
        /\ linkUp' => linkUp
    BY <1>24 DEF Device, Next, Environment, Resolve, LinkDrops
  <2>2. TypeOK' /\ ConnectInv'
    BY <1>t, <2>1, NextConnect
  <2> QED
    BY <1>v, <2>1, <2>2
<1> QED
  BY <1>u, <1>1, <1>2, <1>3, <1>4, <1>5, <1>6, <1>7, <1>8, <1>9, <1>10, <1>11, <1>12,
     <1>13, <1>14, <1>15, <1>16, <1>17, <1>18, <1>19, <1>20, <1>21, <1>22, <1>23, <1>24
  DEF ProgramNext, MainSteps, Receiver

-----------------------------------------------------------------------------
\* That invariant holds of Connect in the three programs, too, where log.Fatal
\* and conn.Close drop its connection and the device comes and goes; with it,
\* where each main is tells how far its commands, its receiver and its
\* heartbeat are.
THEOREM ProgramInvariant == ProgramSpec => [](ProgramTypeOK /\ ConnectInv /\ ProgramInv)
  BY InitProgram, NextProgram, PTL DEF ProgramSpec

\* No variable of connect, of main or of its goroutines leaves its type: no
\* more commands than the program has, no more notifications or signals than
\* the channels hold.
THEOREM TypeCorrect == ProgramSpec => []ProgramTypeOK
  BY ProgramInvariant, PTL

\* connect removes its match rule however the wait ended, and disconnects when
\* it fails, but for what ConnectLeavesNothing excepts.
THEOREM NothingLeft == ProgramSpec => []ConnectLeavesNothing
  BY ProgramInvariant, ConnectInvImplies, PTL

\* connect looks the characteristics up only once BlueZ said that the services
\* are resolved: no other signal ends the wait.
THEOREM ResolvedFirst == ProgramSpec => []EnumeratesResolved
  BY ProgramInvariant, ConnectInvImplies, PTL

\* Each main disconnects only once its heartbeat loop and its receiver are at
\* an end, and has disconnected when it returns.
THEOREM DownInTurn == ProgramSpec => []TakenDownInOrder
<1>1. ProgramInv => TakenDownInOrder
  BY DEF ProgramInv
<1> QED
  BY <1>1, ProgramInvariant, PTL

-----------------------------------------------------------------------------
(* What main waits for when it takes everything down                        *)

\* main waits for a receiver only after it cancelled the stream that receiver
\* reads to its end, and in Close only for a heartbeat that was started.
AwaitsWhatItCancelled ==
    /\ at = "await" => notifyDone /\ receiver # "none" /\ stream # "none"
    /\ at = "closeClient" => heartbeat # "none"

\* What is started by the time main is at each place.
StartedInOrder ==
    /\ at \in {"notifications", "send", "list", "peek", "watch", "await", "closeClient"} =>
          heartbeat # "none"
    /\ at \in {"send", "list", "peek", "watch", "await"} =>
          stream # "none" /\ (program # "listen" => receiver # "none")
    /\ at = "await" => notifyDone /\ program # "listen"

\* Every step of a program keeps what it started.
LEMMA NextStarted ==
    ASSUME ProgramTypeOK, ProgramInv, StartedInOrder, [ProgramNext]_programVars
    PROVE  StartedInOrder'
<1> USE DEF StartedInOrder, Main, mainVars, streamVars
<1>u. CASE UNCHANGED programVars
  BY <1>u DEF programVars
<1>s. /\ step \in Nat /\ FirstCommands \in Nat
      /\ at = "send" => step < FirstCommands + 2
      /\ at = "send" /\ program # "smoke" => step < FirstCommands
      /\ at \in {"list", "peek"} => program = "smoke"
  BY DEF ProgramTypeOK, ProgramInv, StepInPlace, FirstCommands, AllCommands
<1>1. CASE ConnectSteps
  BY <1>1 DEF ConnectSteps, Connecting
<1>2. CASE NothingFound \/ ConnectFailed \/ CallFails
  <2>1. at' = "over"
    BY <1>2 DEF NothingFound, ConnectFailed, CallFails, Fatal
  <2> QED
    BY <2>1
<1>3. CASE Sends
  <2>1. /\ at = "send" /\ step' = step + 1 /\ at' = AfterSend(step')
        /\ notifyDone' = (at' = "await")
        /\ UNCHANGED <<program, heartbeat, stream, receiver>>
    BY <1>3 DEF Sends
  <2>2. at' \in {"send", "watch", "list", "peek", "await"}
        /\ (at' = "await" => program = "smoke")
    <3>1. CASE step + 1 < FirstCommands
      BY <2>1, <3>1 DEF AfterSend
    <3>2. CASE ~(step + 1 < FirstCommands) /\ program # "smoke"
      BY <2>1, <3>2 DEF AfterSend
    <3>3. CASE ~(step + 1 < FirstCommands) /\ program = "smoke"
      <4>1. step + 1 \in {FirstCommands, FirstCommands + 1, FirstCommands + 2}
        BY <1>s, <2>1, <3>3
      <4> QED
        BY <1>s, <2>1, <3>3, <4>1 DEF AfterSend, AllCommands
    <3> QED
      BY <3>1, <3>2, <3>3
  <2>3. at' = "await" => notifyDone'
    BY <2>1
  <2> QED
    BY <2>1, <2>2, <2>3
<1>4. CASE TakeResult
  BY <1>4, <1>s DEF TakeResult
<1>5. CASE ScanEnds
  BY <1>5, <1>s DEF ScanEnds
<1>6. CASE Connected
  BY <1>6, <1>s DEF Connected
<1>7. CASE LoggedIn
  BY <1>7, <1>s DEF LoggedIn
<1>8. CASE Subscribed
  BY <1>8, <1>s DEF Subscribed
<1>9. CASE List
  <2>1. /\ at = "list" /\ at' \in {"send", "await"}
        /\ UNCHANGED <<program, heartbeat, stream, receiver>>
    BY <1>9 DEF List
  <2>2. at' = "await" => notifyDone'
    BY <1>9 DEF List
  <2> QED
    BY <1>s, <2>1, <2>2
<1>10. CASE Peek
  BY <1>10, <1>s DEF Peek
<1>11. CASE WatchEnds
  BY <1>11, <1>s DEF WatchEnds, StopWatching
<1>12. CASE ListenReceives
  BY <1>12, <1>s DEF ListenReceives, LookAtDeadline, StopWatching
<1>13. CASE Await
  BY <1>13, <1>s DEF Await
<1>14. CASE CloseCancels
  BY <1>14, <1>s DEF CloseCancels
<1>15. CASE CloseReturns
  BY <1>15, <1>s DEF CloseReturns
<1>16. CASE CloseConn
  BY <1>16, <1>s DEF CloseConn
<1>17. CASE HeartbeatStops
  BY <1>17, <1>s DEF HeartbeatStops
<1>18. CASE Notified
  BY <1>18, <1>s DEF Notified
<1>19. CASE StreamEnds
  BY <1>19, <1>s DEF StreamEnds
<1>20. CASE ReceiverTakes
  BY <1>20, <1>s DEF ReceiverTakes
<1>21. CASE ReceiverEnds
  BY <1>21, <1>s DEF ReceiverEnds
<1>22. CASE TimeIsUp
  BY <1>22, <1>s DEF TimeIsUp
<1>23. CASE Interrupt
  BY <1>23, <1>s DEF Interrupt
<1>24. CASE Device
  BY <1>24, <1>s DEF Device
<1> QED
  BY <1>u, <1>1, <1>2, <1>3, <1>4, <1>5, <1>6, <1>7, <1>8, <1>9, <1>10, <1>11, <1>12,
     <1>13, <1>14, <1>15, <1>16, <1>17, <1>18, <1>19, <1>20, <1>21, <1>22, <1>23, <1>24
  DEF ProgramNext, MainSteps, Receiver

\* Each main, in taking its program down, waits only for what it has started and
\* told to end: the deferred calls and the paths to <-done are in an order in
\* which no wait is for nothing.  (That the waits end rests on fairness:
\* ProgramEnds is model-checked.)
THEOREM WaitsOnlyForCancelled == ProgramSpec => []AwaitsWhatItCancelled
<1>1. ProgramInit => StartedInOrder
  BY DEF ProgramInit, StartedInOrder
<1>2. ProgramTypeOK /\ ProgramInv /\ StartedInOrder /\ [ProgramNext]_programVars
        => StartedInOrder'
  BY NextStarted
<1>3. ProgramInv /\ StartedInOrder => AwaitsWhatItCancelled
  BY DEF ProgramInv, DownInOrder, StartedInOrder, AwaitsWhatItCancelled
<1> QED
  BY <1>1, <1>2, <1>3, ProgramInvariant, PTL DEF ProgramSpec

=============================================================================
