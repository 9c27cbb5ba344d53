-------------------------------- MODULE Scan --------------------------------
(***************************************************************************)
(* Adapter.Scan and StopScan of ble/types.go, on the platform the program  *)
(* was built for: ScanLinux on Linux, ScanTinygo elsewhere, with the       *)
(* caller that receives, gives the channel up or cancels the context.      *)
(***************************************************************************)
EXTENDS Integers, Sequences

CONSTANTS
    Devices,    \* object paths
    SigCap,     \* capacity of sigCh (128)
    OutCap,     \* capacity of the channel handed to the caller (16)
    MaxEvents,  \* bound: changes in BlueZ and losses of the bus
    Threads     \* callbacks of the tinygo stack that may run at once

ASSUME ScanAssumption ==
    /\ SigCap \in Nat
    /\ OutCap \in Nat
    /\ MaxEvents \in Nat

VARIABLES
    platform,                       \* what the program was built for
    out, closed, ctxDone, gone,     \* the channel and the caller
    pc, byName, rules, registered, sigs, late, seeds, props, result,    \* ScanLinux
    objects, known, discovering, leftOn, heard, overflowed, reported, events,
    stack, closer, found, panicked                                      \* ScanTinygo

linuxVars == <<pc, byName, rules, registered, sigs, late, seeds, props, result,
               objects, known, discovering, leftOn, heard, overflowed, reported, events>>
tinygoVars == <<stack, closer, found, panicked>>
vars == <<platform, out, closed, ctxDone, gone, linuxVars, tinygoVars>>

Linux == INSTANCE ScanLinux
Tinygo == INSTANCE ScanTinygo

-----------------------------------------------------------------------------
TypeOK ==
    /\ platform \in {"linux", "other"}
    /\ IF platform = "linux" THEN Linux!TypeOK ELSE Tinygo!TypeOK

\* On the other platforms there is no BlueZ.
Init ==
    /\ platform \in {"linux", "other"}
    /\ Linux!Init
    /\ Tinygo!Init
    /\ platform = "other" => objects = {} /\ ~byName

OnLinux(A) == platform = "linux" /\ A /\ UNCHANGED <<platform, tinygoVars>>
OnOther(A) == platform = "other" /\ A /\ UNCHANGED <<platform, gone, linuxVars>>

-----------------------------------------------------------------------------
(* The caller                                                              *)

Receive ==
    /\ ~gone
    /\ out # << >>
    /\ out' = Tail(out)
    /\ UNCHANGED <<platform, closed, ctxDone, gone, linuxVars, tinygoVars>>

StopsReceiving ==
    /\ ~gone
    /\ gone' = TRUE
    /\ UNCHANGED <<platform, out, closed, ctxDone, linuxVars, tinygoVars>>

Cancel ==
    /\ ~ctxDone
    /\ ctxDone' = TRUE
    /\ UNCHANGED <<platform, out, closed, gone, linuxVars, tinygoVars>>

\* On Linux it stops discovery and not the scan.
StopScan == OnLinux(Linux!StopScan) \/ OnOther(Tinygo!StopScan)

-----------------------------------------------------------------------------
ScanStep ==
    \/ OnLinux(Linux!Scan)
    \/ OnOther(Tinygo!Closer)

LoopCancelled == OnLinux(Linux!LoopCancelled)

Environment ==
    \/ OnLinux(Linux!Bluez)
    \/ OnOther(Tinygo!Stack)

Next ==
    /\ ~panicked
    /\ \/ ScanStep \/ LoopCancelled \/ Environment
       \/ Receive \/ StopsReceiving \/ Cancel \/ StopScan

Spec == Init /\ [][Next]_vars

\* The goroutines run on: D-Bus calls return, and select takes a ready case
\* in the end.  A caller that has not gone receives.  Nothing is assumed of
\* BlueZ's signals, of the BLE stack and of the cancellation.
Fairness == WF_vars(ScanStep) /\ WF_vars(LoopCancelled) /\ WF_vars(Receive)

FairSpec == Spec /\ Fairness

-----------------------------------------------------------------------------
(* Properties                                                              *)

\* The Linux loop never takes an older value of a property for a newer one:
\* once the signals are worked off, what it accumulated of a device agrees
\* with BlueZ, as long as sigCh was never full and the bus is not lost
\* (TakeSignal, mergeProps).
AccumulatedCurrent ==
    pc = "loop" /\ registered /\ sigs = << >> /\ ~overflowed =>
        \A d \in objects : \A key \in DOMAIN props[d] \intersect DOMAIN known[d] :
            props[d][key] = known[d][key]

\* On Linux, by the end of the channel nothing of the scan is left on the
\* bus or in BlueZ, however the loop ended; discovery is on only if BlueZ began
\* it by a call that was given up, or failed to stop it (the defers of
\* linuxAdapter.scan).  A scan that returns an error may leave its first match
\* rule, when adding the second fails, and nothing else.
NothingLeft ==
    /\ platform = "linux" /\ closed => rules = {} /\ ~registered /\ (discovering => leftOn)
    /\ pc = "failed" => rules \subseteq {"InterfacesAdded"} /\ ~registered /\ ~discovering

\* Wanted now, and nothing that ends the wait for it.
Awaited(d) == d \in objects /\ Linux!Matches(known[d]) /\ ~ctxDone /\ ~gone /\ ~closed

\* On Linux, a device that appeared while the scan runs is reported once its
\* properties match, however they arrived, and a slow caller delays it at
\* most (sigCh is registered before the first look at BlueZ's objects).
NewDeviceReported ==
    \A d \in Devices :
        (d \in heard /\ ~overflowed /\ Awaited(d)) ~> (d \in reported \/ overflowed \/ ~Awaited(d))

\* On either platform a cancelled scan closes its channel, whether the caller
\* receives or not and whatever the BLE stack does (the ctx cases of the
\* loop, of maybeEmit and of the closing goroutine).
ClosedOnceCancelled == (ctxDone /\ pc # "failed") ~> (closed \/ pc = "failed")

-----------------------------------------------------------------------------
(* Why AccumulatedCurrent and NothingLeft hold                             *)

\* What the steps of scan and its goroutine add and start, and take back.
TakenBack ==
    /\ platform = "other" => pc = "setFilter"
    /\ pc = "setFilter" => rules = {}
    /\ pc \in {"addMatch", "failed"} => rules \in {{}, {"InterfacesAdded"}, Linux!Rules}
    /\ pc = "failed" => rules # Linux!Rules
    /\ pc \in {"setFilter", "addMatch", "failed"} => ~registered
    /\ pc \in {"seed", "emitSeed", "startDiscovery", "loop", "emit", "stopDiscovery",
               "removeMatch"} =>
          (rules = Linux!Rules /\ registered) \/ (rules = {} /\ ~registered /\ ~discovering)
    /\ pc \in {"closeOut", "exited"} => rules = {} /\ ~registered
    /\ platform = "linux" /\ closed => pc = "exited"
    /\ discovering => pc \in {"loop", "emit", "stopDiscovery"} \/ leftOn
    /\ pc \in {"setFilter", "addMatch", "failed", "seed", "emitSeed", "startDiscovery"} =>
          ~discovering

\* Signal i is the last in sigCh to carry the property.
Mentions(i, d, key) == sigs[i].dev = d /\ key \in DOMAIN sigs[i].changed

LastToMention(i, d, key) ==
    Mentions(i, d, key) /\ \A j \in DOMAIN sigs : j > i => ~Mentions(j, d, key)

\* What is known of a property is what the last signal about it in sigCh
\* says, or else what the loop has accumulated.
QueueCurrent ==
    \A d \in Devices : \A key \in DOMAIN known[d] :
        /\ \A i \in DOMAIN sigs :
              LastToMention(i, d, key) => sigs[i].changed[key] = known[d][key]
        /\ key \in DOMAIN props[d] /\ (\A i \in DOMAIN sigs : ~Mentions(i, d, key)) =>
              props[d][key] = known[d][key]

\* Nothing is heard before sigCh is registered, nor lost while it is and has
\* not been full.
HeardInOrder ==
    /\ \A d \in Devices \ objects : known[d] = Linux!NoProperties
    /\ pc \in {"setFilter", "addMatch", "failed"} =>
          sigs = << >> /\ props = [d \in Devices |-> Linux!NoProperties]
    /\ ~overflowed => late = {}
    /\ ~overflowed /\ (registered \/ pc \in {"setFilter", "addMatch", "failed"}) =>
          QueueCurrent

ScanInv == TakenBack /\ HeardInOrder

=============================================================================
