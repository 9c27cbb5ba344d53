------------------------------- MODULE Connect ------------------------------
(***************************************************************************)
(* Adapter.Connect.  On Linux, linuxAdapter.connect and                    *)
(* waitServicesResolved of ble/adapter_linux.go: connect the device        *)
(* through BlueZ, wait until BlueZ has resolved its GATT services, look    *)
(* the three characteristics up, and disconnect again on every error.  On  *)
(* other platforms, connect of ble/adapter_tinygo.go: connect, discover    *)
(* the mesh service and its characteristics, and disconnect on an error.   *)
(*                                                                         *)
(* BlueZ resolves the services in its own time, at any point after         *)
(* Device1.Connect returned, and announces it with a PropertiesChanged     *)
(* signal.  The D-Bus daemon forwards a signal only once the match rule is *)
(* added, and the library only to channels registered with Signal; a       *)
(* signal that finds the channel full waits beside later ones or is lost.  *)
(* The value of a signal is "resolved" if it says that ServicesResolved is *)
(* true, and "other" if the filters of the loop skip it.                   *)
(***************************************************************************)
EXTENDS Integers, Sequences

CONSTANTS
    SigCap,     \* capacity of the signal channel (16)
    MaxOthers,  \* bound: signals that are not about ServicesResolved
    GetMayFail  \* TRUE: the first Get of the property can return an error

ASSUME ConnectAssumption ==
    /\ SigCap \in Nat
    /\ MaxOthers \in Nat
    /\ GetMayFail \in BOOLEAN

VARIABLES
    platform,   \* what the program was built for
    pc,         \* where connect is
    linkUp,     \* the device is connected
    resolved,   \* its ServicesResolved property
    announced,  \* history: it has been TRUE on this connection
    complete,   \* its object tree has all three characteristics
    kept,       \* history: a Disconnect failed, or a Connect given up worked
    match,      \* the match rule is added
    sigs,       \* signals in ch
    late,       \* signals that found ch full
    expired,    \* the deadline timer fired
    ctxDone,    \* the context is cancelled
    others,     \* other signals so far
    result      \* what connect returned, "none" while it runs

deviceVars == <<linkUp, resolved, announced, complete, kept>>
chVars == <<sigs, late>>
vars == <<platform, pc, deviceVars, match, chVars, expired, ctxDone, others, result>>

-----------------------------------------------------------------------------
Signals == {"resolved", "other"}

\* The channel is registered from bus.Signal to the deferred RemoveSignal.
Registered == pc \in {"wait", "leaveWait"}

TypeOK ==
    /\ platform \in {"linux", "other"}
    /\ pc \in {"connect", "getProperty", "addMatch", "signal", "wait", "leaveWait",
               "enumerate", "lookup", "services", "characteristics", "readDIS",
               "disconnect", "returned"}
    /\ linkUp \in BOOLEAN
    /\ resolved \in BOOLEAN
    /\ announced \in BOOLEAN
    /\ complete \in BOOLEAN
    /\ kept \in BOOLEAN
    /\ match \in BOOLEAN
    /\ sigs \in Seq(Signals) /\ Len(sigs) <= SigCap
    /\ late \subseteq Signals
    /\ expired \in BOOLEAN
    /\ ctxDone \in BOOLEAN
    /\ others \in 0 .. MaxOthers
    /\ result \in {"none", "ok", "connectErr", "matchErr", "timeout", "ctxErr",
                   "objectsErr", "discoveryErr", "notFound"}

Init ==
    /\ platform \in {"linux", "other"}
    /\ pc = "connect"
    /\ linkUp = FALSE
    /\ resolved = FALSE
    /\ announced = FALSE
    /\ complete \in BOOLEAN
    /\ kept = FALSE
    /\ match = FALSE
    /\ sigs = << >>
    /\ late = {}
    /\ expired = FALSE
    /\ ctxDone = FALSE
    /\ others = 0
    /\ result = "none"

Goto(step) == pc' = step

-----------------------------------------------------------------------------
(* connect, up to the wait                                                 *)

\* A device BlueZ still knows may have its services resolved at once.
DeviceConnect ==
    /\ platform = "linux"
    /\ pc = "connect"
    /\ linkUp' = TRUE
    /\ resolved' \in BOOLEAN
    /\ announced' = resolved'
    /\ Goto("getProperty")
    /\ UNCHANGED <<platform, complete, kept, match, chVars, expired, ctxDone, others,
                   result>>

\* A call given up because its context is done is not undone in BlueZ.
DeviceConnectFails ==
    /\ platform = "linux"
    /\ pc = "connect"
    /\ linkUp' \in {FALSE, ctxDone}
    /\ kept' = linkUp'
    /\ result' = "connectErr"
    /\ Goto("returned")
    /\ UNCHANGED <<platform, resolved, announced, complete, match, chVars,
                   expired, ctxDone, others>>

-----------------------------------------------------------------------------
(* waitServicesResolved                                                    *)

\* The fast path; a Get that fails counts as not resolved.
GetProperty ==
    /\ pc = "getProperty"
    /\ \/ resolved /\ Goto("enumerate")
       \/ (~resolved \/ GetMayFail) /\ Goto("addMatch")
    /\ UNCHANGED <<platform, deviceVars, match, chVars, expired, ctxDone,
                   others, result>>

AddMatch ==
    /\ pc = "addMatch"
    /\ match' = TRUE
    /\ Goto("signal")
    /\ UNCHANGED <<platform, deviceVars, chVars, expired, ctxDone, others,
                   result>>

AddMatchFails ==
    /\ pc = "addMatch"
    /\ result' = "matchErr"
    /\ Goto("disconnect")
    /\ UNCHANGED <<platform, deviceVars, match, chVars, expired, ctxDone,
                   others>>

RegisterSignal ==
    /\ pc = "signal"
    /\ Goto("wait")
    /\ UNCHANGED <<platform, deviceVars, match, chVars, expired, ctxDone,
                   others, result>>

\* Variant for the mutants: any signal ends the wait.
SaysAnything(sig) == TRUE

\* The filters: path, name, interface, and the property set to true.
SaysResolved(sig) == sig = "resolved"

\* A signal the filters skip goes round the loop.
TakeSignal ==
    /\ pc = "wait"
    /\ sigs # << >>
    /\ sigs' = Tail(sigs)
    /\ IF SaysResolved(Head(sigs)) THEN Goto("leaveWait") ELSE Goto("wait")
    /\ UNCHANGED <<platform, deviceVars, match, late, expired, ctxDone, others,
                   result>>

Deadline ==
    /\ pc = "wait"
    /\ expired
    /\ result' = "timeout"
    /\ Goto("leaveWait")
    /\ UNCHANGED <<platform, deviceVars, match, chVars, expired, ctxDone,
                   others>>

WaitCancelled ==
    /\ pc = "wait"
    /\ ctxDone
    /\ result' = "ctxErr"
    /\ Goto("leaveWait")
    /\ UNCHANGED <<platform, deviceVars, match, chVars, expired, ctxDone,
                   others>>

\* The deferred RemoveSignal and RemoveMatch.
LeaveWait ==
    /\ pc = "leaveWait"
    /\ match' = FALSE
    /\ Goto(IF result = "none" THEN "enumerate" ELSE "disconnect")
    /\ UNCHANGED <<platform, deviceVars, chVars, expired, ctxDone, others,
                   result>>

-----------------------------------------------------------------------------
(* connect, after the wait                                                 *)

GetManagedObjects ==
    /\ pc = "enumerate"
    /\ Goto("lookup")
    /\ UNCHANGED <<platform, deviceVars, match, chVars, expired, ctxDone,
                   others, result>>

\* Variant for the mutants: the error is returned without a disconnect.
ObjectsErrReturns ==
    /\ pc = "enumerate"
    /\ result' = "objectsErr"
    /\ Goto("returned")
    /\ UNCHANGED <<platform, deviceVars, match, chVars, expired, ctxDone,
                   others>>

GetManagedObjectsFails ==
    /\ pc = "enumerate"
    /\ result' = "objectsErr"
    /\ Goto("disconnect")
    /\ UNCHANGED <<platform, deviceVars, match, chVars, expired, ctxDone,
                   others>>

\* All three characteristics, or conn.Close and an error.
Lookup ==
    /\ pc = "lookup"
    /\ IF complete
       THEN result' = "ok" /\ Goto("returned")
       ELSE result' = "notFound" /\ Goto("disconnect")
    /\ UNCHANGED <<platform, deviceVars, match, chVars, expired, ctxDone,
                   others>>

\* Disconnect fails, or its context is done already and it is not even sent:
\* the error is ignored.
DisconnectFails == UNCHANGED <<linkUp, resolved>> /\ kept' = TRUE

Disconnects == linkUp' = FALSE /\ resolved' = FALSE /\ UNCHANGED kept

Disconnect ==
    /\ pc = "disconnect"
    /\ Disconnects \/ DisconnectFails
    /\ Goto("returned")
    /\ UNCHANGED <<platform, announced, complete, match, chVars, expired,
                   ctxDone, others, result>>

-----------------------------------------------------------------------------
(* connect of adapter_tinygo.go                                            *)

TinygoConnect ==
    /\ platform = "other"
    /\ pc = "connect"
    /\ linkUp' = TRUE
    /\ Goto("services")
    /\ UNCHANGED <<platform, resolved, announced, complete, kept, match, chVars, expired,
                   ctxDone, others, result>>

TinygoConnectFails ==
    /\ platform = "other"
    /\ pc = "connect"
    /\ result' = "connectErr"
    /\ Goto("returned")
    /\ UNCHANGED <<platform, deviceVars, match, chVars, expired, ctxDone,
                   others>>

DiscoverServices ==
    /\ pc = "services"
    /\ linkUp
    /\ Goto("characteristics")
    /\ UNCHANGED <<platform, deviceVars, match, chVars, expired, ctxDone,
                   others, result>>

DiscoverCharacteristics ==
    /\ pc = "characteristics"
    /\ linkUp
    /\ Goto("readDIS")
    /\ UNCHANGED <<platform, deviceVars, match, chVars, expired, ctxDone,
                   others, result>>

\* An error of either, or no mesh service.
DiscoveryFails ==
    /\ pc \in {"services", "characteristics"}
    /\ result' \in {"discoveryErr"} \union (IF complete THEN {} ELSE {"notFound"})
    /\ Goto("disconnect")
    /\ UNCHANGED <<platform, deviceVars, match, chVars, expired, ctxDone,
                   others>>

\* A characteristic that was not found is left nil, and enrichMACFromDIS may
\* fail: neither is an error.
ReadDIS ==
    /\ pc = "readDIS"
    /\ result' = "ok"
    /\ Goto("returned")
    /\ UNCHANGED <<platform, deviceVars, match, chVars, expired, ctxDone,
                   others>>

-----------------------------------------------------------------------------
(* BlueZ, the clock and the caller                                         *)

\* Variant for the mutants: the channel has no bound.
HeardUnbounded(sig) ==
    IF ~(match /\ Registered) THEN UNCHANGED chVars
    ELSE sigs' = Append(sigs, sig) /\ UNCHANGED late

Heard(sig) ==
    IF ~(match /\ Registered) THEN UNCHANGED chVars
    ELSE IF Len(sigs) < SigCap THEN sigs' = Append(sigs, sig) /\ UNCHANGED late
    ELSE late' = late \union {sig} /\ UNCHANGED sigs

LateSignal ==
    /\ Registered
    /\ Len(sigs) < SigCap
    /\ \E sig \in late : sigs' = Append(sigs, sig) /\ late' = late \ {sig}
    /\ UNCHANGED <<platform, pc, deviceVars, match, expired, ctxDone, others,
                   result>>

Resolve ==
    /\ platform = "linux"
    /\ linkUp
    /\ ~resolved
    /\ resolved' = TRUE
    /\ announced' = TRUE
    /\ Heard("resolved")
    /\ UNCHANGED <<platform, pc, linkUp, complete, kept, match, expired, ctxDone,
                   others, result>>

\* The device goes away; the signal that says so carries FALSE.
LinkDrops ==
    /\ linkUp
    /\ linkUp' = FALSE
    /\ resolved' = FALSE
    /\ Heard("other")
    /\ UNCHANGED <<platform, pc, announced, complete, kept, match, expired, ctxDone,
                   others, result>>

OtherSignal ==
    /\ others < MaxOthers
    /\ others' = others + 1
    /\ Heard("other")
    /\ UNCHANGED <<platform, pc, deviceVars, match, expired, ctxDone, result>>

\* The timer runs from the end of RegisterSignal.
Expire ==
    /\ pc = "wait"
    /\ ~expired
    /\ expired' = TRUE
    /\ UNCHANGED <<platform, pc, deviceVars, match, chVars, ctxDone, others,
                   result>>

Cancel ==
    /\ pc # "returned"
    /\ ~ctxDone
    /\ ctxDone' = TRUE
    /\ UNCHANGED <<platform, pc, deviceVars, match, chVars, expired, others,
                   result>>

-----------------------------------------------------------------------------
Before == DeviceConnect \/ DeviceConnectFails

Wait ==
    \/ GetProperty
    \/ AddMatch
    \/ AddMatchFails
    \/ RegisterSignal
    \/ TakeSignal
    \/ Deadline
    \/ WaitCancelled
    \/ LeaveWait

After ==
    \/ GetManagedObjects
    \/ GetManagedObjectsFails
    \/ Lookup
    \/ Disconnect

Tinygo ==
    \/ TinygoConnect
    \/ TinygoConnectFails
    \/ DiscoverServices
    \/ DiscoverCharacteristics
    \/ DiscoveryFails
    \/ ReadDIS

Environment == LateSignal \/ Resolve \/ LinkDrops \/ OtherSignal \/ Expire \/ Cancel

Next == Before \/ Wait \/ After \/ Tinygo \/ Environment

Spec == Init /\ [][Next]_vars

-----------------------------------------------------------------------------
(* Properties                                                              *)

\* connect leaves nothing behind: its match rule is removed however the wait
\* ended, and one that fails leaves no connection but one that the system kept:
\* it failed the Disconnect, or made the connection whose Connect was given up
\* (the defers of waitServicesResolved, and the error returns of connect).
ConnectLeavesNothing ==
    pc = "returned" =>
        /\ ~match
        /\ result = "ok" \/ kept \/ ~linkUp

\* The characteristics are looked up only once BlueZ said the services are
\* resolved: no other signal ends the wait (the filters of the loop).
EnumeratesResolved == pc \in {"enumerate", "lookup"} => announced

\* The wait times out only if the services are not resolved, or the news
\* came at the very end and is in the channel (comment of
\* waitServicesResolved: "polls and subscribes").
TimeoutMeansUnresolved ==
    result = "timeout" =>
        ~resolved \/ "resolved" \in late \/ \E i \in DOMAIN sigs : sigs[i] = "resolved"

-----------------------------------------------------------------------------
(* Why ConnectLeavesNothing and EnumeratesResolved hold                    *)

\* The match rule is there from AddMatch to the deferred RemoveMatch.
MatchWhileWaiting == match => pc \in {"signal", "wait", "leaveWait"}

\* There is no connection before Connect, and none after an error return but
\* one that was kept.
LinkWithinConnect ==
    /\ pc = "connect" => ~linkUp
    /\ pc = "returned" /\ result # "ok" => kept \/ ~linkUp
    /\ kept \/ result = "ok" => pc = "returned"

\* Nothing but BlueZ says that the services are resolved, and no signal is
\* heard before the channel is registered.
NewsIsTrue ==
    /\ resolved => announced
    /\ "resolved" \in late \/ (\E i \in DOMAIN sigs : sigs[i] = "resolved") => announced
    /\ pc \in {"connect", "getProperty", "addMatch", "signal"} => sigs = << >> /\ late = {}

\* The wait ends without an error only on that news.
WaitEndsOnNews ==
    /\ pc \in {"connect", "getProperty", "addMatch", "signal", "wait"} => result = "none"
    /\ pc = "leaveWait" /\ result = "none" => announced

ConnectInv ==
    /\ MatchWhileWaiting
    /\ LinkWithinConnect
    /\ NewsIsTrue
    /\ WaitEndsOnNews
    /\ EnumeratesResolved

=============================================================================
