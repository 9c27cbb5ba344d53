------------------------------ MODULE ScanLinux -----------------------------
(***************************************************************************)
(* linuxAdapter.scan of ble/scanner_linux.go: subscribe to BlueZ's         *)
(* signals, report the devices it knows already, start discovery, and      *)
(* report a device again whenever a signal changes what has been heard of  *)
(* its properties and they match the filter.                               *)
(*                                                                         *)
(* A device's properties are a function on a subset of "mfg", the          *)
(* manufacturer data, and "name".  A value is wanted or not: manufacturer  *)
(* data that does not parse or that NetworkID or GatewayOnly exclude, and  *)
(* a name that is not MeshName, are unwanted.  Signals that are not about  *)
(* a Device1 interface change nothing and are left out.                    *)
(* Scan composes this module with ScanTinygo and states the properties.    *)
(***************************************************************************)
EXTENDS Integers, Sequences

CONSTANTS
    Devices,    \* object paths
    SigCap,     \* capacity of sigCh (128)
    OutCap,     \* capacity of out (16)
    MaxEvents   \* bound: changes in BlueZ and losses of the bus

VARIABLES
    pc,         \* where scan, then its goroutine, is
    byName,     \* filter.MeshName is not empty
    rules,      \* match rules added to the bus
    registered, \* sigCh is registered with the D-Bus connection
    sigs,       \* signals in sigCh
    late,       \* signals that found sigCh full
    seeds,      \* devices of GetManagedObjects still to be reported
    props,      \* what the loop accumulated of each device
    result,     \* the device maybeEmit is reporting, if any
    out,        \* the channel handed to the caller
    closed,     \* it is closed
    ctxDone,    \* the context is cancelled
    gone,       \* the caller no longer receives
    objects,    \* BlueZ: the devices it knows
    known,      \* BlueZ: their properties
    discovering,\* BlueZ: discovery is on
    leftOn,     \* history: a StartDiscovery given up worked, or StopDiscovery failed
    heard,      \* history: devices that appeared since scan returned
    overflowed, \* history: a signal found sigCh full
    reported,   \* history: devices sent to out since they appeared
    events      \* changes in BlueZ and losses of the bus so far

bus == <<rules, registered>>
signals == <<sigs, late>>
work == <<seeds, props, result>>
channel == <<out, closed, reported>>
caller == <<byName, ctxDone, gone>>
bluez == <<objects, known, discovering, leftOn, heard, overflowed, events>>
vars == <<pc, bus, signals, work, channel, caller, bluez>>

-----------------------------------------------------------------------------
Properties == UNION {[keys -> {"wanted", "unwanted"}] : keys \in SUBSET {"mfg", "name"}}

NoProperties == [key \in {} |-> "unwanted"]

\* The properties of b, and those of a that b does not have.
Over(b, a) ==
    [key \in DOMAIN b \union DOMAIN a |-> IF key \in DOMAIN b THEN b[key] ELSE a[key]]

Rules == {"InterfacesAdded", "PropertiesChanged"}

Signals == [name : Rules, dev : Devices, changed : Properties]

TypeOK ==
    /\ pc \in {"setFilter", "addMatch", "failed", "seed", "emitSeed", "startDiscovery",
               "loop", "emit", "stopDiscovery", "removeMatch", "closeOut", "exited"}
    /\ byName \in BOOLEAN
    /\ rules \subseteq Rules
    /\ registered \in BOOLEAN
    /\ sigs \in Seq(Signals) /\ Len(sigs) <= SigCap
    /\ late \subseteq Signals
    /\ seeds \subseteq Devices
    /\ props \in [Devices -> Properties]
    /\ result \subseteq Devices
    /\ out \in Seq(Devices) /\ Len(out) <= OutCap
    /\ {closed, ctxDone, gone, discovering, leftOn, overflowed} \subseteq BOOLEAN
    /\ objects \subseteq Devices
    /\ known \in [Devices -> Properties]
    /\ heard \subseteq Devices
    /\ reported \subseteq Devices
    /\ events \in 0 .. MaxEvents

Init ==
    /\ pc = "setFilter"
    /\ byName \in BOOLEAN
    /\ rules = {}
    /\ registered = FALSE
    /\ sigs = << >>
    /\ late = {}
    /\ seeds = {}
    /\ props = [d \in Devices |-> NoProperties]
    /\ result = {}
    /\ out = << >>
    /\ closed = FALSE
    /\ ctxDone = FALSE
    /\ gone = FALSE
    /\ objects \in SUBSET Devices
    /\ known \in {k \in [Devices -> Properties] :
                   \A d \in Devices \ objects : k[d] = NoProperties}
    /\ discovering = FALSE
    /\ leftOn = FALSE
    /\ heard = {}
    /\ overflowed = FALSE
    /\ reported = {}
    /\ events = 0

Goto(step) == pc' = step

-----------------------------------------------------------------------------
(* scan, and the start of its goroutine                                    *)

SetDiscoveryFilter ==
    /\ pc = "setFilter"
    /\ Goto("addMatch") \/ Goto("failed")
    /\ UNCHANGED <<bluez, bus, signals, work, channel, caller>>

AddMatch ==
    /\ pc = "addMatch"
    /\ rules # Rules
    /\ rules' = IF rules = {} THEN {"InterfacesAdded"} ELSE Rules
    /\ UNCHANGED <<pc, bluez, signals, work, channel, caller, registered>>

\* What the first AddMatch added stays on the bus.
AddMatchFails ==
    /\ pc = "addMatch"
    /\ rules # Rules
    /\ Goto("failed")
    /\ UNCHANGED <<bluez, bus, signals, work, channel, caller>>

RegisterSignal ==
    /\ pc = "addMatch"
    /\ rules = Rules
    /\ registered' = TRUE
    /\ Goto("seed")
    /\ UNCHANGED <<bluez, signals, work, channel, caller, rules>>

\* The conditions of maybeEmit.
Matches(p) ==
    /\ "mfg" \in DOMAIN p /\ p["mfg"] = "wanted"
    /\ byName => "name" \in DOMAIN p /\ p["name"] = "wanted"

\* An error of GetManagedObjects is ignored.
Seed ==
    /\ pc = "seed"
    /\ \/ seeds' = {}
       \/ registered /\ seeds' = {d \in objects : Matches(known[d])}
    /\ Goto("emitSeed")
    /\ UNCHANGED <<bluez, bus, signals, channel, caller, props, result>>

NextSeed ==
    /\ pc = "emitSeed"
    /\ result = {}
    /\ IF seeds = {}
       THEN Goto("startDiscovery") /\ UNCHANGED <<seeds, result>>
       ELSE \E d \in seeds : seeds' = seeds \ {d} /\ result' = {d} /\ UNCHANGED pc
    /\ UNCHANGED <<bluez, bus, signals, channel, caller, props>>

StartDiscovery ==
    /\ pc = "startDiscovery"
    /\ registered
    /\ discovering' = TRUE
    /\ Goto("loop")
    /\ UNCHANGED <<bus, signals, work, channel, caller, objects, known, leftOn, heard,
                   overflowed, events>>

\* A call given up because its context is done is not undone in BlueZ.
StartDiscoveryFails ==
    /\ pc = "startDiscovery"
    /\ \/ UNCHANGED <<discovering, leftOn>>
       \/ ctxDone /\ registered /\ discovering' = TRUE /\ leftOn' = TRUE
    /\ Goto("removeMatch")
    /\ UNCHANGED <<bus, signals, work, channel, caller, objects, known, heard, overflowed, events>>

-----------------------------------------------------------------------------
(* The loop                                                                *)

\* Variant for the mutants: what was heard first wins.
FirstHeardWins(a, b) == Over(a, b)

mergeProps(a, b) == Over(b, a)

TakeSignal ==
    /\ pc = "loop"
    /\ sigs # << >>
    /\ LET sig == Head(sigs)
           merged == mergeProps(props[sig.dev], sig.changed)
       IN  /\ props' = [props EXCEPT ![sig.dev] = merged]
           /\ IF Matches(merged)
              THEN Goto("emit") /\ result' = {sig.dev}
              ELSE UNCHANGED <<pc, result>>
    /\ sigs' = Tail(sigs)
    /\ UNCHANGED <<bluez, bus, channel, caller, late, seeds>>

\* The D-Bus library closes sigCh when its connection is lost.
SigChClosed ==
    /\ pc = "loop"
    /\ sigs = << >>
    /\ ~registered
    /\ Goto("stopDiscovery")
    /\ UNCHANGED <<bluez, bus, signals, work, channel, caller>>

LoopCancelled ==
    /\ pc = "loop"
    /\ ctxDone
    /\ Goto("stopDiscovery")
    /\ UNCHANGED <<bluez, bus, signals, work, channel, caller>>

AfterEmit == pc' = IF pc = "emit" THEN "loop" ELSE pc

\* Variant for the mutants: the channel has no bound.
Unbounded == TRUE

HasRoom == Len(out) < OutCap

\* Variant for the mutants: a result that finds the channel full is dropped.
EmitOrDrops ==
    /\ result # {}
    /\ IF HasRoom
       THEN \E d \in result : out' = Append(out, d) /\ reported' = reported \union {d}
       ELSE UNCHANGED <<out, reported>>
    /\ result' = {}
    /\ AfterEmit
    /\ UNCHANGED <<bluez, bus, signals, seeds, props, closed, caller>>

\* The select of maybeEmit: the result, or the cancellation.
EmitSends ==
    /\ HasRoom
    /\ \E d \in result :
        /\ out' = Append(out, d)
        /\ reported' = reported \union {d}
    /\ result' = {}
    /\ AfterEmit
    /\ UNCHANGED <<bluez, bus, signals, caller, seeds, props, closed>>

\* Variant for the mutants: the send of maybeEmit ignores the context.
EmitWaits == FALSE /\ UNCHANGED vars

EmitCancelled ==
    /\ result # {}
    /\ ctxDone
    /\ result' = {}
    /\ AfterEmit
    /\ UNCHANGED <<bluez, bus, signals, channel, caller, seeds, props>>

-----------------------------------------------------------------------------
(* The deferred calls                                                      *)

\* Variant for the mutants: the loop returns without it.
DiscoveryGoesOn ==
    /\ pc = "stopDiscovery"
    /\ Goto("removeMatch")
    /\ UNCHANGED <<bus, signals, work, channel, caller, bluez>>

\* Its error is ignored.
StopDiscovery ==
    /\ pc = "stopDiscovery"
    /\ \/ discovering' = FALSE /\ UNCHANGED leftOn
       \/ UNCHANGED discovering /\ leftOn' = discovering
    /\ Goto("removeMatch")
    /\ UNCHANGED <<bus, signals, work, channel, caller, objects, known, heard,
                   overflowed, events>>

\* RemoveMatch fails only on a connection that is lost, and the rules with it.
RemoveMatches ==
    /\ pc = "removeMatch"
    /\ rules' = {}
    /\ registered' = FALSE
    /\ Goto("closeOut")
    /\ UNCHANGED <<bluez, signals, work, channel, caller>>

CloseOut ==
    /\ pc = "closeOut"
    /\ closed' = TRUE
    /\ Goto("exited")
    /\ UNCHANGED <<bluez, bus, signals, work, caller, out, reported>>

-----------------------------------------------------------------------------
(* BlueZ and the D-Bus library                                             *)

\* A signal is forwarded if its rule is added and sigCh registered.  One
\* that finds sigCh full waits for room, beside later ones, or is lost.
Hear(name, d, changed) ==
    LET sig == [name |-> name, dev |-> d, changed |-> changed] IN
    IF name \notin rules \/ ~registered
    THEN UNCHANGED <<signals, overflowed>>
    ELSE IF Len(sigs) < SigCap
    THEN sigs' = Append(sigs, sig) /\ UNCHANGED <<late, overflowed>>
    ELSE late' = late \union {sig} /\ overflowed' = TRUE /\ UNCHANGED sigs

LateSignal ==
    /\ registered
    /\ Len(sigs) < SigCap
    /\ \E sig \in late : sigs' = Append(sigs, sig) /\ late' = late \ {sig}
    /\ UNCHANGED <<pc, bluez, bus, work, channel, caller>>

\* The connection to the bus is lost: the daemon drops the rules, BlueZ ends
\* the discovery of a client that is gone, and calls fail from now on.  (Before
\* sigCh is registered this is one more error of scan.)
BusLost ==
    /\ registered
    /\ events < MaxEvents
    /\ events' = events + 1
    /\ registered' = FALSE
    /\ rules' = {}
    /\ discovering' = FALSE
    /\ late' = {}
    /\ UNCHANGED <<pc, sigs, work, channel, caller, objects, known, leftOn, heard, overflowed>>

\* scan has returned its channel.
Returned == pc \notin {"setFilter", "addMatch", "failed"}

\* Bounded, and of no interest once the scan is over or the bus is lost.
Happens ==
    /\ events < MaxEvents
    /\ registered \/ pc \in {"setFilter", "addMatch"}
    /\ events' = events + 1
    /\ UNCHANGED <<pc, bus, work, out, closed, caller, discovering, leftOn>>

DeviceAppears(d, p) ==
    /\ Happens
    /\ d \notin objects
    /\ objects' = objects \union {d}
    /\ known' = [known EXCEPT ![d] = p]
    /\ Hear("InterfacesAdded", d, p)
    /\ heard' = IF Returned THEN heard \union {d} ELSE heard
    /\ reported' = reported \ {d}

PropertiesChange(d, p) ==
    /\ Happens
    /\ d \in objects
    /\ DOMAIN p # {}
    /\ known' = [known EXCEPT ![d] = Over(p, @)]
    /\ Hear("PropertiesChanged", d, p)
    /\ UNCHANGED <<objects, heard, reported>>

\* No rule asks for InterfacesRemoved.
DeviceVanishes(d) ==
    /\ Happens
    /\ d \in objects
    /\ objects' = objects \ {d}
    /\ known' = [known EXCEPT ![d] = NoProperties]
    /\ heard' = heard \ {d}
    /\ UNCHANGED <<signals, overflowed, reported>>

-----------------------------------------------------------------------------
\* Adapter.StopScan, which does not end the scan.
StopScan ==
    /\ discovering
    /\ discovering' = FALSE
    /\ UNCHANGED <<pc, bus, signals, work, channel, caller, objects, known, leftOn, heard,
                   overflowed, events>>

-----------------------------------------------------------------------------
Scan ==
    \/ SetDiscoveryFilter
    \/ AddMatch
    \/ AddMatchFails
    \/ RegisterSignal
    \/ Seed
    \/ NextSeed
    \/ StartDiscovery
    \/ StartDiscoveryFails
    \/ TakeSignal
    \/ SigChClosed
    \/ EmitSends
    \/ EmitCancelled
    \/ StopDiscovery
    \/ RemoveMatches
    \/ CloseOut

Bluez ==
    \/ LateSignal
    \/ BusLost
    \/ \E d \in Devices :
        \/ \E p \in Properties : DeviceAppears(d, p) \/ PropertiesChange(d, p)
        \/ DeviceVanishes(d)

=============================================================================
