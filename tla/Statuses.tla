------------------------------ MODULE Statuses ------------------------------
(***************************************************************************)
(* smoke's device, the mudroom, and its map of the statuses devices report:*)
(* it switches the mudroom on and off, looks its status up, switches it to *)
(* the opposite and back.  The map is filled from what ParseDeviceStatus   *)
(* and ParseDeviceStatusBroadcast of notification.go find.                 *)
(*                                                                         *)
(* The devices and the mesh are external: a poll, of whatever program, is  *)
(* answered by 0xDB with the device as the source, a query by 0xDC frames  *)
(* with a device in either slot or in both, and a change is told by a 0xDC *)
(* frame with the device in slot A.  The mesh loses commands, and it loses,*)
(* repeats and overtakes notifications.                                    *)
(***************************************************************************)
EXTENDS Integers, Sequences, SequencesExt

CONSTANTS
    Addresses,  \* of the devices
    Mudroom,    \* the one smoke switches
    MaxOnAir,   \* bound: notifications under way
    MaxReports  \* bound: answers and changes by hand

\* A frame holds an address in one byte, and 0 marks an empty slot.
ASSUME StatusesAssumption ==
    /\ Addresses \subseteq 1 .. 255
    /\ Mudroom \in Addresses
    /\ MaxOnAir \in Nat
    /\ MaxReports \in Nat

VARIABLES
    on,         \* the devices that are on
    onAir,      \* notifications under way, the older first
    statuses,   \* the map: what is known of each device
    step,       \* what smoke does next
    original,   \* originallyOn
    current,    \* history: devices whose latest report was the last one taken
    before,     \* history: the mudroom was on when smoke looked it up
    sure,       \* history: the status found was current, and since then no
                \* command was lost and nobody else switched the mudroom
    initially,  \* history: whether the mudroom was on when smoke began; {} once
                \* a command was lost or somebody else switched the mudroom
    reports     \* answers and changes by hand so far

statusVars == <<on, onAir, statuses, step, original, current, before, sure, initially,
                reports>>

-----------------------------------------------------------------------------
Empty == [address |-> 0, on |-> FALSE]
Slot == [address : Addresses, on : BOOLEAN] \union {Empty}

\* "latest" is history: the devices nothing newer was reported about.
Notes ==
    [opcode : {"0xDB"}, source : Addresses, on : BOOLEAN, latest : SUBSET Addresses]
        \union [opcode : {"0xDC"}, slots : Slot \X Slot, latest : SUBSET Addresses]

StatusesTypeOK ==
    /\ on \subseteq Addresses
    /\ onAir \in Seq(Notes) /\ Len(onAir) <= MaxOnAir
    /\ statuses \in [Addresses -> {{}, {TRUE}, {FALSE}}]
    /\ step \in {"on", "off", "look", "toggle", "restore", "done", "skipped"}
    /\ original \in BOOLEAN
    /\ current \subseteq Addresses
    /\ before \in BOOLEAN
    /\ sure \in BOOLEAN
    /\ initially \in {{}, {TRUE}, {FALSE}}
    /\ reports \in 0 .. MaxReports

StatusesInit ==
    /\ on \in SUBSET Addresses
    /\ onAir = << >>
    /\ statuses = [d \in Addresses |-> {}]
    /\ step = "on"
    /\ original = FALSE
    /\ current = {}
    /\ before = FALSE
    /\ sure = FALSE
    /\ initially = {Mudroom \in on}
    /\ reports = 0

-----------------------------------------------------------------------------
(* The parsers, as the set of statuses they return                         *)

ParseDeviceStatus(n) ==
    IF n.opcode = "0xDB" THEN {[address |-> n.source, on |-> n.on]} ELSE {}

\* Variant for the mutants: an empty slot A ends the frame.
StopsAtEmptySlot(n) ==
    IF n.opcode = "0xDC" /\ n.slots[1] # Empty THEN {n.slots[1], n.slots[2]} \ {Empty} ELSE {}

ParseDeviceStatusBroadcast(n) ==
    IF n.opcode = "0xDC" THEN {n.slots[1], n.slots[2]} \ {Empty} ELSE {}

\* The statuses the receiving goroutine puts into the map.
Parsed(n) == ParseDeviceStatus(n) \union ParseDeviceStatusBroadcast(n)

-----------------------------------------------------------------------------
(* The mesh                                                                *)

StatusOf(d) == [address |-> d, on |-> d \in on']

\* A notification about the devices D joins the others, unless there are
\* too many: then it is lost at once.
Reported(D, n) ==
    LET older == [i \in DOMAIN onAir |-> [onAir[i] EXCEPT !.latest = @ \ D]]
    IN /\ onAir' = IF Len(onAir) < MaxOnAir THEN Append(older, n) ELSE older
       /\ current' = current \ D

Polled(d) ==
    [opcode |-> "0xDB", source |-> d, on |-> d \in on', latest |-> {d}]

Broadcast(D, a, b) == [opcode |-> "0xDC", slots |-> <<a, b>>, latest |-> D]

\* What a device that is switched tells, if that changes anything.
Switched(d, state) ==
    /\ on' = IF state THEN on \union {d} ELSE on \ {d}
    /\ IF on' = on THEN UNCHANGED <<onAir, current>>
       ELSE Reported({d}, Broadcast({d}, StatusOf(d), Empty))

CountReport == reports < MaxReports /\ reports' = reports + 1

AnswerPoll(d) ==
    /\ CountReport
    /\ UNCHANGED <<on, statuses, step, original, before, sure, initially>>
    /\ Reported({d}, Polled(d))

AnswerQuery(a, b) ==
    /\ CountReport
    /\ a # b
    /\ UNCHANGED <<on, statuses, step, original, before, sure, initially>>
    /\ \/ Reported({a, b}, Broadcast({a, b}, StatusOf(a), StatusOf(b)))
       \/ Reported({a}, Broadcast({a}, Empty, StatusOf(a)))

SwitchedByHand(d) ==
    /\ CountReport
    /\ Switched(d, d \notin on)
    /\ sure' = (sure /\ d # Mudroom)
    /\ initially' = IF d = Mudroom THEN {} ELSE initially
    /\ UNCHANGED <<statuses, step, original, before>>

\* The ith notification is lost.
Dropped(i) ==
    /\ onAir' = RemoveAt(onAir, i)
    /\ UNCHANGED <<on, statuses, step, original, current, before, sure, initially, reports>>

\* It is taken, whatever is before it, and may come again.
Taken(i) ==
    LET n == onAir[i]
        found == Parsed(n)
        about == {s.address : s \in Parsed(n)}
    IN /\ onAir' \in {onAir, RemoveAt(onAir, i)}
       /\ statuses' = [d \in Addresses |->
              IF d \in about THEN {s.on : s \in {r \in found : r.address = d}} ELSE statuses[d]]
       /\ current' = (current \ about) \union n.latest
       /\ UNCHANGED <<on, step, original, before, sure, initially, reports>>

-----------------------------------------------------------------------------
(* smoke                                                                   *)

\* An OnOff command, which may be lost.
OnOff(state) ==
    \/ Switched(Mudroom, state) /\ UNCHANGED <<sure, initially>>
    \/ sure' = FALSE /\ initially' = {} /\ UNCHANGED <<on, onAir, current>>

Sends(from, state, to) ==
    /\ step = from
    /\ OnOff(state)
    /\ step' = to
    /\ UNCHANGED <<statuses, original, before, reports>>

BlindOn == Sends("on", TRUE, "off")
BlindOff == Sends("off", FALSE, "look")

LookUp ==
    /\ step = "look"
    /\ IF statuses[Mudroom] = {}
       THEN step' = "skipped" /\ UNCHANGED original
       ELSE step' = "toggle" /\ original' = (TRUE \in statuses[Mudroom])
    /\ before' = (Mudroom \in on)
    /\ sure' = (Mudroom \in current)
    /\ UNCHANGED <<on, onAir, statuses, current, initially, reports>>

ToggleMudroom == Sends("toggle", ~original, "restore")
RestoreMudroom == Sends("restore", original, "done")

-----------------------------------------------------------------------------
StatusesNext ==
    \/ \E d \in Addresses : AnswerPoll(d) \/ SwitchedByHand(d)
    \/ \E a, b \in Addresses : AnswerQuery(a, b)
    \/ \E i \in DOMAIN onAir : Dropped(i) \/ Taken(i)
    \/ BlindOn \/ BlindOff \/ LookUp \/ ToggleMudroom \/ RestoreMudroom

StatusesSpec == StatusesInit /\ [][StatusesNext]_statusVars

-----------------------------------------------------------------------------
(* Properties                                                              *)

\* smoke leaves the mudroom as it was when smoke looked it up, after the blind
\* toggle, if by then the latest report about it had come in and was the last to
\* come in, no command after it was lost and nobody else switched it (the map
\* of the statuses and [5/5] of smoke's main).
RestoresWhatItFound == step = "done" /\ sure => (Mudroom \in on) = before

\* What smoke's head comment says, that it toggles the light "on and off once,
\* restoring its original state": with the status it looked up right, no command
\* lost and nobody else at the switch, the mudroom ends as it was to begin with.
OriginalStateRestored ==
    step = "done" /\ sure => \A state \in initially : (Mudroom \in on) = state

=============================================================================
