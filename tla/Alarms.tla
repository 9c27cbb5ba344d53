------------------------------- MODULE Alarms -------------------------------
(***************************************************************************)
(* Programs that write alarms: the editor of Timezone, which converts the  *)
(* time it shows to UTC, builds a recurring record and writes it, and      *)
(* others, which write records of their own or switch stored ones on and   *)
(* off.  All write at the same time and through the mesh, so the fragments *)
(* of WriteAlarm may be lost, and one program's may come between another's.*)
(*                                                                         *)
(* The schedule coordinator is external, and modelled from what the code   *)
(* says of it: it keeps the last fragment 0 it got, puts a fragment 1 to   *)
(* it, stores the record if the checksum is right, in the slot that holds  *)
(* the same identifier or in a free one, and answers a query with the      *)
(* first occupied slot at or after the cursor.                             *)
(***************************************************************************)
EXTENDS Timezone, AlarmRecord

CONSTANTS
    Editor,         \* the program that shows local time
    OtherWriters,   \* programs that write records of their own
    EditorID,       \* the identifier of the editor's alarm
    EditorTarget,   \* the address it switches
    Edits,          \* bound: offsets of the editor and local times it is set to
    Others,         \* the records the other programs write
    LastSlot,       \* bound: the coordinator's slots are 0 .. LastSlot
    MaxWrites       \* bound: writes by all programs

\* An identifier is unique to its alarm.
ASSUME AlarmsAssumption ==
    /\ Editor \notin OtherWriters
    /\ Edits \subseteq Offsets \X Times
    /\ Others \subseteq Records
    /\ \A r \in Others : ID(r) # Byte(EditorID)
    /\ LastSlot \in 0 .. 254
    /\ MaxWrites \in Nat

VARIABLES
    writing,    \* the record each program is writing, or Rejected
    sent,       \* how many fragments of it are sent
    clean,      \* history: none of them was lost, and no other program's
                \* arrived since it began
    pending,    \* the head of the last fragment 0 that arrived
    stored,     \* what each slot of the coordinator holds
    written,    \* history: every record a program began to write
    saved,      \* history: the local times the editor saved, without those
                \* that a later write of its alarm has surely replaced
    writes      \* writes so far

editorVars == <<tz, local, record>>
writerVars == <<writing, sent, clean, written, writes>>
coordinatorVars == <<pending, stored>>
alarmVars == <<editorVars, writerVars, coordinatorVars, saved>>

-----------------------------------------------------------------------------
Writers == {Editor} \union OtherWriters
Slots == 0 .. LastSlot
EndOfList == 255

NoHead == << >>
Free == << >>

\* A step writes a number of fragments below 2.
Busy(w) == sent[w] < 2

AlarmsTypeOK ==
    /\ TypeOK
    /\ writing \in [Writers -> Records \union {Rejected}]
    /\ sent \in [Writers -> 0 .. 2]
    /\ clean \in [Writers -> BOOLEAN]
    /\ pending \in [0 .. 8 -> Bytes] \union {NoHead}
    /\ stored \in [Slots -> Records \union {Free}]
    /\ written \in SUBSET Records
    /\ saved \subseteq Times
    /\ writes \in 0 .. MaxWrites

\* Nothing is stored and nothing is being written.
NoAlarms ==
    /\ writing = [w \in Writers |-> Rejected]
    /\ sent = [w \in Writers |-> 2]
    /\ clean = [w \in Writers |-> TRUE]
    /\ pending = NoHead
    /\ stored = [s \in Slots |-> Free]
    /\ written = {}
    /\ saved = {}
    /\ writes = 0

AlarmsInit == Init /\ <<tz, local>> \in Edits /\ NoAlarms

-----------------------------------------------------------------------------
(* The programs                                                            *)

\* WriteAlarm makes two commands, to be sent in order.
BeginWrite(w, r) ==
    /\ ~Busy(w)
    /\ writes < MaxWrites
    /\ writes' = writes + 1
    /\ writing' = [writing EXCEPT ![w] = r]
    /\ sent' = [sent EXCEPT ![w] = 0]
    /\ clean' = [clean EXCEPT ![w] = TRUE]
    /\ written' = written \union {r}
    /\ UNCHANGED coordinatorVars

EditorsAlarm(t) ==
    Recurring(EditorID, EditorTarget, t.hour, 0, t.repeat, ActionOnFullBright)

\* What the editor may save: the time it shows, or one it is set to.
EditorsTimes == {local} \union {e[2] : e \in {f \in Edits : f[1] = tz}}

\* Variant for the mutants: the record is built from the time shown.
SaveUnconverted(t) ==
    /\ Edit(t)
    /\ IF EditorsAlarm(t) = Rejected
       THEN UNCHANGED <<writerVars, coordinatorVars, saved>>
       ELSE /\ BeginWrite(Editor, EditorsAlarm(t))
            /\ saved' = saved \union {t}

\* Nothing is sent of a time that Recurring rejects.
SaveAlarm(t) ==
    /\ Edit(t)
    /\ IF EditorsAlarm(record') = Rejected
       THEN UNCHANGED <<writerVars, coordinatorVars, saved>>
       ELSE /\ BeginWrite(Editor, EditorsAlarm(record'))
            /\ saved' = saved \union {t}

WriteOther(w, r) ==
    /\ BeginWrite(w, r)
    /\ UNCHANGED <<editorVars, saved>>

\* The answer to a query: the first occupied slot at or after the cursor.
QueryAlarm(start) ==
    LET occupied == {s \in Slots : s >= start /\ stored[s] # Free}
    IN IF occupied = {} THEN EndOfList
       ELSE CHOOSE s \in occupied : \A o \in occupied : s <= o

\* The slots a walk can be at.
Answers == {QueryAlarm(start) : start \in Slots} \ {EndOfList}

\* A program reads a record and rewrites it, switched on or off.
Toggle(w) ==
    /\ \E s \in Answers : BeginWrite(w, SetActive(stored[s], ~Active(stored[s])))
    /\ UNCHANGED <<editorVars, saved>>

TimeOf(r) == [hour |-> Hour(r), repeat |-> Repeat(r)]

\* The editor reads its alarm back, of whichever save it is.
LoadAlarm ==
    /\ \E s \in Answers :
          /\ ID(stored[s]) = Byte(EditorID)
          /\ record' = TimeOf(stored[s])
          /\ local' = UTCToLocal(record', tz)
    /\ UNCHANGED <<tz, writerVars, coordinatorVars, saved>>

\* r is a record of the editor's alarm for the local time t.
IsForTime(r, t) ==
    /\ ID(r) = Byte(EditorID)
    /\ FireHours(TimeOf(r)) = Behind(FireHours(t), tz)

\* The next fragment is sent and lost, or never sent because Send failed.
FragmentLost(w) ==
    /\ Busy(w)
    /\ sent' = [sent EXCEPT ![w] = @ + 1]
    /\ clean' = [clean EXCEPT ![w] = FALSE]
    /\ UNCHANGED <<editorVars, writing, written, writes, coordinatorVars, saved>>

-----------------------------------------------------------------------------
(* The coordinator                                                         *)

\* Where it puts a record: the slot of its identifier, or else a free one.
SlotsFor(r) ==
    LET same == {s \in Slots : stored[s] # Free /\ ID(stored[s]) = ID(r)}
    IN IF same # {} THEN same ELSE {s \in Slots : stored[s] = Free}

\* The checksum is over the record put together.
Accepts(f) == pending # NoHead /\ XOR(Joined(pending, f.data)) = f.xor

GetsHead(f) ==
    /\ pending' = f.data
    /\ UNCHANGED stored

\* Whether the head is kept for another fragment 1 is left open.
GetsTail(f) ==
    /\ pending' \in {pending, NoHead}
    /\ IF Accepts(f) /\ SlotsFor(Joined(pending, f.data)) # {}
       THEN \E s \in SlotsFor(Joined(pending, f.data)) :
                stored' = [stored EXCEPT ![s] = Joined(pending, f.data)]
       ELSE UNCHANGED stored

\* A write of the editor's alarm that arrives whole and undisturbed replaces
\* the times saved before, but for those that are being written yet.
FragmentArrives(w) ==
    /\ Busy(w)
    /\ IF sent[w] = 0 THEN GetsHead(Fragment0(writing[w]))
                      ELSE GetsTail(Fragment1(writing[w]))
    /\ sent' = [sent EXCEPT ![w] = @ + 1]
    /\ clean' = [v \in Writers |-> clean[v] /\ v = w]
    /\ saved' = IF sent[w] = 1 /\ clean[w] /\ ID(writing[w]) = Byte(EditorID)
                THEN {t \in saved : \E v \in Writers : Busy(v) /\ IsForTime(writing[v], t)}
                ELSE saved
    /\ UNCHANGED <<editorVars, writing, written, writes>>

\* Whoever deletes may have learnt the slot long ago.
DeleteAlarm(s) ==
    /\ stored[s] # Free
    /\ stored' = [stored EXCEPT ![s] = Free]
    /\ UNCHANGED <<editorVars, writerVars, pending, saved>>

-----------------------------------------------------------------------------
AlarmsNext ==
    \/ \E t \in EditorsTimes : SaveAlarm(t)
    \/ LoadAlarm
    \/ \E w \in OtherWriters : Toggle(w) \/ \E r \in Others : WriteOther(w, r)
    \/ \E w \in Writers : FragmentLost(w) \/ FragmentArrives(w)
    \/ \E s \in Slots : DeleteAlarm(s)

AlarmsSpec == AlarmsInit /\ [][AlarmsNext]_alarmVars

-----------------------------------------------------------------------------
(* Properties                                                              *)

Stored == {stored[s] : s \in Slots} \ {Free}

\* The coordinator fires the editor's alarm on one day at least, and by the
\* clock on the wall at a time that the editor saved, whatever became of the
\* fragments of this save and of others.  Once a save has arrived whole it is no
\* older time, unless another program was then rewriting the older record,
\* switched on or off (Recurring after LocalToUTC, WriteAlarm, SetActive).
StoredFiresOnTime ==
    \A r \in Stored : ID(r) = Byte(EditorID) =>
        FireHours(TimeOf(r)) # {} /\ \E t \in saved : IsForTime(r, t)

HeadsApart(r, q) == Cardinality({i \in 0 .. 8 : r[i] # q[i]})

\* A stored record was written as a whole, or put together from two whose
\* heads differ in two bytes or more and have the same fold: a record that
\* differs in one byte, as one switched on and off does, is never mixed up
\* (WriteAlarm's checksum over all 16 bytes).
TornOnlyOnCollision ==
    \A r \in Stored : \/ r \in written
                      \/ \E head, tail \in written :
                            /\ r = Joined(head, tail)
                            /\ HeadsApart(head, tail) >= 2
                            /\ XOR(HeadOf(head)) = XOR(HeadOf(tail))

\* A write of which no fragment is lost, and that no other write disturbs, is
\* stored exactly (WriteAlarm: the fragments and their checksum fit together).
CleanWriteStored ==
    [][\A w \in Writers :
          sent[w] = 1 /\ sent'[w] = 2 /\ clean'[w] /\ SlotsFor(writing[w]) # {}
              => \E s \in Slots : stored'[s] = writing[w]]_alarmVars

=============================================================================
