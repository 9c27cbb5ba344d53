------------------------------ MODULE Timezone ------------------------------
(***************************************************************************)
(* schedule/timezone.go: the fire time of a recurring alarm between local  *)
(* time and the UTC that alarm records hold.                               *)
(*                                                                         *)
(* The repeat byte is the set of its bits: 0 (Monday) to 6 (Sunday), and   *)
(* the unused bit 7.  A one-bit rotation of the seven moves every day by   *)
(* one.  An editor saves the local time of an alarm to its record and      *)
(* loads it back, any number of times.                                     *)
(***************************************************************************)
EXTENDS Integers

CONSTANTS
    Offsets     \* tzOffsetHours values

ASSUME TimezoneAssumption == Offsets \subseteq -24 .. 24

VARIABLES
    tz,         \* the offset of the editor's timezone
    local,      \* the alarm as the editor shows it: hour and repeat
    record      \* the alarm as the coordinator stores it, in UTC

vars == <<tz, local, record>>

-----------------------------------------------------------------------------
Hours == 0 .. 23
Days == 0 .. 6
Repeats == SUBSET (0 .. 7)

Times == [hour : Hours, repeat : Repeats]

\* Variant for the mutants: shifts that do not wrap round the week.
DayBeforeUnwrapped(d) == d - 1
DayAfterUnwrapped(d) == d + 1

\* Right and left rotation of the low seven bits.
DayBefore(d) == (d + 6) % 7
DayAfter(d) == (d + 1) % 7

\* Variant for the mutants: midnight counts to the day before.
RotatedAfterMidnight(r, adjusted) ==
    CASE adjusted < 24 -> {DayBefore(d) : d \in r}
      [] adjusted > 48 -> {DayAfter(d) : d \in r}
      [] OTHER -> r

\* What a shift of the hour does to the days: it goes below 0, beyond 23 or
\* neither (adjusted is the shifted hour plus 24).
Rotated(r, adjusted) ==
    CASE adjusted < 24 -> {DayBefore(d) : d \in r}
      [] adjusted >= 48 -> {DayAfter(d) : d \in r}
      [] OTHER -> r

Shifted(t, hours) ==
    [hour |-> (t.hour + hours + 48) % 24,
     repeat |-> Rotated(t.repeat \ {7}, t.hour + hours + 24)]

LocalToUTC(t, offset) == Shifted(t, -offset)
UTCToLocal(t, offset) == Shifted(t, offset)

-----------------------------------------------------------------------------
TypeOK ==
    /\ tz \in Offsets
    /\ local \in Times
    /\ record \in Times

Init ==
    /\ tz \in Offsets
    /\ local \in Times
    /\ record = LocalToUTC(local, tz)

Load ==
    /\ local' = UTCToLocal(record, tz)
    /\ UNCHANGED <<tz, record>>

Save ==
    /\ record' = LocalToUTC(local, tz)
    /\ UNCHANGED <<tz, local>>

\* What is shown is set to another time and saved.
Edit(t) ==
    /\ local' = t
    /\ record' = LocalToUTC(t, tz)
    /\ UNCHANGED tz

Next == Load \/ Save

Spec == Init /\ [][Next]_vars

-----------------------------------------------------------------------------
(* Properties                                                              *)

\* The hours of the week, counted from Monday 0:00, at which an alarm fires.
FireHours(t) == {24 * d + t.hour : d \in t.repeat \intersect Days}

\* The same, of a clock that is behind by some hours.
Behind(week, hours) == {(w - hours) % 168 : w \in week}

\* The record fires exactly when the local alarm should, on the right day
\* wherever the conversion crosses midnight or the end of the week
\* (LocalToUTC).
FiresOnTime == FireHours(record) = Behind(FireHours(local), tz)

\* Loading and saving change nothing that was loaded or saved before: the
\* conversions are inverse (UTCToLocal), but for the unused bit.
NoDrift ==
    [][ Load \/ Save =>
            /\ local'.hour = local.hour
            /\ local'.repeat \ {7} = local.repeat \ {7}
            /\ record' = record ]_vars

\* The inductive invariant: the record is the conversion of what is shown.
RecordConverted == record = LocalToUTC(local, tz)

=============================================================================
