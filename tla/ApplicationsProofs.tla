-------------------------- MODULE ApplicationsProofs -------------------------
(* Theorems about the programs of Applications, for every set of offsets   *)
(* within a day, every set of writers, records, groups and devices, and    *)
(* every number of slots, writes, notifications and reports.               *)
EXTENDS Applications, FiniteSetTheorems, SequenceTheorems, NaturalsInduction,
        WellFoundedInduction, TLAPS

-----------------------------------------------------------------------------
(* Alarm times (Timezone)                                                  *)

\* The day a shift of the hour moves a day to.
ShiftedDay(h, d, k) ==
    CASE h + k + 24 < 24 -> DayBefore(d)
      [] h + k + 24 >= 48 -> DayAfter(d)
      [] OTHER -> d

\* One hour of the week, shifted by less than a day: the wrapped hour and
\* the moved day are the hour of the week that lies k hours later.
LEMMA HourOfWeek ==
    ASSUME NEW h \in Hours, NEW d \in Days, NEW k \in -24 .. 24
    PROVE  /\ (h + k + 48) % 24 \in Hours
           /\ ShiftedDay(h, d, k) \in Days
           /\ 24 * ShiftedDay(h, d, k) + ((h + k + 48) % 24) = (24 * d + h + k) % 168
<1>1. CASE h + k + 24 < 24
  <2>1. (h + k + 48) % 24 = h + k + 24
    BY <1>1, SMTT(30) DEF Hours
  <2>2. CASE d = 0
    <3>1. ShiftedDay(h, d, k) = 6
      BY <1>1, <2>2, SMTT(30) DEF Hours, DayBefore, ShiftedDay
    <3>2. (24 * d + h + k) % 168 = h + k + 168
      BY <1>1, <2>2, SMTT(30) DEF Hours
    <3> QED
      BY <1>1, <2>1, <2>2, <3>1, <3>2 DEF Hours, Days
  <2>3. CASE d # 0
    <3>1. ShiftedDay(h, d, k) = d - 1 /\ d - 1 \in Days
      BY <1>1, <2>3, SMTT(30) DEF Hours, Days, DayBefore, ShiftedDay
    <3>2. (24 * d + h + k) % 168 = 24 * d + h + k
      BY <1>1, <2>3, SMTT(30) DEF Hours, Days
    <3>3. 24 * (d - 1) + (h + k + 24) = 24 * d + h + k
      BY DEF Hours, Days
    <3> QED
      BY <1>1, <2>1, <2>3, <3>1, <3>2, <3>3 DEF Hours, Days
  <2> QED
    BY <2>2, <2>3
<1>2. CASE h + k + 24 >= 48
  <2>1. (h + k + 48) % 24 = h + k - 24
    BY <1>2, SMTT(30) DEF Hours
  <2>2. CASE d = 6
    <3>1. ShiftedDay(h, d, k) = 0
      BY <1>2, <2>2, SMTT(30) DEF Hours, DayAfter, ShiftedDay
    <3>2. (24 * d + h + k) % 168 = h + k - 24
      BY <1>2, <2>2, SMTT(30) DEF Hours
    <3> QED
      BY <1>2, <2>1, <2>2, <3>1, <3>2 DEF Hours, Days
  <2>3. CASE d # 6
    <3>1. ShiftedDay(h, d, k) = d + 1 /\ d + 1 \in Days
      BY <1>2, <2>3, SMTT(30) DEF Hours, Days, DayAfter, ShiftedDay
    <3>2. (24 * d + h + k) % 168 = 24 * d + h + k
      BY <1>2, <2>3, SMTT(30) DEF Hours, Days
    <3>3. 24 * (d + 1) + (h + k - 24) = 24 * d + h + k
      BY DEF Hours, Days
    <3> QED
      BY <1>2, <2>1, <2>3, <3>1, <3>2, <3>3 DEF Hours, Days
  <2> QED
    BY <2>2, <2>3
<1>3. CASE ~(h + k + 24 < 24) /\ ~(h + k + 24 >= 48)
  <2>1. (h + k + 48) % 24 = h + k
    BY <1>3, SMTT(30) DEF Hours
  <2>2. ShiftedDay(h, d, k) = d
    BY <1>3 DEF ShiftedDay
  <2>3. (24 * d + h + k) % 168 = 24 * d + h + k
    BY <1>3, SMTT(30) DEF Hours, Days
  <2>4. 24 * d + (h + k) = 24 * d + h + k
    BY DEF Hours, Days
  <2> QED
    BY <1>3, <2>1, <2>2, <2>3, <2>4 DEF Hours, Days
<1> QED
  BY <1>1, <1>2, <1>3 DEF Hours

\* Shifting back moves every day back.
LEMMA DayReturns ==
    ASSUME NEW h \in Hours, NEW d \in Days, NEW k \in -24 .. 24
    PROVE  /\ (((h + k + 48) % 24) + (-k) + 48) % 24 = h
           /\ ShiftedDay((h + k + 48) % 24, ShiftedDay(h, d, k), -k) = d
<1>1. CASE h + k + 24 < 24
  <2>1. (h + k + 48) % 24 = h + k + 24
    BY <1>1, SMTT(30) DEF Hours
  <2> QED
    BY <1>1, <2>1, SMTT(30) DEF Hours, Days, DayBefore, DayAfter, ShiftedDay
<1>2. CASE h + k + 24 >= 48
  <2>1. (h + k + 48) % 24 = h + k - 24
    BY <1>2, SMTT(30) DEF Hours
  <2> QED
    BY <1>2, <2>1, SMTT(30) DEF Hours, Days, DayBefore, DayAfter, ShiftedDay
<1>3. CASE ~(h + k + 24 < 24) /\ ~(h + k + 24 >= 48)
  <2>1. (h + k + 48) % 24 = h + k
    BY <1>3, SMTT(30) DEF Hours
  <2> QED
    BY <1>3, <2>1, SMTT(30) DEF Hours, Days, ShiftedDay
<1> QED
  BY <1>1, <1>2, <1>3 DEF Hours

-----------------------------------------------------------------------------
\* The shifted hour is an hour.
LEMMA HourWraps ==
    ASSUME NEW h \in Hours, NEW k \in -24 .. 24
    PROVE  (h + k + 48) % 24 \in Hours
<1>1. 0 \in Days
  BY DEF Days
<1> QED
  BY <1>1, HourOfWeek, Zenon

\* A shifted time, hour and days.
LEMMA ShiftedIs ==
    ASSUME NEW t \in Times, NEW k \in -24 .. 24
    PROVE  /\ Shifted(t, k).hour = (t.hour + k + 48) % 24
           /\ Shifted(t, k).repeat = {ShiftedDay(t.hour, d, k) : d \in t.repeat \ {7}}
           /\ t.hour \in Hours
           /\ t.repeat \ {7} \subseteq Days
<1>1. t.hour \in Hours /\ t.repeat \in SUBSET (0 .. 7)
  BY DEF Times, Repeats
<1>2. t.repeat \ {7} \subseteq Days
  BY <1>1 DEF Days
<1>3. Rotated(t.repeat \ {7}, t.hour + k + 24)
        = {ShiftedDay(t.hour, d, k) : d \in t.repeat \ {7}}
  <2>1. CASE t.hour + k + 24 < 24
    BY <2>1 DEF Rotated, ShiftedDay
  <2>2. CASE t.hour + k + 24 >= 48
    BY <1>1, <2>2 DEF Rotated, ShiftedDay, Hours
  <2>3. CASE ~(t.hour + k + 24 < 24) /\ ~(t.hour + k + 24 >= 48)
    BY <2>3 DEF Rotated, ShiftedDay
  <2> QED
    BY <1>1, <2>1, <2>2, <2>3 DEF Hours
<1> QED
  BY <1>1, <1>2, <1>3 DEF Shifted

\* A shifted time is a time, without the unused bit.
LEMMA ShiftedType ==
    ASSUME NEW t \in Times, NEW k \in -24 .. 24
    PROVE  Shifted(t, k) \in Times /\ Shifted(t, k).repeat \subseteq Days
<1>1. (t.hour + k + 48) % 24 \in Hours
      /\ \A d \in t.repeat \ {7} : ShiftedDay(t.hour, d, k) \in Days
  <2>1. t.hour \in Hours /\ t.repeat \ {7} \subseteq Days
    BY ShiftedIs
  <2>2. (t.hour + k + 48) % 24 \in Hours
    BY <2>1, HourWraps, Zenon
  <2> QED
    BY <2>1, <2>2, HourOfWeek
<1>2. Shifted(t, k).repeat \subseteq Days
  BY <1>1, ShiftedIs
<1>3. Shifted(t, k) = [hour |-> Shifted(t, k).hour, repeat |-> Shifted(t, k).repeat]
  BY DEF Shifted
<1>4. Shifted(t, k).hour \in Hours
  BY <1>1, ShiftedIs, Zenon
<1>5. Shifted(t, k).repeat \in Repeats
  BY <1>2 DEF Repeats, Days
<1>6. [hour |-> Shifted(t, k).hour, repeat |-> Shifted(t, k).repeat] \in Times
  <2> PICK h, r : h = Shifted(t, k).hour /\ r = Shifted(t, k).repeat
    OBVIOUS
  <2>1. h \in Hours /\ r \in Repeats
    BY <1>4, <1>5, Zenon
  <2>2. [hour |-> h, repeat |-> r] \in Times
    BY <2>1 DEF Times
  <2> QED
    BY <2>2, Zenon
<1> QED
  BY <1>2, <1>3, <1>6, Zenon

\* Shifting there and back returns the time, without the unused bit.
LEMMA ShiftedBack ==
    ASSUME NEW t \in Times, NEW k \in -24 .. 24
    PROVE  Shifted(Shifted(t, k), -k) = [hour |-> t.hour, repeat |-> t.repeat \ {7}]
<1> DEFINE u == Shifted(t, k)
           days == t.repeat \ {7}
<1>1. u \in Times /\ u.repeat \subseteq Days /\ -k \in -24 .. 24
  <2>1. u \in Times /\ u.repeat \subseteq Days
    BY ShiftedType, Zenon
  <2>2. -k \in -24 .. 24
    OBVIOUS
  <2> QED
    BY <2>1, <2>2
<1>2. /\ u.hour = (t.hour + k + 48) % 24
      /\ u.repeat = {ShiftedDay(t.hour, d, k) : d \in days}
      /\ t.hour \in Hours
      /\ days \subseteq Days
  BY ShiftedIs
<1>3. u.repeat \ {7} = u.repeat
  BY <1>1 DEF Days
<1>4. /\ Shifted(u, -k).hour = (u.hour + (-k) + 48) % 24
      /\ Shifted(u, -k).repeat = {ShiftedDay(u.hour, d, -k) : d \in u.repeat}
  <2>1. PICK v \in Times, m \in -24 .. 24 : v = u /\ m = -k
    BY <1>1, Zenon
  <2>2. /\ Shifted(v, m).hour = (v.hour + m + 48) % 24
        /\ Shifted(v, m).repeat = {ShiftedDay(v.hour, d, m) : d \in v.repeat \ {7}}
    BY <2>1, ShiftedIs, Zenon
  <2> QED
    BY <1>3, <2>1, <2>2, Zenon
<1>5. Shifted(u, -k).hour = t.hour
  <2>1. 0 \in Days
    BY DEF Days
  <2> QED
    BY <1>2, <1>4, <2>1, DayReturns
<1>6. Shifted(u, -k).repeat = days
  <2>1. \A d \in days : ShiftedDay(u.hour, ShiftedDay(t.hour, d, k), -k) = d
    BY <1>2, DayReturns
  <2>2. /\ u.repeat = {ShiftedDay(t.hour, d, k) : d \in days}
        /\ Shifted(u, -k).repeat = {ShiftedDay(u.hour, e, -k) : e \in u.repeat}
    BY <1>2, <1>4
  <2> HIDE DEF u, days
  <2>3. ASSUME NEW d \in days PROVE d \in Shifted(u, -k).repeat
    <3>1. ShiftedDay(t.hour, d, k) \in u.repeat
      BY <2>2, <2>3, Zenon
    <3>2. ShiftedDay(u.hour, ShiftedDay(t.hour, d, k), -k) \in Shifted(u, -k).repeat
      BY <2>2, <3>1, Zenon
    <3> QED
      BY <2>1, <2>3, <3>2, Zenon
  <2>4. ASSUME NEW d \in Shifted(u, -k).repeat PROVE d \in days
    <3>1. PICK e \in u.repeat : d = ShiftedDay(u.hour, e, -k)
      BY <2>2, <2>4, Zenon
    <3>2. PICK b \in days : e = ShiftedDay(t.hour, b, k)
      BY <2>2, <3>1, Zenon
    <3>3. d = b
      BY <2>1, <3>1, <3>2, Zenon
    <3> QED
      BY <3>2, <3>3, Zenon
  <2> QED
    BY <2>3, <2>4, Zenon
<1>7. Shifted(u, -k) = [hour |-> Shifted(u, -k).hour, repeat |-> Shifted(u, -k).repeat]
  BY DEF Shifted
<1> QED
  BY <1>5, <1>6, <1>7

\* Shifting back is shifting by the opposite.
LEMMA MinusMinus == \A d, h, k \in Int : 24 * d + h + k = 24 * d + h - (-k)
  OBVIOUS

\* The hours of the week of a shifted time are those of the time, shifted.
LEMMA ShiftedFires ==
    ASSUME NEW t \in Times, NEW k \in -24 .. 24
    PROVE  FireHours(Shifted(t, k)) = Behind(FireHours(t), -k)
<1> DEFINE days == t.repeat \ {7}
           At(d) == 24 * d + t.hour
           ShiftedAt(d) == 24 * ShiftedDay(t.hour, d, k) + Shifted(t, k).hour
           Later(w) == (w - (-k)) % 168
<1>1. /\ Shifted(t, k).hour = (t.hour + k + 48) % 24
      /\ Shifted(t, k).repeat = {ShiftedDay(t.hour, d, k) : d \in days}
      /\ t.hour \in Hours
      /\ days \subseteq Days
  BY ShiftedIs
<1>2. ASSUME NEW d \in days
      PROVE  ShiftedDay(t.hour, d, k) \in Days /\ ShiftedAt(d) = Later(At(d))
  <2>1. d \in Days
    BY <1>1
  <2>2. 24 * d + t.hour + k = 24 * d + t.hour - (-k)
    <3>1. d \in Int /\ t.hour \in Int /\ k \in Int
      BY <1>1, <2>1 DEF Days, Hours
    <3> QED
      BY <3>1, MinusMinus
  <2>3. /\ ShiftedDay(t.hour, d, k) \in Days
        /\ 24 * ShiftedDay(t.hour, d, k) + ((t.hour + k + 48) % 24)
             = (24 * d + t.hour + k) % 168
    BY <1>1, <2>1, HourOfWeek
  <2>4. ShiftedAt(d) = (24 * d + t.hour + k) % 168
    BY <1>1, <2>3
  <2>5. Later(At(d)) = (24 * d + t.hour + k) % 168
    BY <1>1, <2>1, <2>2 DEF Hours, Days
  <2> QED
    BY <2>3, <2>4, <2>5
<1>3. FireHours(t) = {At(d) : d \in days}
  <2>1. t.repeat \intersect Days = days
    BY <1>1 DEF Times, Repeats, Days
  <2> QED
    BY <2>1 DEF FireHours
<1>4. FireHours(Shifted(t, k)) = {ShiftedAt(d) : d \in days}
  <2>1. Shifted(t, k).repeat \intersect Days = {ShiftedDay(t.hour, d, k) : d \in days}
    BY <1>1, <1>2
  <2> HIDE DEF days
  <2> QED
    BY <2>1 DEF FireHours
<1>5. Behind({At(d) : d \in days}, -k) = {Later(w) : w \in {At(d) : d \in days}}
  BY DEF Behind
<1> HIDE DEF days, At, ShiftedAt, Later
<1> QED
  BY <1>2, <1>3, <1>4, <1>5

-----------------------------------------------------------------------------
TimeInv == TypeOK /\ RecordConverted

\* The conversion forgets the unused bit.
LEMMA BitForgotten ==
    ASSUME NEW t \in Times, NEW k \in -24 .. 24
    PROVE  Shifted([hour |-> t.hour, repeat |-> t.repeat \ {7}], k) = Shifted(t, k)
<1>1. (t.repeat \ {7}) \ {7} = t.repeat \ {7}
  OBVIOUS
<1> QED
  BY <1>1 DEF Shifted

\* The offset, and its opposite, are within a day.
LEMMA Offsets24 ==
    ASSUME TypeOK
    PROVE  tz \in -24 .. 24 /\ -tz \in -24 .. 24
  BY TimezoneAssumption DEF TypeOK

\* The editor starts with its record converted.
LEMMA InitTime == Init => TimeInv
<1> SUFFICES ASSUME Init PROVE TimeInv
  OBVIOUS
<1>1. -tz \in -24 .. 24
  BY TimezoneAssumption DEF Init
<1> QED
  BY <1>1, ShiftedType DEF Init, TimeInv, TypeOK, RecordConverted, LocalToUTC

\* What an editor loads is what is shown, but for the unused bit.
LEMMA LoadShows ==
    ASSUME TimeInv
    PROVE  UTCToLocal(record, tz) = [hour |-> local.hour, repeat |-> local.repeat \ {7}]
<1>1. -tz \in -24 .. 24 /\ tz = -(-tz) /\ local \in Times
  BY Offsets24 DEF TimeInv, TypeOK
<1> QED
  BY <1>1, ShiftedBack DEF TimeInv, RecordConverted, LocalToUTC, UTCToLocal

\* Loading and saving keep it converted.
LEMMA NextTime == TimeInv /\ [Next]_vars => TimeInv'
<1> SUFFICES ASSUME TimeInv, [Next]_vars
             PROVE  TimeInv'
  OBVIOUS
<1>0. -tz \in -24 .. 24 /\ local \in Times
  BY Offsets24 DEF TimeInv, TypeOK
<1>1. CASE Load
  <2>1. local' = [hour |-> local.hour, repeat |-> local.repeat \ {7}]
    BY <1>1, LoadShows DEF Load
  <2>2. local' \in Times
    BY <1>0, <2>1 DEF Times, Repeats
  <2>3. LocalToUTC(local', tz) = LocalToUTC(local, tz)
    BY <1>0, <2>1, BitForgotten DEF LocalToUTC
  <2> QED
    BY <1>1, <2>2, <2>3 DEF Load, TimeInv, TypeOK, RecordConverted
<1>2. CASE Save
  BY <1>2 DEF Save, TimeInv, TypeOK, RecordConverted
<1>3. CASE UNCHANGED vars
  BY <1>3 DEF vars, TimeInv, TypeOK, RecordConverted
<1> QED
  BY <1>1, <1>2, <1>3 DEF Next

\* A converted record fires on time.
LEMMA InvFires == TimeInv => FiresOnTime
<1> SUFFICES ASSUME TimeInv PROVE FiresOnTime
  OBVIOUS
<1>1. -tz \in -24 .. 24 /\ tz = -(-tz) /\ local \in Times
  BY Offsets24 DEF TimeInv, TypeOK
<1> QED
  BY <1>1, ShiftedFires DEF TimeInv, RecordConverted, FiresOnTime, LocalToUTC

\* A step that loads or saves shows and stores the same time as before.
LEMMA KeepsTime ==
    TimeInv => [ Load \/ Save =>
                    /\ local'.hour = local.hour
                    /\ local'.repeat \ {7} = local.repeat \ {7}
                    /\ record' = record ]_vars
<1> SUFFICES ASSUME TimeInv, Load \/ Save
             PROVE  /\ local'.hour = local.hour
                    /\ local'.repeat \ {7} = local.repeat \ {7}
                    /\ record' = record
  OBVIOUS
<1>1. CASE Load
  BY <1>1, LoadShows DEF Load
<1>2. CASE Save
  BY <1>2 DEF Save, TimeInv, RecordConverted
<1> QED
  BY <1>1, <1>2

\* Another time that is set and saved is converted, and fires as it should.
LEMMA EditTime ==
    ASSUME TimeInv, NEW t \in Times, Edit(t)
    PROVE  TimeInv' /\ FireHours(record') = Behind(FireHours(t), tz)
<1>1. -tz \in -24 .. 24 /\ tz = -(-tz) /\ tz' = tz /\ local' = t
  BY Offsets24 DEF TimeInv, TypeOK, Edit
<1>2. record' = Shifted(t, -tz)
  BY DEF Edit, LocalToUTC
<1>3. record' \in Times
  BY <1>1, <1>2, ShiftedType
<1>4. TimeInv'
  BY <1>1, <1>3 DEF Edit, TimeInv, TypeOK, RecordConverted
<1>5. FireHours(record') = Behind(FireHours(t), tz)
  BY <1>1, <1>2, ShiftedFires
<1> QED
  BY <1>4, <1>5

\* A UTC time that is read back is shown converted, and stays as it is.
LEMMA LoadTime ==
    ASSUME TypeOK, NEW u \in Times, u.repeat \subseteq Days,
           record' = u, local' = UTCToLocal(u, tz), tz' = tz
    PROVE  TimeInv'
<1>1. tz \in -24 .. 24
  BY Offsets24
<1>2. local' \in Times
  BY <1>1, ShiftedType DEF UTCToLocal
<1>3. Shifted(Shifted(u, tz), -tz) = [hour |-> u.hour, repeat |-> u.repeat \ {7}]
  BY <1>1, ShiftedBack
<1>4. u.repeat \ {7} = u.repeat /\ u = [hour |-> u.hour, repeat |-> u.repeat]
  BY DEF Times, Days
<1>5. record' = LocalToUTC(local', tz')
  BY <1>3, <1>4 DEF LocalToUTC, UTCToLocal
<1> QED
  BY <1>2, <1>5 DEF TimeInv, TypeOK, RecordConverted

-----------------------------------------------------------------------------
(* Sets of numbers, and lists                                              *)

\* A set of numbers has a least one.
LEMMA Least ==
    ASSUME NEW T \in SUBSET Nat, T # {}
    PROVE  \E m \in T : \A o \in T : m <= o
<1>1. IsWellFoundedOn(OpToRel(<, Nat), Nat)
  BY NatLessThanWellFounded
<1>2. PICK m \in T : \A o \in T : ~(<<o, m>> \in OpToRel(<, Nat))
  BY <1>1, WFMin
<1>3. \A o \in T : ~(o < m)
  BY <1>2 DEF OpToRel
<1> QED
  BY <1>3

\* Induction on a set of numbers, from the well-foundedness of < on Nat.
LEMMA InductionOnNat ==
    ASSUME NEW S, 0 \in S, \A n \in Nat : n \in S => n + 1 \in S
    PROVE  \A n \in Nat : n \in S
<1> DEFINE T == {n \in Nat : n \notin S}
<1> SUFFICES ASSUME T # {} PROVE FALSE
  OBVIOUS
<1>1. IsWellFoundedOn(OpToRel(<, Nat), Nat)
  BY NatLessThanWellFounded
<1>2. T \in SUBSET Nat /\ T # {}
  OBVIOUS
<1> HIDE DEF T
<1>3. PICK x \in T : \A y \in T : ~(<<y, x>> \in OpToRel(<, Nat))
  BY <1>1, <1>2, WFMin
<1> USE DEF T
<1>4. \A y \in T : ~(y < x)
  BY <1>3 DEF OpToRel
<1>5. x # 0 /\ x - 1 \in Nat /\ x - 1 \in S
  BY <1>4
<1> QED
  BY <1>5

\* Two lists after one another.
LEMMA JoinedLists ==
    ASSUME NEW S, NEW p \in Seq(S), NEW q \in Seq(S)
    PROVE  /\ p \o q \in Seq(S) /\ Len(p \o q) = Len(p) + Len(q)
           /\ \A j \in 1 .. (Len(p) + Len(q)) :
                 (p \o q)[j] = IF j <= Len(p) THEN p[j] ELSE q[j - Len(p)]
BY ConcatProperties

-----------------------------------------------------------------------------
(* Alarm records and who writes them (Alarms)                              *)

\* The bits of a byte are those of one number.
LEMMA ByteInjective ==
    ASSUME NEW n \in 0 .. 255, NEW m \in 0 .. 255, Byte(n) = Byte(m)
    PROVE  n = m
<1> DEFINE Same(w) == ((n \div w) % 2 = 1) <=> ((m \div w) % 2 = 1)
<1>1. \A i \in Bits : Same(2^i)
  BY DEF Byte
<1>2. /\ 2^0 = 1 /\ 2^1 = 2 /\ 2^2 = 4 /\ 2^3 = 8
      /\ 2^4 = 16 /\ 2^5 = 32 /\ 2^6 = 64 /\ 2^7 = 128
  OBVIOUS
<1>3. Same(1) /\ Same(2) /\ Same(4) /\ Same(8) /\ Same(16) /\ Same(32) /\ Same(64) /\ Same(128)
  BY <1>1, <1>2 DEF Bits
<1>4. ASSUME NEW w \in Nat \ {0}, Same(w)
      PROVE  (n \div w) % 2 = (m \div w) % 2
  <2>1. PICK i \in Int, j \in Int : i = n \div w /\ j = m \div w
    BY SMTT(30)
  <2>2. (i % 2 = 1) <=> (j % 2 = 1)
    BY <1>4, <2>1, Zenon
  <2>3. i % 2 = j % 2
    BY <2>2, SMTT(30)
  <2> QED
    BY <2>1, <2>3, Zenon
<1>5. ASSUME NEW k \in 0 .. 255
      PROVE  k = ((k \div 1) % 2) + 2 * ((k \div 2) % 2) + 4 * ((k \div 4) % 2)
                   + 8 * ((k \div 8) % 2) + 16 * ((k \div 16) % 2)
                   + 32 * ((k \div 32) % 2) + 64 * ((k \div 64) % 2)
                   + 128 * ((k \div 128) % 2)
  BY SMTT(60)
<1>6. /\ (n \div 1) % 2 = (m \div 1) % 2
      /\ (n \div 2) % 2 = (m \div 2) % 2
      /\ (n \div 4) % 2 = (m \div 4) % 2
      /\ (n \div 8) % 2 = (m \div 8) % 2
      /\ (n \div 16) % 2 = (m \div 16) % 2
      /\ (n \div 32) % 2 = (m \div 32) % 2
      /\ (n \div 64) % 2 = (m \div 64) % 2
      /\ (n \div 128) % 2 = (m \div 128) % 2
  <2> HIDE DEF Same
  <2> QED
    BY <1>3, <1>4
<1> DEFINE Value(k) == ((k \div 1) % 2) + 2 * ((k \div 2) % 2) + 4 * ((k \div 4) % 2)
                   + 8 * ((k \div 8) % 2) + 16 * ((k \div 16) % 2)
                   + 32 * ((k \div 32) % 2) + 64 * ((k \div 64) % 2)
                   + 128 * ((k \div 128) % 2)
<1>7. n = Value(n) /\ m = Value(m)
  BY <1>5, Zenon
<1>8. Value(n) = Value(m)
  BY <1>6, Zenon
<1> QED
  BY <1>7, <1>8, Zenon

\* A byte is read as the number it was written of.
LEMMA NumberOfByte ==
    ASSUME NEW n \in 0 .. 255
    PROVE  Number(Byte(n)) = n
BY ByteInjective DEF Number

\* What the editor writes, if anything.
LEMMA EditorsRecord ==
    ASSUME NEW t \in Times, NEW r, r = EditorsAlarm(t), r # Rejected
    PROVE  /\ r \in Records
           /\ ID(r) = Byte(EditorID)
           /\ Repeat(r) = t.repeat \ {7}
           /\ r[2] = Byte(t.hour)
           /\ t.repeat # {}
<1>1. t.hour \in Hours /\ t.repeat \in Repeats
  BY DEF Times
<1>2. t.repeat # {}
  BY DEF EditorsAlarm, Recurring
<1> DEFINE bytes ==
      <<Byte(EditorID), t.repeat \ {7}, Byte(t.hour), Byte(0), Byte(KindRegular),
        Byte(0), {}, Byte(1), Byte(EditorTarget % 256), Byte(EditorTarget \div 256),
        {}, {}, Bits, Bits, Bits, Byte(ActionOnFullBright)>>
<1>3. r = Laid(bytes)
  BY <1>1, <1>2 DEF EditorsAlarm, Recurring, build, Hours
<1>4. \A n : Byte(n) \in Bytes
  BY DEF Byte, Bytes
<1>5. t.repeat \ {7} \in Bytes /\ {} \in Bytes /\ Bits \in Bytes
  BY <1>1 DEF Bytes, Bits, Repeats
<1>6. bytes \in Seq(Bytes) /\ Len(bytes) = 16
  BY <1>4, <1>5
<1>7. bytes[1] = Byte(EditorID) /\ bytes[2] = t.repeat \ {7} /\ bytes[3] = Byte(t.hour)
  OBVIOUS
<1> HIDE DEF bytes
<1>8. r \in Records
  <2>1. ASSUME NEW i \in 0 .. 15 PROVE bytes[i + 1] \in Bytes
    <3>1. i + 1 \in 1 .. 16
      OBVIOUS
    <3> QED
      BY <1>6, <3>1, ElementOfSeq
  <2> QED
    BY <1>3, <2>1 DEF Laid, Records
<1> QED
  BY <1>2, <1>3, <1>7, <1>8 DEF Laid, ID, Repeat

\* Switching a record on or off changes neither when it fires nor whose it is.
LEMMA SwitchedRecord ==
    ASSUME NEW r \in Records, NEW active \in BOOLEAN, NEW q, q = SetActive(r, active)
    PROVE  q \in Records /\ ID(q) = ID(r) /\ Repeat(q) = Repeat(r) /\ q[2] = r[2]
<1>1. Byte(1) \in Bytes /\ {} \in Bytes
  BY DEF Byte, Bytes
<1> QED
  BY <1>1 DEF Records, SetActive, ID, Repeat

\* The head of one record and the tail of another are a record.
LEMMA JoinedIs ==
    ASSUME NEW h \in Records, NEW t \in Records, NEW r,
           r = Joined(HeadOf(h), TailOf(t))
    PROVE  /\ r \in Records
           /\ r = Joined(h, t)
           /\ \A i \in 0 .. 8 : r[i] = h[i]
           /\ \A i \in 9 .. 15 : r[i] = t[i]
<1>1. r = [i \in 0 .. 15 |-> IF i <= 8 THEN h[i] ELSE t[i]]
  BY DEF Joined, HeadOf, TailOf
<1>2. \A i \in 0 .. 15 : r[i] \in Bytes
  BY <1>1 DEF Records
<1> QED
  BY <1>1, <1>2 DEF Joined, Records

\* The head the coordinator keeps and the tail of a record are a record.
LEMMA JoinedTyped ==
    ASSUME NEW p \in [0 .. 8 -> Bytes], NEW t \in Records, NEW r, r = Joined(p, TailOf(t))
    PROVE  r \in Records
<1>1. \A i \in 0 .. 8 : p[i] \in Bytes
  OBVIOUS
<1>2. \A i \in 9 .. 15 : TailOf(t)[i] = t[i] /\ t[i] \in Bytes
  BY DEF TailOf, Records
<1>3. \A i \in 0 .. 15 : i <= 8 => i \in 0 .. 8
  OBVIOUS
<1>4. \A i \in 0 .. 15 : ~(i <= 8) => i \in 9 .. 15
  OBVIOUS
<1> QED
  BY <1>1, <1>2, <1>3, <1>4 DEF Joined, Records

\* A record cut in two is put together again.
LEMMA JoinedAgain ==
    ASSUME NEW r \in Records
    PROVE  Joined(HeadOf(r), TailOf(r)) = r /\ HeadOf(r) # NoHead
<1>1. \A i \in 0 .. 15 : Joined(HeadOf(r), TailOf(r))[i] = r[i]
  BY DEF Joined, HeadOf, TailOf
<1>2. DOMAIN HeadOf(r) = 0 .. 8 /\ DOMAIN NoHead = {}
  BY DEF HeadOf, NoHead
<1>3. HeadOf(r) # NoHead
  BY <1>2
<1>4. Joined(HeadOf(r), TailOf(r)) = [i \in 0 .. 15 |-> r[i]]
  BY <1>1 DEF Joined
<1>5. r = [i \in 0 .. 15 |-> r[i]]
  BY DEF Records
<1> QED
  BY <1>3, <1>4, <1>5, Zenon

\* The bytes of a head, and of a record, are finitely many.
LEMMA FiniteIntervals == IsFiniteSet(0 .. 8) /\ IsFiniteSet(0 .. 15)
<1>1. \A b \in Int : IsFiniteSet(0 .. b)
  BY FS_Interval
<1>2. 8 \in Int /\ 15 \in Int
  OBVIOUS
<1> QED
  BY <1>1, <1>2, Zenon

\* Two records whose heads differ in one byte do not have the same fold.
LEMMA OneByteShows ==
    ASSUME NEW h \in Records, NEW t \in Records, NEW r, r = Joined(h, t),
           NEW j \in 0 .. 8, h[j] # t[j],
           \A i \in 0 .. 8 : i # j => h[i] = t[i]
    PROVE  XOR(r) # XOR(t)
<1>1. DOMAIN r = 0 .. 15 /\ DOMAIN t = 0 .. 15
  BY DEF Joined, Records
<1>2. r[j] = h[j] /\ \A i \in 0 .. 15 : i # j => r[i] = t[i]
  BY DEF Joined
<1>3. PICK b \in Bits : ~(b \in r[j] <=> b \in t[j])
  <2>1. r[j] \subseteq Bits /\ t[j] \subseteq Bits
    BY <1>2 DEF Records, Bytes
  <2> QED
    BY <1>2, <2>1
<1> DEFINE others == {i \in 0 .. 15 : i # j /\ b \in t[i]}
           With(q) == {i \in 0 .. 15 : b \in q[i]}
           Odd(S) == Cardinality(S) % 2 = 1
<1>4. IsFiniteSet(others)
  BY FiniteIntervals, FS_Subset
<1>5. Cardinality(others \union {j}) = Cardinality(others) + 1
  BY <1>4, FS_AddElement
<1>6. Odd(others) <=> ~Odd(others \union {j})
  <2>1. Cardinality(others) \in Nat
    BY <1>4, FS_CardinalityType
  <2> HIDE DEF others
  <2> QED
    BY <1>5, <2>1
<1>7. j \in 0 .. 15
  OBVIOUS
<1>8. CASE b \in r[j] /\ b \notin t[j]
  <2>1. With(r) = others \union {j} /\ With(t) = others
    BY <1>2, <1>7, <1>8
  <2> QED
    BY <1>1, <1>6, <2>1 DEF XOR
<1>9. CASE b \notin r[j] /\ b \in t[j]
  <2>1. With(r) = others /\ With(t) = others \union {j}
    BY <1>2, <1>7, <1>9
  <2> QED
    BY <1>1, <1>6, <2>1 DEF XOR
<1> QED
  BY <1>3, <1>8, <1>9

\* What passes the checksum is the record written, or a mixture of two whose
\* heads are further apart.
LEMMA ChecksumShows ==
    ASSUME NEW h \in Records, NEW t \in Records, NEW r, r = Joined(h, t),
           XOR(r) = XOR(t)
    PROVE  r = t \/ HeadsApart(h, t) >= 2
<1> DEFINE apart == {i \in 0 .. 8 : h[i] # t[i]}
<1>1. IsFiniteSet(apart) /\ Cardinality(apart) \in Nat
  BY FiniteIntervals, FS_Subset, FS_CardinalityType
<1>2. CASE Cardinality(apart) = 0
  <2>1. apart = {}
    BY <1>1, <1>2, FS_EmptySet
  <2>2. \A i \in 0 .. 15 : r[i] = t[i]
    BY <2>1 DEF Joined
  <2>3. r = [i \in 0 .. 15 |-> r[i]] /\ t = [i \in 0 .. 15 |-> t[i]]
    BY DEF Joined, Records
  <2> QED
    BY <2>2, <2>3
<1>3. CASE Cardinality(apart) = 1
  <2>1. PICK j : apart = {j}
    BY <1>1, <1>3, FS_Singleton
  <2>2. j \in 0 .. 8 /\ h[j] # t[j] /\ \A i \in 0 .. 8 : i # j => h[i] = t[i]
    BY <2>1
  <2> QED
    BY <2>2, OneByteShows
<1>4. CASE Cardinality(apart) >= 2
  BY <1>4 DEF HeadsApart
<1> QED
  BY <1>1, <1>2, <1>3, <1>4

\* Records with the same tail and the same fold have heads of the same fold.
LEMMA HeadsFold ==
    ASSUME NEW h \in Records, NEW t \in Records, NEW r, r = Joined(h, t),
           XOR(r) = XOR(t)
    PROVE  XOR(HeadOf(h)) = XOR(HeadOf(t))
<1> DEFINE In(q, S, b) == {i \in S : b \in q[i]}
           Odd(S) == Cardinality(S) % 2 = 1
<1>1. /\ DOMAIN r = 0 .. 15 /\ DOMAIN t = 0 .. 15
      /\ DOMAIN HeadOf(h) = 0 .. 8 /\ DOMAIN HeadOf(t) = 0 .. 8
  BY DEF Joined, Records, HeadOf
<1>2. /\ \A i \in 0 .. 8 : r[i] = h[i] /\ HeadOf(h)[i] = h[i] /\ HeadOf(t)[i] = t[i]
      /\ \A i \in 9 .. 15 : r[i] = t[i]
  BY DEF Joined, HeadOf
<1>3. ASSUME NEW q, NEW b
      PROVE  /\ IsFiniteSet(In(q, 0 .. 8, b)) /\ IsFiniteSet(In(q, 9 .. 15, b))
             /\ Cardinality(In(q, 0 .. 8, b)) \in Nat
             /\ Cardinality(In(q, 9 .. 15, b)) \in Nat
             /\ Cardinality(In(q, 0 .. 15, b))
                  = Cardinality(In(q, 0 .. 8, b)) + Cardinality(In(q, 9 .. 15, b))
  <2> DEFINE A == In(q, 0 .. 8, b)
             B == In(q, 9 .. 15, b)
  <2>1. A \in SUBSET (0 .. 15) /\ B \in SUBSET (0 .. 15)
    OBVIOUS
  <2>2. IsFiniteSet(A) /\ IsFiniteSet(B) /\ Cardinality(A) \in Nat /\ Cardinality(B) \in Nat
    BY <2>1, FiniteIntervals, FS_Subset, FS_CardinalityType
  <2>3. In(q, 0 .. 15, b) = A \union B /\ A \intersect B = {}
    OBVIOUS
  <2> HIDE DEF A, B
  <2>4. /\ Cardinality(A \union B)
             = Cardinality(A) + Cardinality(B) - Cardinality(A \intersect B)
        /\ Cardinality(A \intersect B) = 0
    BY <2>2, <2>3, FS_Union, FS_EmptySet, Zenon
  <2>5. Cardinality(A \union B) = Cardinality(A) + Cardinality(B)
    BY <2>2, <2>4
  <2> QED
    BY <2>2, <2>3, <2>5 DEF A, B
<1>4. ASSUME NEW b \in Bits
      PROVE  Odd(In(HeadOf(h), 0 .. 8, b)) <=> Odd(In(HeadOf(t), 0 .. 8, b))
  <2>1. Odd(In(r, 0 .. 15, b)) <=> Odd(In(t, 0 .. 15, b))
    BY <1>1, Zenon DEF XOR
  <2>2. /\ In(r, 0 .. 8, b) = In(HeadOf(h), 0 .. 8, b)
        /\ In(t, 0 .. 8, b) = In(HeadOf(t), 0 .. 8, b)
        /\ In(r, 9 .. 15, b) = In(t, 9 .. 15, b)
    BY <1>2
  <2>c. /\ Cardinality(In(r, 0 .. 8, b)) \in Nat
        /\ Cardinality(In(t, 0 .. 8, b)) \in Nat
        /\ Cardinality(In(t, 9 .. 15, b)) \in Nat
    BY <1>3
  <2> HIDE DEF In
  <2>3. PICK m \in Nat, n \in Nat, k \in Nat :
           /\ m = Cardinality(In(r, 0 .. 8, b)) /\ n = Cardinality(In(t, 0 .. 8, b))
           /\ k = Cardinality(In(t, 9 .. 15, b))
    BY <2>c, Zenon
  <2>4. Cardinality(In(r, 0 .. 15, b)) = m + k /\ Cardinality(In(t, 0 .. 15, b)) = n + k
    BY <1>3, <2>2, <2>3, Zenon
  <2>5. (m + k) % 2 = 1 <=> (n + k) % 2 = 1
    BY <2>1, <2>4, Zenon
  <2>6. m % 2 = 1 <=> n % 2 = 1
    BY <2>5
  <2> QED
    BY <2>2, <2>3, <2>6, Zenon
<1>5. /\ XOR(HeadOf(h)) = {b \in Bits : Odd(In(HeadOf(h), 0 .. 8, b))}
      /\ XOR(HeadOf(t)) = {b \in Bits : Odd(In(HeadOf(t), 0 .. 8, b))}
  BY <1>1, Zenon DEF XOR
<1> HIDE DEF In, Odd
<1> QED
  BY <1>4, <1>5

-----------------------------------------------------------------------------
\* Whoever still sends fragments began to write their record.
WritingWritten == \A w \in Writers : Busy(w) => writing[w] \in written

\* The coordinator keeps the head of a record that a program wrote...
HeadWritten == pending # NoHead => \E r \in written : pending = HeadOf(r)

\* ...and that of the writer whose write nothing has disturbed.
HeadUndisturbed ==
    \A w \in Writers : sent[w] = 1 /\ clean[w] => pending = HeadOf(writing[w])

\* Every record written for the editor's alarm has a weekday and an hour.
WrittenTimes ==
    \A r \in written : ID(r) = Byte(EditorID) =>
        /\ Repeat(r) # {} /\ Repeat(r) \subseteq Days
        /\ \E h \in Hours : r[2] = Byte(h)

\* A record, or its head, is for a time that is not surely replaced, if it is of
\* the editor's alarm.
OnTime(r) == ID(r) = Byte(EditorID) => \E t \in saved : IsForTime(r, t)

\* So is what is being written, kept by the coordinator, and stored.
WritingOnTime == \A w \in Writers : Busy(w) => OnTime(writing[w])
HeadOnTime == pending # NoHead => OnTime(pending)
StoredOnTime == \A s \in Slots : stored[s] # Free => OnTime(stored[s])

\* One slot at most holds the editor's alarm.
OneSlot ==
    \A s, o \in Slots :
        (/\ stored[s] # Free /\ ID(stored[s]) = Byte(EditorID)
         /\ stored[o] # Free /\ ID(stored[o]) = Byte(EditorID))
            => s = o

AlarmsInv ==
    /\ AlarmsTypeOK
    /\ RecordConverted
    /\ WritingWritten
    /\ HeadWritten
    /\ HeadUndisturbed
    /\ TornOnlyOnCollision
    /\ WrittenTimes
    /\ WritingOnTime
    /\ HeadOnTime
    /\ StoredOnTime
    /\ OneSlot

\* Every program is a writer.
LEMMA WritersIn == Editor \in Writers /\ OtherWriters \subseteq Writers
BY DEF Writers

\* When a record fires is in its first three bytes.
LEMMA SameTime ==
    ASSUME NEW r, NEW q, r[0] = q[0], r[1] = q[1], r[2] = q[2], OnTime(q)
    PROVE  OnTime(r)
BY DEF OnTime, IsForTime, ID, TimeOf, Hour, Repeat

\* The times in question only grow, or keep the one a record is for.
LEMMA MoreTimes ==
    ASSUME NEW r, OnTime(r), saved \subseteq saved', tz' = tz
    PROVE  OnTime(r)'
BY DEF OnTime, IsForTime, ID, TimeOf, Hour, Repeat

\* A record of the editor's alarm that is stored has a weekday and an hour.
LEMMA StoredTimes ==
    ASSUME AlarmsInv, NEW r \in Stored
    PROVE  /\ r \in Records
           /\ ID(r) = Byte(EditorID) =>
                 /\ Repeat(r) # {} /\ Repeat(r) \subseteq Days
                 /\ \E h \in Hours : r[2] = Byte(h)
                 /\ TimeOf(r) \in Times
<1>1. written \subseteq Records /\ r \in Records
  BY DEF AlarmsInv, AlarmsTypeOK, Stored
<1>2. PICK h \in written : \A i \in 0 .. 8 : r[i] = h[i]
  <2>1. CASE r \in written
    BY <2>1
  <2>2. CASE r \notin written
    <3>1. PICK head \in written, tail \in written : r = Joined(head, tail)
      BY <2>2 DEF AlarmsInv, TornOnlyOnCollision
    <3>2. \A i \in 0 .. 8 : r[i] = head[i]
      BY <3>1 DEF Joined
    <3> QED
      BY <3>2
  <2> QED
    BY <2>1, <2>2
<1>3. ID(r) = ID(h) /\ Repeat(r) = Repeat(h) /\ r[2] = h[2]
  BY <1>2 DEF ID, Repeat
<1>4. ASSUME ID(r) = Byte(EditorID)
      PROVE  /\ Repeat(r) # {} /\ Repeat(r) \subseteq Days
             /\ \E n \in Hours : r[2] = Byte(n)
             /\ TimeOf(r) \in Times
  <2>1. Repeat(h) # {} /\ Repeat(h) \subseteq Days
    BY <1>3, <1>4 DEF AlarmsInv, WrittenTimes
  <2>2. PICK n \in Hours : h[2] = Byte(n)
    BY <1>3, <1>4 DEF AlarmsInv, WrittenTimes
  <2>3. n \in 0 .. 255
    BY DEF Hours
  <2>4. Number(Byte(n)) = n
    BY <2>3, NumberOfByte
  <2>5. Hour(r) = n
    BY <1>3, <2>2, <2>4 DEF Hour
  <2>6. Repeat(r) \in Repeats
    BY <1>3, <2>1 DEF Repeats, Days
  <2> QED
    BY <1>3, <2>1, <2>2, <2>5, <2>6 DEF TimeOf, Times
<1> QED
  BY <1>1, <1>4

\* A walk is at slots that hold a record.
LEMMA AnswersHold ==
    ASSUME AlarmsInv, NEW s \in Answers
    PROVE  s \in Slots /\ stored[s] \in Stored
<1>1. PICK start \in Slots : s = QueryAlarm(start) /\ s # EndOfList
  BY DEF Answers
<1> DEFINE occupied == {o \in Slots : o >= start /\ stored[o] # Free}
<1>2. occupied # {} /\ s = CHOOSE m \in occupied : \A o \in occupied : m <= o
  BY <1>1 DEF QueryAlarm
<1>3. \E m \in occupied : \A o \in occupied : m <= o
  <2>1. occupied \in SUBSET Nat
    BY AlarmsAssumption DEF Slots
  <2> QED
    BY <1>2, <2>1, Least
<1>4. s \in occupied
  BY <1>2, <1>3
<1> QED
  BY <1>4 DEF Stored

\* What changes nothing of the alarms keeps their invariant.
LEMMA AlarmsStutter ==
    ASSUME AlarmsInv, UNCHANGED alarmVars
    PROVE  AlarmsInv'
<1>1. UNCHANGED <<tz, local, record, writing, sent, clean, written, writes, pending, stored, saved>>
  BY DEF alarmVars, editorVars, writerVars, coordinatorVars
<1>2. AlarmsTypeOK' /\ RecordConverted'
  BY <1>1 DEF AlarmsInv, AlarmsTypeOK, TypeOK, RecordConverted
<1>3. WritingWritten' /\ HeadWritten' /\ HeadUndisturbed' /\ WrittenTimes'
  BY <1>1 DEF AlarmsInv, WritingWritten, Busy, HeadWritten, HeadUndisturbed, WrittenTimes
<1>4. TornOnlyOnCollision'
  BY <1>1 DEF AlarmsInv, TornOnlyOnCollision, Stored
<1>5. WritingOnTime' /\ HeadOnTime' /\ StoredOnTime' /\ OneSlot'
  BY <1>1 DEF AlarmsInv, WritingOnTime, Busy, HeadOnTime, StoredOnTime, OneSlot, OnTime, IsForTime
<1> QED
  BY <1>2, <1>3, <1>4, <1>5 DEF AlarmsInv

\* A program that begins to write a record keeps the invariant.
LEMMA BeginKeeps ==
    ASSUME AlarmsInv, NEW w \in Writers, NEW r \in Records, BeginWrite(w, r),
           TimeInv', tz' = tz, saved \subseteq saved', saved' \subseteq Times, OnTime(r)',
           ID(r) = Byte(EditorID) =>
               /\ Repeat(r) # {} /\ Repeat(r) \subseteq Days
               /\ \E h \in Hours : r[2] = Byte(h)
    PROVE  AlarmsInv'
<1>0. AlarmsTypeOK /\ UNCHANGED <<tz, pending, stored>>
  BY DEF AlarmsInv, BeginWrite, coordinatorVars
<1>1. AlarmsTypeOK'
  <2>1. writes' \in 0 .. MaxWrites
    BY <1>0, AlarmsAssumption DEF BeginWrite, AlarmsTypeOK
  <2>2. TypeOK'
    BY DEF TimeInv
  <2>3. /\ writing' \in [Writers -> Records \union {Rejected}]
        /\ sent' \in [Writers -> 0 .. 2]
        /\ clean' \in [Writers -> BOOLEAN]
        /\ written' \in SUBSET Records
    BY <1>0 DEF BeginWrite, AlarmsTypeOK
  <2> QED
    BY <1>0, <2>1, <2>2, <2>3 DEF AlarmsTypeOK
<1>2. RecordConverted'
  BY DEF TimeInv
<1>3. WritingWritten'
  <2> SUFFICES ASSUME NEW v \in Writers, Busy(v)' PROVE writing'[v] \in written'
    BY DEF WritingWritten
  <2>1. CASE v = w
    BY <1>0, <2>1 DEF BeginWrite, AlarmsTypeOK
  <2>2. CASE v # w
    BY <1>0, <2>2 DEF AlarmsInv, BeginWrite, AlarmsTypeOK, WritingWritten, Busy
  <2> QED
    BY <2>1, <2>2
<1>4. HeadWritten'
  BY <1>0 DEF AlarmsInv, HeadWritten, BeginWrite
<1>5. HeadUndisturbed'
  BY <1>0 DEF AlarmsInv, HeadUndisturbed, BeginWrite, AlarmsTypeOK
<1>6. TornOnlyOnCollision'
  <2>1. Stored' = Stored /\ written \subseteq written'
    BY <1>0 DEF Stored, BeginWrite
  <2> QED
    BY <2>1 DEF AlarmsInv, TornOnlyOnCollision
<1>7. WrittenTimes'
  <2>1. written' = written \union {r}
    BY DEF BeginWrite
  <2> QED
    BY <1>0, <2>1 DEF AlarmsInv, WrittenTimes
<1>8. WritingOnTime'
  <2> SUFFICES ASSUME NEW v \in Writers, Busy(v)' PROVE OnTime(writing[v])'
    BY DEF WritingOnTime
  <2>1. CASE v = w
    <3>1. writing'[v] = r
      BY <1>0, <2>1 DEF BeginWrite, AlarmsTypeOK
    <3> QED
      BY <3>1 DEF OnTime, IsForTime
  <2>2. CASE v # w
    <3>1. writing'[v] = writing[v] /\ Busy(v)
      BY <1>0, <2>2 DEF BeginWrite, AlarmsTypeOK, Busy
    <3>2. PICK q : q = writing[v]
      OBVIOUS
    <3>3. OnTime(q)
      BY <3>1, <3>2 DEF AlarmsInv, WritingOnTime
    <3>4. OnTime(q)'
      BY <1>0, <3>3, MoreTimes
    <3> QED
      BY <3>1, <3>2, <3>4 DEF OnTime, IsForTime
  <2> QED
    BY <2>1, <2>2
<1>9. HeadOnTime'
  <2> SUFFICES ASSUME pending' # NoHead PROVE OnTime(pending)'
    BY DEF HeadOnTime
  <2>1. PICK q : q = pending
    OBVIOUS
  <2>2. OnTime(q)
    BY <1>0, <2>1 DEF AlarmsInv, HeadOnTime
  <2>3. OnTime(q)'
    BY <1>0, <2>2, MoreTimes
  <2> QED
    BY <1>0, <2>1, <2>3 DEF OnTime, IsForTime
<1>10. StoredOnTime'
  <2> SUFFICES ASSUME NEW s \in Slots, stored'[s] # Free PROVE OnTime(stored[s])'
    BY DEF StoredOnTime
  <2>1. PICK q : q = stored[s]
    OBVIOUS
  <2>2. OnTime(q)
    BY <1>0, <2>1 DEF AlarmsInv, StoredOnTime
  <2>3. OnTime(q)'
    BY <1>0, <2>2, MoreTimes
  <2> QED
    BY <1>0, <2>1, <2>3 DEF OnTime, IsForTime
<1>11. OneSlot'
  BY <1>0 DEF AlarmsInv, OneSlot
<1> QED
  BY <1>1, <1>2, <1>3, <1>4, <1>5, <1>6, <1>7, <1>8, <1>9, <1>10, <1>11 DEF AlarmsInv

\* What the editor reads back is a time, converted.
LEMMA LoadIs ==
    ASSUME AlarmsInv, LoadAlarm
    PROVE  TimeInv'
<1>1. PICK s \in Answers :
          /\ ID(stored[s]) = Byte(EditorID)
          /\ record' = TimeOf(stored[s])
          /\ local' = UTCToLocal(record', tz) /\ tz' = tz
  BY DEF LoadAlarm
<1>2. PICK r \in Stored : r = stored[s]
  BY <1>1, AnswersHold
<1>3. TimeOf(r) \in Times /\ TimeOf(r).repeat \subseteq Days
  BY <1>1, <1>2, StoredTimes DEF TimeOf
<1>4. PICK u : u = TimeOf(r)
  OBVIOUS
<1>5. TypeOK /\ u \in Times /\ u.repeat \subseteq Days /\ record' = u
  BY <1>1, <1>2, <1>3, <1>4 DEF AlarmsInv, AlarmsTypeOK
<1> QED
  BY <1>1, <1>5, LoadTime

\* What the editor saves and sends is for the time it saved.
LEMMA SavedIs ==
    ASSUME TimeInv, NEW t \in Times, NEW r, Edit(t), r = EditorsAlarm(record'), r # Rejected
    PROVE  /\ r \in Records
           /\ Repeat(r) # {} /\ Repeat(r) \subseteq Days
           /\ \E h \in Hours : r[2] = Byte(h)
           /\ IsForTime(r, t)
<1>1. PICK u : u = record'
  OBVIOUS
<1>2. u = Shifted(t, -tz) /\ -tz \in -24 .. 24
  BY <1>1, Offsets24 DEF Edit, LocalToUTC, TimeInv
<1>3. u \in Times /\ u.repeat \subseteq Days
  BY <1>2, ShiftedType
<1>4. FireHours(u) = Behind(FireHours(t), tz)
  BY <1>1, EditTime
<1>5. /\ r \in Records /\ ID(r) = Byte(EditorID)
      /\ Repeat(r) = u.repeat \ {7} /\ r[2] = Byte(u.hour) /\ u.repeat # {}
  BY <1>1, <1>3, EditorsRecord
<1>6. Repeat(r) = u.repeat
  BY <1>3, <1>5 DEF Days
<1>7. u.hour \in Hours /\ u.hour \in 0 .. 255 /\ u = [hour |-> u.hour, repeat |-> u.repeat]
  BY <1>3 DEF Times, Hours
<1>8. Hour(r) = u.hour
  BY <1>5, <1>7, NumberOfByte DEF Hour
<1>9. TimeOf(r) = u
  BY <1>6, <1>7, <1>8 DEF TimeOf
<1> QED
  BY <1>3, <1>4, <1>5, <1>6, <1>7, <1>9 DEF IsForTime

\* Showing another time changes nothing that was written or stored.
LEMMA OnlyTimeChanges ==
    ASSUME AlarmsInv, AlarmsTypeOK', RecordConverted',
           UNCHANGED <<tz, writing, sent, clean, written, writes, pending, stored, saved>>
    PROVE  AlarmsInv'
<1>1. WritingWritten' /\ HeadWritten' /\ HeadUndisturbed' /\ WrittenTimes'
  BY DEF AlarmsInv, WritingWritten, Busy, HeadWritten, HeadUndisturbed, WrittenTimes
<1>2. TornOnlyOnCollision'
  BY DEF AlarmsInv, TornOnlyOnCollision, Stored
<1>3. WritingOnTime' /\ HeadOnTime' /\ StoredOnTime' /\ OneSlot'
  BY DEF AlarmsInv, WritingOnTime, Busy, HeadOnTime, StoredOnTime, OneSlot, OnTime, IsForTime
<1> QED
  BY <1>1, <1>2, <1>3 DEF AlarmsInv

\* A record with the bytes of one that is for a time still in question.
LEMMA SameTimeThen ==
    ASSUME NEW r, NEW q, r[0] = q[0], r[1] = q[1], r[2] = q[2], OnTime(q)'
    PROVE  OnTime(r)'
BY DEF OnTime, IsForTime, ID, TimeOf, Hour, Repeat

\* A record that is put into a slot of SlotsFor leaves the editor one slot.
LEMMA SlotTaken ==
    ASSUME AlarmsTypeOK, OneSlot, NEW r \in Records, NEW s \in SlotsFor(r),
           stored' = [stored EXCEPT ![s] = r]
    PROVE  /\ OneSlot'
           /\ ID(r) = Byte(EditorID) =>
                 \A o \in Slots : o # s /\ stored'[o] # Free => ID(stored'[o]) # ID(r)
<1>1. s \in Slots
  BY DEF SlotsFor
<1>2. stored'[s] = r /\ \A o \in Slots : o # s => stored'[o] = stored[o]
  BY <1>1 DEF AlarmsTypeOK
<1>3. ASSUME ID(r) = Byte(EditorID), NEW o \in Slots, o # s, stored'[o] # Free,
             ID(stored'[o]) = ID(r)
      PROVE  FALSE
  <2>1. stored[o] # Free /\ ID(stored[o]) = ID(r)
    BY <1>2, <1>3
  <2>2. stored[s] # Free /\ ID(stored[s]) = ID(r)
    BY <2>1 DEF SlotsFor
  <2> QED
    BY <1>1, <1>3, <2>1, <2>2 DEF OneSlot
<1>4. ASSUME NEW a \in Slots, NEW o \in Slots,
             stored'[a] # Free, ID(stored'[a]) = Byte(EditorID),
             stored'[o] # Free, ID(stored'[o]) = Byte(EditorID)
      PROVE  a = o
  <2>1. CASE ID(r) = Byte(EditorID)
    BY <1>3, <1>4, <2>1
  <2>2. CASE ID(r) # Byte(EditorID)
    <3>1. a # s /\ o # s
      BY <1>2, <1>4, <2>2
    <3> QED
      BY <1>2, <1>4, <3>1 DEF OneSlot
  <2> QED
    BY <2>1, <2>2
<1>5. OneSlot'
  BY <1>4 DEF OneSlot
<1> QED
  BY <1>3, <1>5

\* A fragment that arrives leaves nothing behind of a time that is replaced.
LEMMA ArrivalOnTime ==
    ASSUME AlarmsInv, NEW w \in Writers, FragmentArrives(w)
    PROVE  /\ WritingOnTime' /\ HeadOnTime' /\ StoredOnTime' /\ OneSlot'
           /\ saved' \subseteq Times
<1>0. /\ AlarmsTypeOK /\ WritingWritten /\ HeadUndisturbed
      /\ WritingOnTime /\ HeadOnTime /\ StoredOnTime /\ OneSlot
  BY DEF AlarmsInv
<1>1. Busy(w) /\ UNCHANGED <<tz, writing>> /\ sent' = [sent EXCEPT ![w] = sent[w] + 1]
  BY DEF FragmentArrives, editorVars
<1>2. sent[w] \in 0 .. 1
  BY <1>0, <1>1 DEF Busy, AlarmsTypeOK
<1>3. PICK t \in Records : t = writing[w]
  BY <1>0, <1>1 DEF WritingWritten, AlarmsTypeOK
<1>4. saved' \subseteq saved /\ saved \subseteq Times
  BY <1>0 DEF FragmentArrives, AlarmsTypeOK
<1>5. ASSUME NEW v \in Writers, Busy(v), NEW q, q = writing[v]
      PROVE  OnTime(q)'
  <2>1. OnTime(q)
    BY <1>0, <1>5 DEF WritingOnTime
  <2>2. CASE saved' = saved
    BY <1>1, <2>1, <2>2, MoreTimes
  <2>3. CASE saved' # saved
    <3>1. saved' = {u \in saved : \E x \in Writers : Busy(x) /\ IsForTime(writing[x], u)}
      BY <2>3 DEF FragmentArrives
    <3> SUFFICES ASSUME ID(q) = Byte(EditorID) PROVE \E u \in saved' : IsForTime(q, u)'
      BY DEF OnTime, ID
    <3>2. PICK u \in saved : IsForTime(q, u)
      BY <2>1 DEF OnTime
    <3>3. u \in saved'
      BY <1>5, <3>1, <3>2
    <3>4. IsForTime(q, u)'
      BY <1>1, <3>2 DEF IsForTime
    <3> QED
      BY <3>3, <3>4
  <2> QED
    BY <2>2, <2>3
<1>6. WritingOnTime'
  <2> SUFFICES ASSUME NEW v \in Writers, Busy(v)' PROVE OnTime(writing[v])'
    BY DEF WritingOnTime
  <2>1. Busy(v)
    BY <1>0, <1>1, <1>2 DEF Busy, AlarmsTypeOK
  <2>2. PICK q : q = writing[v]
    OBVIOUS
  <2>3. OnTime(q)'
    BY <1>5, <2>1, <2>2
  <2> QED
    BY <1>1, <2>2, <2>3 DEF OnTime, IsForTime
<1>7. OnTime(t)'
  BY <1>1, <1>3, <1>5
<1>8. ASSUME NEW q, OnTime(q), saved' = saved PROVE OnTime(q)'
  BY <1>1, <1>8, MoreTimes
<1>9. CASE sent[w] = 0
  <2>1. saved' = saved /\ stored' = stored /\ pending' = HeadOf(t)
    BY <1>3, <1>9 DEF FragmentArrives, GetsHead, Fragment0
  <2>2. PICK p : p = HeadOf(t)
    OBVIOUS
  <2>3. p[0] = t[0] /\ p[1] = t[1] /\ p[2] = t[2]
    BY <2>2 DEF HeadOf
  <2>4. OnTime(p)'
    BY <1>7, <2>3, SameTimeThen
  <2>5. HeadOnTime'
    BY <2>1, <2>2, <2>4 DEF HeadOnTime, OnTime, IsForTime
  <2>6. StoredOnTime'
    <3> SUFFICES ASSUME NEW s \in Slots, stored'[s] # Free PROVE OnTime(stored[s])'
      BY DEF StoredOnTime
    <3>1. PICK q : q = stored[s]
      OBVIOUS
    <3>2. OnTime(q)'
      BY <1>0, <1>8, <2>1, <3>1 DEF StoredOnTime
    <3> QED
      BY <2>1, <3>1, <3>2 DEF OnTime, IsForTime
  <2>7. OneSlot'
    BY <1>0, <2>1 DEF OneSlot
  <2> QED
    BY <1>4, <1>6, <2>5, <2>6, <2>7
<1>10. CASE sent[w] = 1
  <2>1. GetsTail(Fragment1(t))
    BY <1>3, <1>10 DEF FragmentArrives
  <2>2. PICK r : r = Joined(pending, TailOf(t))
    OBVIOUS
  <2>3. r[0] = pending[0] /\ r[1] = pending[1] /\ r[2] = pending[2]
    BY <2>2 DEF Joined
  <2>4. pending' \in {pending, NoHead}
    BY <2>1 DEF GetsTail
  <2>5. IF pending # NoHead /\ XOR(r) = XOR(t) /\ SlotsFor(r) # {}
        THEN \E s \in SlotsFor(r) : stored' = [stored EXCEPT ![s] = r]
        ELSE stored' = stored
    BY <2>1, <2>2 DEF GetsTail, Accepts, Fragment1
  <2>6. pending # NoHead => r \in Records
    BY <1>0, <1>3, <2>2, JoinedTyped DEF AlarmsTypeOK
  <2>7. CASE saved' = saved
    <3>1. HeadOnTime'
      <4> SUFFICES ASSUME pending' # NoHead PROVE OnTime(pending)'
        BY DEF HeadOnTime
      <4>1. PICK p : p = pending
        OBVIOUS
      <4>2. pending' = p /\ OnTime(p)
        BY <1>0, <2>4, <4>1 DEF HeadOnTime
      <4>3. OnTime(p)'
        BY <1>8, <2>7, <4>2
      <4> QED
        BY <4>2, <4>3 DEF OnTime, IsForTime
    <3>2. \A s \in Slots : stored'[s] # Free =>
             stored'[s] = stored[s] \/ (pending # NoHead /\ stored'[s] = r)
      BY <1>0, <2>5 DEF SlotsFor, AlarmsTypeOK
    <3>3. StoredOnTime'
      <4> SUFFICES ASSUME NEW s \in Slots, stored'[s] # Free PROVE OnTime(stored[s])'
        BY DEF StoredOnTime
      <4>1. PICK q : q = stored'[s]
        OBVIOUS
      <4>2. OnTime(q)
        <5>1. CASE q = stored[s]
          BY <1>0, <4>1, <5>1 DEF StoredOnTime
        <5>2. CASE q # stored[s]
          <6>1. pending # NoHead /\ q = r
            BY <3>2, <4>1, <5>2
          <6>2. PICK p : p = pending
            OBVIOUS
          <6>3. OnTime(p) /\ r[0] = p[0] /\ r[1] = p[1] /\ r[2] = p[2]
            BY <1>0, <2>3, <6>1, <6>2 DEF HeadOnTime
          <6> QED
            BY <6>1, <6>3, SameTime
        <5> QED
          BY <5>1, <5>2
      <4>3. OnTime(q)'
        BY <1>8, <2>7, <4>2
      <4> QED
        BY <4>1, <4>3 DEF OnTime, IsForTime
    <3>4. OneSlot'
      <4>1. CASE stored' = stored
        BY <1>0, <4>1 DEF OneSlot
      <4>2. CASE stored' # stored
        <5>1. PICK s \in SlotsFor(r) : stored' = [stored EXCEPT ![s] = r]
          BY <2>5, <4>2
        <5>2. r \in Records
          BY <2>5, <2>6, <4>2
        <5> QED
          BY <1>0, <5>1, <5>2, SlotTaken
      <4> QED
        BY <4>1, <4>2
    <3> QED
      BY <1>4, <1>6, <3>1, <3>3, <3>4
  <2>8. CASE saved' # saved
    <3>1. clean[w] /\ ID(t) = Byte(EditorID)
      BY <1>3, <2>8 DEF FragmentArrives
    <3>2. pending = HeadOf(t)
      BY <1>0, <1>3, <1>10, <3>1 DEF HeadUndisturbed
    <3>3. r = t /\ pending # NoHead
      BY <1>3, <2>2, <3>2, JoinedAgain
    <3>4. HeadOnTime'
      <4> SUFFICES ASSUME pending' # NoHead PROVE OnTime(pending)'
        BY DEF HeadOnTime
      <4>1. PICK p : p = pending
        OBVIOUS
      <4>2. pending' = p /\ p[0] = t[0] /\ p[1] = t[1] /\ p[2] = t[2]
        BY <2>3, <2>4, <3>3, <4>1
      <4>3. OnTime(p)'
        BY <1>7, <4>2, SameTimeThen
      <4> QED
        BY <4>2, <4>3 DEF OnTime, IsForTime
    <3>5. CASE SlotsFor(t) = {}
      <4>1. stored' = stored
        BY <2>5, <3>3, <3>5
      <4>2. OneSlot'
        BY <1>0, <4>1 DEF OneSlot
      <4>3. \A s \in Slots : stored'[s] # Free => ID(stored'[s]) # Byte(EditorID)
        BY <3>1, <3>5, <4>1 DEF SlotsFor
      <4>4. StoredOnTime'
        BY <4>3 DEF StoredOnTime, OnTime
      <4> QED
        BY <1>4, <1>6, <3>4, <4>2, <4>4
    <3>6. CASE SlotsFor(t) # {}
      <4>1. PICK s \in SlotsFor(t) : stored' = [stored EXCEPT ![s] = t]
        BY <2>5, <3>3, <3>6
      <4>2. /\ OneSlot'
            /\ \A o \in Slots : o # s /\ stored'[o] # Free => ID(stored'[o]) # Byte(EditorID)
        BY <1>0, <3>1, <4>1, SlotTaken
      <4>3. stored'[s] = t
        BY <1>0, <4>1 DEF AlarmsTypeOK, SlotsFor
      <4>4. StoredOnTime'
        <5> SUFFICES ASSUME NEW o \in Slots, stored'[o] # Free PROVE OnTime(stored[o])'
          BY DEF StoredOnTime
        <5>1. CASE o = s
          BY <1>7, <4>3, <5>1 DEF OnTime, IsForTime
        <5>2. CASE o # s
          BY <4>2, <5>2 DEF OnTime
        <5> QED
          BY <5>1, <5>2
      <4> QED
        BY <1>4, <1>6, <3>4, <4>2, <4>4
    <3> QED
      BY <3>5, <3>6
  <2> QED
    BY <2>7, <2>8
<1> QED
  BY <1>2, <1>9, <1>10

\* Every step of the alarm programs keeps their invariant.
LEMMA AlarmsStep == AlarmsInv /\ [AlarmsNext]_alarmVars => AlarmsInv'
<1> SUFFICES ASSUME AlarmsInv, [AlarmsNext]_alarmVars PROVE AlarmsInv'
  OBVIOUS
<1>0. /\ AlarmsTypeOK /\ RecordConverted /\ WritingWritten /\ HeadWritten /\ HeadUndisturbed
      /\ TornOnlyOnCollision /\ WrittenTimes /\ WritingOnTime /\ HeadOnTime /\ StoredOnTime
      /\ OneSlot
  BY DEF AlarmsInv
<1>t. TimeInv
  BY <1>0 DEF AlarmsTypeOK, TimeInv
<1>1. ASSUME NEW t \in EditorsTimes, SaveAlarm(t) PROVE AlarmsInv'
  <2>1. t \in Times
    BY <1>0, AlarmsAssumption DEF EditorsTimes, AlarmsTypeOK, TypeOK
  <2>2. Edit(t) /\ tz' = tz
    BY <1>1 DEF SaveAlarm, Edit
  <2>3. TimeInv'
    BY <1>t, <2>1, <2>2, EditTime
  <2>4. PICK r : r = EditorsAlarm(record')
    OBVIOUS
  <2>5. CASE r = Rejected
    <3>1. UNCHANGED <<writing, sent, clean, written, writes, pending, stored, saved>>
      BY <1>1, <2>4, <2>5 DEF SaveAlarm, writerVars, coordinatorVars
    <3>2. AlarmsTypeOK' /\ RecordConverted'
      BY <1>0, <2>3, <3>1 DEF AlarmsTypeOK, TimeInv
    <3> QED
      BY <2>2, <3>1, <3>2, OnlyTimeChanges
  <2>6. CASE r # Rejected
    <3>1. BeginWrite(Editor, r) /\ saved' = saved \union {t}
      BY <1>1, <2>4, <2>6 DEF SaveAlarm
    <3>2. /\ r \in Records
          /\ Repeat(r) # {} /\ Repeat(r) \subseteq Days
          /\ \E h \in Hours : r[2] = Byte(h)
          /\ IsForTime(r, t)
      BY <1>t, <2>1, <2>2, <2>4, <2>6, SavedIs
    <3>3. OnTime(r)'
      BY <2>2, <3>1, <3>2 DEF OnTime, IsForTime
    <3>4. saved \subseteq saved' /\ saved' \subseteq Times
      BY <1>0, <2>1, <3>1 DEF AlarmsTypeOK
    <3> QED
      BY <2>2, <2>3, <3>1, <3>2, <3>3, <3>4, BeginKeeps, WritersIn
  <2> QED
    BY <2>5, <2>6
<1>2. CASE LoadAlarm
  <2>1. UNCHANGED <<tz, writing, sent, clean, written, writes, pending, stored, saved>>
    BY <1>2 DEF LoadAlarm, writerVars, coordinatorVars
  <2>2. TimeInv'
    BY <1>2, LoadIs
  <2>3. AlarmsTypeOK' /\ RecordConverted'
    BY <1>0, <2>1, <2>2 DEF AlarmsTypeOK, TimeInv
  <2> QED
    BY <2>1, <2>3, OnlyTimeChanges
<1>3. ASSUME NEW w \in OtherWriters, Toggle(w) PROVE AlarmsInv'
  <2>1. PICK s \in Answers : BeginWrite(w, SetActive(stored[s], ~Active(stored[s])))
    BY <1>3 DEF Toggle
  <2>2. UNCHANGED <<tz, local, record, saved>>
    BY <1>3 DEF Toggle, editorVars
  <2>3. PICK q \in Stored : q = stored[s] /\ s \in Slots
    BY AnswersHold
  <2>4. PICK x \in BOOLEAN : x = ~Active(q)
    BY DEF Active
  <2>5. PICK r : r = SetActive(q, x)
    OBVIOUS
  <2>6. BeginWrite(w, r)
    BY <2>1, <2>3, <2>4, <2>5
  <2>7. q \in Records /\ r \in Records /\ ID(r) = ID(q) /\ Repeat(r) = Repeat(q) /\ r[2] = q[2]
    BY <2>5, StoredTimes, SwitchedRecord
  <2>8. OnTime(q)
    BY <1>0, <2>3 DEF StoredOnTime, Stored
  <2>9. OnTime(r)
    BY <2>7, <2>8, SameTime DEF ID, Repeat
  <2>10. OnTime(r)' /\ TimeInv'
    BY <1>t, <2>2, <2>9, MoreTimes DEF TimeInv, TypeOK, RecordConverted
  <2>11. ID(r) = Byte(EditorID) =>
            /\ Repeat(r) # {} /\ Repeat(r) \subseteq Days
            /\ \E h \in Hours : r[2] = Byte(h)
    BY <2>7, StoredTimes
  <2>12. saved' \subseteq Times /\ w \in Writers
    BY <1>0, <2>2, WritersIn DEF AlarmsTypeOK
  <2> QED
    BY <2>2, <2>6, <2>7, <2>10, <2>11, <2>12, BeginKeeps
<1>4. ASSUME NEW w \in OtherWriters, NEW r \in Others, WriteOther(w, r) PROVE AlarmsInv'
  <2>1. BeginWrite(w, r) /\ UNCHANGED <<tz, local, record, saved>>
    BY <1>4 DEF WriteOther, editorVars
  <2>2. r \in Records /\ ID(r) # Byte(EditorID) /\ OnTime(r)'
    BY AlarmsAssumption DEF OnTime
  <2>3. TimeInv'
    BY <1>t, <2>1 DEF TimeInv, TypeOK, RecordConverted
  <2>4. saved' \subseteq Times /\ w \in Writers
    BY <1>0, <2>1, WritersIn DEF AlarmsTypeOK
  <2> QED
    BY <2>1, <2>2, <2>3, <2>4, BeginKeeps
<1>5. ASSUME NEW w \in Writers, FragmentLost(w) PROVE AlarmsInv'
  <2>1. UNCHANGED <<tz, local, record, writing, written, writes, pending, stored, saved>>
    BY <1>5 DEF FragmentLost, editorVars, coordinatorVars
  <2>2. sent[w] \in 0 .. 1
    BY <1>0, <1>5 DEF FragmentLost, Busy, AlarmsTypeOK
  <2>3. sent' = [sent EXCEPT ![w] = sent[w] + 1] /\ clean' = [clean EXCEPT ![w] = FALSE]
    BY <1>5 DEF FragmentLost
  <2>4. AlarmsTypeOK' /\ RecordConverted'
    BY <1>0, <2>1, <2>2, <2>3 DEF AlarmsTypeOK, TypeOK, RecordConverted
  <2>5. WritingWritten'
    BY <1>0, <2>1, <2>2, <2>3 DEF AlarmsTypeOK, WritingWritten, Busy
  <2>6. HeadUndisturbed'
    BY <1>0, <2>1, <2>3 DEF AlarmsTypeOK, HeadUndisturbed
  <2>7. HeadWritten' /\ WrittenTimes' /\ TornOnlyOnCollision'
    BY <1>0, <2>1 DEF HeadWritten, WrittenTimes, TornOnlyOnCollision, Stored
  <2>8. HeadOnTime' /\ StoredOnTime' /\ OneSlot'
    BY <1>0, <2>1 DEF HeadOnTime, StoredOnTime, OneSlot, OnTime, IsForTime
  <2>9. WritingOnTime'
    <3>1. \A v \in Writers : Busy(v)' => Busy(v)
      BY <1>0, <2>2, <2>3 DEF AlarmsTypeOK, Busy
    <3> QED
      BY <1>0, <2>1, <3>1 DEF WritingOnTime, OnTime, IsForTime
  <2> QED
    BY <2>4, <2>5, <2>6, <2>7, <2>8, <2>9 DEF AlarmsInv
<1>6. ASSUME NEW w \in Writers, FragmentArrives(w) PROVE AlarmsInv'
  <2>1. UNCHANGED <<tz, local, record, writing, written, writes>>
    BY <1>6 DEF FragmentArrives, editorVars
  <2>2. sent[w] \in 0 .. 1 /\ Busy(w)
    BY <1>0, <1>6 DEF FragmentArrives, Busy, AlarmsTypeOK
  <2>3. /\ sent' = [sent EXCEPT ![w] = sent[w] + 1]
        /\ clean' = [v \in Writers |-> clean[v] /\ v = w]
    BY <1>6 DEF FragmentArrives
  <2>4. sent' \in [Writers -> 0 .. 2] /\ clean' \in [Writers -> BOOLEAN]
    BY <1>0, <2>2, <2>3 DEF AlarmsTypeOK
  <2>5. PICK t \in written : t = writing[w]
    BY <1>0, <2>2 DEF WritingWritten
  <2>6. t \in Records /\ written \subseteq Records
    BY <1>0 DEF AlarmsTypeOK
  <2>7. RecordConverted' /\ WrittenTimes'
    BY <1>0, <2>1 DEF RecordConverted, WrittenTimes
  <2>a. /\ WritingOnTime' /\ HeadOnTime' /\ StoredOnTime' /\ OneSlot'
        /\ saved' \subseteq Times
    BY <1>6, ArrivalOnTime
  <2>8. WritingWritten'
    BY <1>0, <2>1, <2>2, <2>3 DEF AlarmsTypeOK, WritingWritten, Busy
  <2>9. CASE sent[w] = 0
    <3>1. pending' = HeadOf(t) /\ stored' = stored
      BY <1>6, <2>5, <2>9 DEF FragmentArrives, GetsHead, Fragment0
    <3>2. HeadOf(t) \in [0 .. 8 -> Bytes]
      BY <2>6 DEF HeadOf, Records
    <3>3. AlarmsTypeOK'
      BY <1>0, <2>1, <2>4, <2>a, <3>1, <3>2 DEF AlarmsTypeOK, TypeOK
    <3>4. HeadWritten'
      BY <2>1, <2>5, <3>1 DEF HeadWritten
    <3>5. HeadUndisturbed'
      BY <2>1, <2>3, <2>5, <3>1 DEF HeadUndisturbed
    <3>6. TornOnlyOnCollision'
      BY <1>0, <2>1, <3>1 DEF TornOnlyOnCollision, Stored
    <3> QED
      BY <2>7, <2>8, <2>a, <3>3, <3>4, <3>5, <3>6 DEF AlarmsInv
  <2>10. CASE sent[w] # 0
    <3>1. GetsTail(Fragment1(t)) /\ sent[w] = 1
      BY <1>6, <2>2, <2>5, <2>10 DEF FragmentArrives
    <3>2. pending' \in {pending, NoHead}
      BY <3>1 DEF GetsTail
    <3>3. HeadWritten'
      BY <1>0, <2>1, <3>2 DEF HeadWritten
    <3>4. HeadUndisturbed'
      <4>1. \A v \in Writers : ~(sent'[v] = 1 /\ clean'[v])
        <5>1. sent'[w] = 2
          BY <1>0, <2>3, <3>1 DEF AlarmsTypeOK
        <5>2. \A v \in Writers : clean'[v] => v = w
          BY <2>3
        <5> QED
          BY <5>1, <5>2
      <4> QED
        BY <4>1 DEF HeadUndisturbed
    <3>5. CASE stored' = stored
      <4>1. AlarmsTypeOK'
        BY <1>0, <2>1, <2>4, <2>a, <3>2, <3>5 DEF AlarmsTypeOK, TypeOK
      <4>2. TornOnlyOnCollision'
        BY <1>0, <2>1, <3>5 DEF TornOnlyOnCollision, Stored
      <4> QED
        BY <2>7, <2>8, <2>a, <3>3, <3>4, <4>1, <4>2 DEF AlarmsInv
    <3>6. CASE stored' # stored
      <4>1. PICK r : r = Joined(pending, TailOf(t))
        OBVIOUS
      <4>2. /\ pending # NoHead /\ XOR(r) = XOR(t)
            /\ \E s \in SlotsFor(r) : stored' = [stored EXCEPT ![s] = r]
        BY <3>1, <3>6, <4>1 DEF GetsTail, Accepts, Fragment1
      <4>3. PICK h \in written : pending = HeadOf(h)
        BY <1>0, <4>2 DEF HeadWritten
      <4>4. PICK s \in Slots : stored' = [stored EXCEPT ![s] = r]
        BY <4>2 DEF SlotsFor
      <4>5. h \in Records /\ r = Joined(HeadOf(h), TailOf(t))
        BY <2>6, <4>1, <4>3
      <4>6. r \in Records /\ r = Joined(h, t)
        BY <2>6, <4>5, JoinedIs
      <4>7. /\ r = t \/ HeadsApart(h, t) >= 2
            /\ XOR(HeadOf(h)) = XOR(HeadOf(t))
        BY <2>6, <4>2, <4>5, <4>6, ChecksumShows, HeadsFold
      <4>8. AlarmsTypeOK'
        BY <1>0, <2>1, <2>4, <2>a, <3>2, <4>4, <4>6 DEF AlarmsTypeOK, TypeOK
      <4>9. TornOnlyOnCollision'
        <5>1. Stored' \subseteq Stored \union {r}
          BY <1>0, <4>4 DEF Stored, AlarmsTypeOK
        <5>2. \/ r \in written'
              \/ \E head, tail \in written' :
                    /\ r = Joined(head, tail)
                    /\ HeadsApart(head, tail) >= 2
                    /\ XOR(HeadOf(head)) = XOR(HeadOf(tail))
          BY <2>1, <2>5, <4>3, <4>6, <4>7
        <5> QED
          BY <1>0, <2>1, <5>1, <5>2 DEF TornOnlyOnCollision
      <4> QED
        BY <2>7, <2>8, <2>a, <3>3, <3>4, <4>8, <4>9 DEF AlarmsInv
    <3> QED
      BY <3>5, <3>6
  <2> QED
    BY <2>9, <2>10
<1>7. ASSUME NEW s \in Slots, DeleteAlarm(s) PROVE AlarmsInv'
  <2>1. UNCHANGED <<tz, local, record, writing, sent, clean, written, writes, pending, saved>>
    BY <1>7 DEF DeleteAlarm, editorVars, writerVars
  <2>2. stored' = [stored EXCEPT ![s] = Free]
    BY <1>7 DEF DeleteAlarm
  <2>3. AlarmsTypeOK' /\ RecordConverted'
    BY <1>0, <2>1, <2>2 DEF AlarmsTypeOK, TypeOK, RecordConverted
  <2>4. WritingWritten' /\ HeadWritten' /\ HeadUndisturbed' /\ WrittenTimes'
    BY <1>0, <2>1 DEF WritingWritten, Busy, HeadWritten, HeadUndisturbed, WrittenTimes
  <2>5. \A o \in Slots : stored'[o] # Free => stored'[o] = stored[o]
    BY <1>0, <2>2 DEF AlarmsTypeOK
  <2>6. TornOnlyOnCollision'
    BY <1>0, <2>1, <2>5 DEF TornOnlyOnCollision, Stored
  <2>7. WritingOnTime' /\ HeadOnTime'
    BY <1>0, <2>1 DEF WritingOnTime, Busy, HeadOnTime, OnTime, IsForTime
  <2>8. StoredOnTime' /\ OneSlot'
    BY <1>0, <2>1, <2>5 DEF StoredOnTime, OneSlot, OnTime, IsForTime
  <2> QED
    BY <2>3, <2>4, <2>6, <2>7, <2>8 DEF AlarmsInv
<1>8. CASE UNCHANGED alarmVars
  BY <1>8, AlarmsStutter
<1> QED
  BY <1>1, <1>2, <1>3, <1>4, <1>5, <1>6, <1>7, <1>8 DEF AlarmsNext

\* What is stored of the editor's alarm fires when it should.
LEMMA InvStored == AlarmsInv => StoredFiresOnTime
<1> SUFFICES ASSUME AlarmsInv, NEW r \in Stored, ID(r) = Byte(EditorID)
             PROVE  FireHours(TimeOf(r)) # {} /\ \E t \in saved : IsForTime(r, t)
  BY DEF StoredFiresOnTime
<1>1. Repeat(r) # {} /\ Repeat(r) \subseteq Days
  BY StoredTimes
<1>2. FireHours(TimeOf(r)) # {}
  <2>1. PICK d : d \in Repeat(r) \intersect Days
    BY <1>1
  <2>2. 24 * d + Hour(r) \in FireHours(TimeOf(r))
    BY <2>1 DEF FireHours, TimeOf
  <2> QED
    BY <2>2
<1>3. OnTime(r)
  BY DEF AlarmsInv, StoredOnTime, Stored
<1> QED
  BY <1>2, <1>3 DEF OnTime

\* The step that CleanWriteStored is about is the arrival of a fragment 1 in
\* a coordinator that holds its fragment 0.
StoresCleanWrite ==
    \A w \in Writers :
        sent[w] = 1 /\ sent'[w] = 2 /\ clean'[w] /\ SlotsFor(writing[w]) # {}
            => \E s \in Slots : stored'[s] = writing[w]

\* A fragment 1 that arrives undisturbed completes the record it is of.
LEMMA CleanStep == AlarmsInv /\ [AlarmsNext]_alarmVars => StoresCleanWrite
<1> SUFFICES ASSUME AlarmsInv, [AlarmsNext]_alarmVars, NEW w \in Writers,
                    sent[w] = 1, sent'[w] = 2, clean'[w], SlotsFor(writing[w]) # {}
             PROVE  \E s \in Slots : stored'[s] = writing[w]
  BY DEF StoresCleanWrite
<1>0. /\ AlarmsTypeOK /\ WritingWritten /\ HeadUndisturbed
  BY DEF AlarmsInv
<1>1. sent' # sent
  OBVIOUS
<1>2. ASSUME NEW v \in Writers, NEW r, BeginWrite(v, r) PROVE FALSE
  BY <1>0, <1>2 DEF BeginWrite, AlarmsTypeOK
<1>3. ASSUME NEW v \in Writers, FragmentLost(v) PROVE FALSE
  BY <1>0, <1>3 DEF FragmentLost, AlarmsTypeOK
<1>4. ASSUME NEW v \in Writers, FragmentArrives(v)
      PROVE  \E s \in Slots : stored'[s] = writing[w]
  <2>1. v = w /\ clean[w]
    BY <1>0, <1>4 DEF FragmentArrives, AlarmsTypeOK
  <2>2. PICK t \in Records : t = writing[w]
    BY <1>0 DEF AlarmsTypeOK, WritingWritten, Busy
  <2>3. pending = HeadOf(t)
    BY <1>0, <2>1, <2>2 DEF HeadUndisturbed
  <2>4. GetsTail(Fragment1(t))
    BY <1>4, <2>1, <2>2 DEF FragmentArrives
  <2>5. Joined(pending, TailOf(t)) = t /\ pending # NoHead
    BY <2>3, JoinedAgain
  <2>6. PICK s \in SlotsFor(t) : stored' = [stored EXCEPT ![s] = t]
    BY <2>2, <2>4, <2>5 DEF GetsTail, Accepts, Fragment1
  <2>7. s \in Slots
    BY DEF SlotsFor
  <2> QED
    BY <1>0, <2>2, <2>6, <2>7 DEF AlarmsTypeOK
<1>5. ASSUME NEW t \in EditorsTimes, SaveAlarm(t) PROVE FALSE
  BY <1>1, <1>2, <1>5, WritersIn DEF SaveAlarm, writerVars
<1>6. CASE LoadAlarm
  BY <1>1, <1>6 DEF LoadAlarm, writerVars
<1>7. ASSUME NEW v \in OtherWriters, Toggle(v) PROVE FALSE
  BY <1>2, <1>7, WritersIn DEF Toggle
<1>8. ASSUME NEW v \in OtherWriters, NEW r \in Others, WriteOther(v, r) PROVE FALSE
  BY <1>2, <1>8, WritersIn DEF WriteOther
<1>9. ASSUME NEW s \in Slots, DeleteAlarm(s) PROVE FALSE
  BY <1>1, <1>9 DEF DeleteAlarm, writerVars
<1>10. CASE UNCHANGED alarmVars
  BY <1>1, <1>10 DEF alarmVars, writerVars
<1> QED
  BY <1>3, <1>4, <1>5, <1>6, <1>7, <1>8, <1>9, <1>10 DEF AlarmsNext

\* Nothing written yet, the invariant holds.
LEMMA AlarmsStart == Init /\ NoAlarms => AlarmsInv
<1> SUFFICES ASSUME Init, NoAlarms PROVE AlarmsInv
  OBVIOUS
<1>1. TypeOK /\ RecordConverted
  BY InitTime DEF TimeInv
<1>2. AlarmsTypeOK
  <2>1. 0 \in 0 .. MaxWrites
    BY AlarmsAssumption
  <2> QED
    BY <1>1, <2>1 DEF NoAlarms, AlarmsTypeOK
<1>3. Stored = {}
  BY DEF NoAlarms, Stored
<1> QED
  BY <1>1, <1>2, <1>3
  DEF NoAlarms, AlarmsInv, WritingWritten, Busy, HeadWritten, HeadUndisturbed,
      TornOnlyOnCollision, WrittenTimes, WritingOnTime, HeadOnTime, StoredOnTime, OneSlot

-----------------------------------------------------------------------------
(* Lists of groups (Groups)                                                *)

\* The values of a byte.
GroupBytes == 0 .. 255

\* The groups of a set that are below one.
Below(S, g) == {h \in S : h < g}

\* The groups below one are finitely many, and fewer than all.
LEMMA BelowCounted ==
    ASSUME NEW S \in SUBSET GroupBytes, NEW g \in S
    PROVE  /\ IsFiniteSet(S) /\ Cardinality(S) \in Nat
           /\ IsFiniteSet(Below(S, g)) /\ Cardinality(Below(S, g)) \in Nat
           /\ Cardinality(Below(S, g)) < Cardinality(S)
           /\ Cardinality(Below(S, g) \union {g}) = Cardinality(Below(S, g)) + 1
<1>1. IsFiniteSet(GroupBytes)
  <2>1. \A b \in Int : IsFiniteSet(0 .. b)
    BY FS_Interval
  <2>2. 255 \in Int
    OBVIOUS
  <2> QED
    BY <2>1, <2>2, Zenon DEF GroupBytes
<1>2. IsFiniteSet(S) /\ Cardinality(S) \in Nat
  BY <1>1, FS_Subset, FS_CardinalityType
<1>3. Below(S, g) \in SUBSET S /\ g \notin Below(S, g)
  BY DEF Below, GroupBytes
<1>4. IsFiniteSet(Below(S, g)) /\ Cardinality(Below(S, g)) \in Nat
  BY <1>2, <1>3, FS_Subset, FS_CardinalityType
<1>5. Cardinality(Below(S, g) \union {g}) = Cardinality(Below(S, g)) + 1
  BY <1>3, <1>4, FS_AddElement
<1>6. Cardinality(Below(S, g) \union {g}) <= Cardinality(S)
  <2>1. Below(S, g) \union {g} \in SUBSET S
    BY <1>3
  <2> QED
    BY <1>2, <2>1, FS_Subset
<1> QED
  BY <1>2, <1>4, <1>5, <1>6

\* Of two groups the greater has more below it.
LEMMA MoreBelow ==
    ASSUME NEW S \in SUBSET GroupBytes, NEW g \in S, NEW h \in S, g < h
    PROVE  Cardinality(Below(S, g)) < Cardinality(Below(S, h))
<1>0. S \subseteq Int
  BY DEF GroupBytes
<1>1. Below(S, g) \union {g} \in SUBSET Below(S, h)
  <2>1. \A x \in S : x < g \/ x = g => x < h
    BY <1>0
  <2> QED
    BY <2>1 DEF Below
<1>2. IsFiniteSet(Below(S, h))
  BY BelowCounted
<1>3. Cardinality(Below(S, g) \union {g}) <= Cardinality(Below(S, h))
  BY <1>1, <1>2, FS_Subset
<1>4. Cardinality(Below(S, g)) + 1 <= Cardinality(Below(S, h))
  BY <1>3, BelowCounted
<1>5. Cardinality(Below(S, g)) \in Nat /\ Cardinality(Below(S, h)) \in Nat
  BY BelowCounted
<1> QED
  BY <1>4, <1>5

\* Every number below that of the groups counts those below one of them.
LEMMA RankTaken ==
    ASSUME NEW S \in SUBSET GroupBytes, NEW k \in Nat, IsFiniteSet(S), k < Cardinality(S)
    PROVE  \E g \in S : Cardinality(Below(S, g)) = k
<1> DEFINE K == {n \in Nat : n < Cardinality(S) => \E g \in S : Cardinality(Below(S, g)) = n}
<1>0. Cardinality(S) \in Nat
  BY FS_CardinalityType
<1>s. S \subseteq Nat
  BY DEF GroupBytes
<1>1. 0 \in K
  <2> SUFFICES ASSUME 0 < Cardinality(S) PROVE \E g \in S : Cardinality(Below(S, g)) = 0
    OBVIOUS
  <2>1. S # {}
    BY FS_EmptySet
  <2>2. PICK g \in S : \A h \in S : g <= h
    BY <1>s, <2>1, Least
  <2>3. Below(S, g) = {}
    <3>1. \A h \in S : ~(h < g)
      BY <1>s, <2>2
    <3> QED
      BY <3>1 DEF Below
  <2> QED
    BY <2>3, FS_EmptySet
<1>2. ASSUME NEW n \in Nat, n \in K PROVE n + 1 \in K
  <2> SUFFICES ASSUME n + 1 < Cardinality(S)
               PROVE  \E g \in S : Cardinality(Below(S, g)) = n + 1
    OBVIOUS
  <2>1. PICK g \in S : Cardinality(Below(S, g)) = n
    BY <1>0, <1>2
  <2> DEFINE above == {h \in S : g < h}
  <2>2. above # {}
    <3> SUFFICES ASSUME above = {} PROVE FALSE
      OBVIOUS
    <3>1. S = Below(S, g) \union {g}
      <4>1. \A h \in S : h < g \/ h = g
        BY <1>s
      <4> QED
        BY <4>1 DEF Below
    <3> QED
      BY <1>0, <2>1, <3>1, BelowCounted
  <2>3. PICK m \in above : \A h \in above : m <= h
    <3>1. above \in SUBSET Nat
      BY <1>s
    <3> HIDE DEF above
    <3> QED
      BY <2>2, <3>1, Least
  <2>4. Below(S, m) = Below(S, g) \union {g}
    <3>1. \A h \in S : h < m <=> h < g \/ h = g
      BY <1>s, <2>3
    <3> QED
      BY <3>1 DEF Below
  <2> QED
    BY <2>1, <2>3, <2>4, BelowCounted
<1> HIDE DEF K
<1>3. k \in K
  BY <1>1, <1>2, InductionOnNat
<1> QED
  BY <1>3 DEF K

\* The bytes of groups are numbers, and 0 is one of them.
LEMMA GroupBytesAreNumbers == GroupBytes \subseteq Nat /\ 0 \in GroupBytes
BY DEF GroupBytes

\* The ascending order of a set has its groups and no others.
LEMMA AscendingIs ==
    ASSUME NEW S \in SUBSET GroupBytes, NEW a, a = Ascending(S)
    PROVE  a \in Seq(GroupBytes) /\ Range(a) = S
<1> DEFINE n == Cardinality(S)
<1>0. IsFiniteSet(S) /\ n \in Nat
  <2>1. CASE S = {}
    BY <2>1, FS_EmptySet
  <2>2. CASE S # {}
    BY <2>2, BelowCounted
  <2> QED
    BY <2>1, <2>2
<1>1. a = [i \in 1 .. n |-> CHOOSE g \in S : Cardinality(Below(S, g)) = i - 1]
  BY DEF Ascending, Below
<1>2. ASSUME NEW i \in 1 .. n
      PROVE  a[i] \in S /\ Cardinality(Below(S, a[i])) = i - 1
  <2>1. i - 1 \in Nat /\ i - 1 < n
    BY <1>0
  <2>2. \E g \in S : Cardinality(Below(S, g)) = i - 1
    BY <1>0, <2>1, RankTaken
  <2> QED
    BY <1>1, <2>2
<1>3. a \in Seq(GroupBytes) /\ DOMAIN a = 1 .. n
  <2>1. \A i \in 1 .. n : a[i] \in GroupBytes
    BY <1>2
  <2>2. a = [i \in 1 .. n |-> a[i]]
    BY <1>1
  <2> HIDE DEF n
  <2>3. a \in [1 .. n -> GroupBytes]
    BY <2>1, <2>2
  <2> QED
    BY <1>0, <2>3
<1>4. ASSUME NEW g \in S PROVE \E i \in DOMAIN a : a[i] = g
  <2>1. Cardinality(Below(S, g)) \in Nat /\ Cardinality(Below(S, g)) < n
    BY BelowCounted
  <2>2. PICK i \in 1 .. n : i - 1 = Cardinality(Below(S, g))
    <3>1. Cardinality(Below(S, g)) + 1 \in 1 .. n
      BY <1>0, <2>1
    <3>2. (Cardinality(Below(S, g)) + 1) - 1 = Cardinality(Below(S, g))
      BY <2>1
    <3> QED
      BY <3>1, <3>2
  <2>3. a[i] \in S /\ Cardinality(Below(S, a[i])) = Cardinality(Below(S, g))
    BY <1>2, <2>2
  <2>4. ~(a[i] < g) /\ ~(g < a[i])
    BY <2>1, <2>3, MoreBelow
  <2>5. a[i] \in Int /\ g \in Int
    <3>1. PICK x \in S : x = a[i]
      BY <2>3
    <3>2. x \in Int /\ g \in Int
      BY GroupBytesAreNumbers
    <3> QED
      BY <3>1, <3>2
  <2>6. a[i] = g
    BY <2>4, <2>5
  <2> QED
    BY <1>3, <2>6
<1> QED
  BY <1>2, <1>3, <1>4 DEF Range

\* The descending order has the groups of the ascending one.
LEMMA ReverseIs ==
    ASSUME NEW a \in Seq(GroupBytes), NEW b, b = Reverse(a)
    PROVE  b \in Seq(GroupBytes) /\ Range(b) = Range(a)
<1> DEFINE n == Len(a)
<1>1. n \in Nat /\ DOMAIN a = 1 .. n /\ \A i \in 1 .. n : a[i] \in GroupBytes
  OBVIOUS
<1>2. b = [i \in 1 .. n |-> a[(n - i) + 1]]
  BY DEF Reverse
<1> HIDE DEF n
<1>3. \A i \in 1 .. n : (n - i) + 1 \in 1 .. n /\ (n - ((n - i) + 1)) + 1 = i
  BY <1>1
<1>4. b \in [1 .. n -> GroupBytes]
  BY <1>1, <1>2, <1>3
<1>5. b \in Seq(GroupBytes) /\ DOMAIN b = 1 .. n
  BY <1>1, <1>4
<1>6. \A i \in 1 .. n : b[i] = a[(n - i) + 1] /\ a[i] = b[(n - i) + 1]
  BY <1>2, <1>3
<1>7. \A i \in 1 .. n : (\E j \in 1 .. n : b[i] = a[j]) /\ (\E j \in 1 .. n : a[i] = b[j])
  BY <1>3, <1>6
<1>8. Range(b) = {b[i] : i \in 1 .. n} /\ Range(a) = {a[i] : i \in 1 .. n}
  BY <1>1, <1>5, Zenon DEF Range
<1>9. {b[i] : i \in 1 .. n} = {a[i] : i \in 1 .. n}
  <2>1. ASSUME NEW x \in {b[i] : i \in 1 .. n} PROVE x \in {a[i] : i \in 1 .. n}
    <3>1. PICK i \in 1 .. n : x = b[i]
      OBVIOUS
    <3>2. PICK j \in 1 .. n : b[i] = a[j]
      BY <1>7, <3>1
    <3> QED
      BY <3>1, <3>2
  <2>2. ASSUME NEW x \in {a[i] : i \in 1 .. n} PROVE x \in {b[i] : i \in 1 .. n}
    <3>1. PICK i \in 1 .. n : x = a[i]
      OBVIOUS
    <3>2. PICK j \in 1 .. n : a[i] = b[j]
      BY <1>7, <3>1
    <3> QED
      BY <3>1, <3>2
  <2> QED
    BY <2>1, <2>2
<1> QED
  BY <1>5, <1>8, <1>9

\* A list that is read back is one of groups, and the whole of it if it has no
\* terminator and does not fill the room.
LEMMA ParsedIs ==
    ASSUME NEW o \in Seq(GroupBytes), NEW l, l = ParseGroupMembership(Answer(o))
    PROVE  /\ l \in Seq(GroupBytes)
           /\ Range(o) \intersect Terminators = {} /\ Len(l) < Room => l = o
<1> DEFINE p == Answer(o)
           stops == {i \in 1 .. PayloadLen : p[i] \in Terminators}
<1>0. Len(o) \in Nat /\ DOMAIN o = 1 .. Len(o) /\ \A i \in 1 .. Len(o) : o[i] \in GroupBytes
  OBVIOUS
<1>1. /\ p \in Seq(GroupBytes) /\ Len(p) = 10
      /\ \A i \in 1 .. 10 : p[i] = IF i <= Len(o) THEN o[i] ELSE 0
  <2>1. p = [i \in 1 .. 10 |-> IF i <= Len(o) THEN o[i] ELSE 0]
    BY DEF Answer, PayloadLen
  <2>2. \A i \in 1 .. 10 : (IF i <= Len(o) THEN o[i] ELSE 0) \in GroupBytes
    <3> TAKE i \in 1 .. 10
    <3>1. CASE i <= Len(o)
      <4>1. i \in 1 .. Len(o)
        BY <1>0, <3>1
      <4> QED
        BY <1>0, <3>1, <4>1
    <3>2. CASE ~(i <= Len(o))
      BY <3>2, GroupBytesAreNumbers
    <3> QED
      BY <3>1, <3>2
  <2> QED
    BY <2>1, <2>2
<1> HIDE DEF p
<1>2. l = IF stops = {} THEN p ELSE SubSeq(p, 1, Min(stops) - 1)
  BY DEF ParseGroupMembership, p
<1>3. stops # {} => Min(stops) \in stops /\ \A i \in stops : Min(stops) <= i
  <2>1. stops \in SUBSET Nat
    BY DEF PayloadLen
  <2> HIDE DEF stops
  <2> QED
    BY <2>1, Least DEF Min
<1>4. stops \subseteq 1 .. 10
  BY DEF PayloadLen
<1>5. l \in Seq(GroupBytes)
  <2>1. CASE stops = {}
    BY <1>1, <1>2, <2>1
  <2>2. CASE stops # {}
    <3>1. PICK m \in 1 .. 10 : m = Min(stops)
      BY <1>3, <1>4, <2>2
    <3>2. l = SubSeq(p, 1, m - 1)
      BY <1>2, <2>2, <3>1
    <3>3. 1 \in Int /\ m - 1 \in Int /\ \A i \in 1 .. (m - 1) : p[i] \in GroupBytes
      <4>1. \A i \in 1 .. (m - 1) : i \in 1 .. 10
        OBVIOUS
      <4>2. \A i \in 1 .. 10 : p[i] \in GroupBytes
        <5>1. DOMAIN p = 1 .. 10
          BY <1>1
        <5> QED
          BY <1>1, <5>1, ElementOfSeq
      <4> QED
        BY <4>1, <4>2
    <3> QED
      BY <3>2, <3>3, SubSeqProperties
  <2> QED
    BY <2>1, <2>2
<1>6. ASSUME Range(o) \intersect Terminators = {}, Len(l) < Room
      PROVE  l = o
  <2>1. \A i \in 1 .. Len(o) : o[i] \notin Terminators
    BY <1>0, <1>6 DEF Range
  <2>2. stops # {}
    <3>1. Room = 8
      BY DEF Room, PlaintextLen, HeaderLen
    <3>2. ~(Len(p) < Room)
      BY <1>1, <3>1
    <3> QED
      BY <1>2, <1>6, <3>2
  <2>3. Len(o) < 10
    <3>1. PICK i \in 1 .. 10 : p[i] \in Terminators
      BY <2>2 DEF PayloadLen
    <3>2. ~(i <= Len(o))
      BY <1>0, <1>1, <2>1, <3>1
    <3> QED
      BY <1>0, <3>2
  <2>4. Len(o) + 1 \in stops
    BY <1>0, <1>1, <2>3 DEF PayloadLen, Terminators
  <2>5. \A i \in stops : Len(o) + 1 <= i
    BY <1>0, <1>1, <2>1 DEF PayloadLen
  <2>6. Min(stops) = Len(o) + 1
    <3>1. Min(stops) <= Len(o) + 1 /\ Len(o) + 1 <= Min(stops) /\ Min(stops) \in Int
      BY <1>3, <1>4, <2>2, <2>4, <2>5
    <3> QED
      BY <1>0, <3>1
  <2>7. l = SubSeq(p, 1, Len(o))
    <3>1. (Len(o) + 1) - 1 = Len(o)
      BY <1>0
    <3> QED
      BY <1>2, <2>2, <2>6, <3>1
  <2>8. Len(l) = Len(o) /\ \A i \in 1 .. Len(o) : l[i] = p[i]
    BY <1>0, <1>1, <2>3, <2>7
  <2>9. \A i \in 1 .. Len(o) : l[i] = o[i]
    BY <1>0, <1>1, <2>3, <2>8
  <2> QED
    BY <1>5, <2>8, <2>9, SeqEqual
<1> QED
  BY <1>5, <1>6

\* A part of a list, or nothing.
LEMMA PartIs ==
    ASSUME NEW l \in Seq(GroupBytes), NEW f \in Nat, NEW t \in Nat,
           1 <= f, f <= t + 1, t <= Len(l), NEW c, c = SubSeq(l, f, t)
    PROVE  /\ c \in Seq(GroupBytes) /\ Len(c) = (t - f) + 1
           /\ \A i \in 1 .. (t - f) + 1 : c[i] = l[(f + i) - 1]
<1>1. \A i \in f .. t : i \in 1 .. Len(l)
  BY LenProperties
<1>2. \A i \in f .. t : l[i] \in GroupBytes
  BY <1>1, ElementOfSeq
<1>3. f \in Int /\ t \in Int
  OBVIOUS
<1>4. /\ c \in Seq(GroupBytes)
      /\ Len(c) = IF f <= t THEN t - f + 1 ELSE 0
      /\ \A i \in 1 .. t - f + 1 : c[i] = l[f + i - 1]
  BY <1>2, <1>3, SubSeqProperties
<1> QED
  BY <1>4

\* What is left of a list when a group is taken out of it.
LEMMA RemovedIs ==
    ASSUME NEW l \in Seq(GroupBytes), NEW g, NEW b, b = RemoveFirst(l, g)
    PROVE  /\ b \in Seq(GroupBytes) /\ Len(b) <= Len(l)
           /\ Range(b) \subseteq Range(l) /\ Range(l) \subseteq Range(b) \union {g}
<1> DEFINE n == Len(l)
           found == {i \in 1 .. Len(l) : l[i] = g}
<1>0. n \in Nat /\ DOMAIN l = 1 .. n
  OBVIOUS
<1>1. CASE found = {}
  <2>1. b = l
    BY <1>1 DEF RemoveFirst
  <2> QED
    BY <1>0, <2>1
<1>2. CASE found # {}
  <2>1. b = RemoveAt(l, Min(found))
    BY <1>2 DEF RemoveFirst, SelectInSeq
  <2>2. Min(found) \in found
    <3>1. found \in SUBSET Nat
      OBVIOUS
    <3> HIDE DEF found
    <3> QED
      BY <1>2, <3>1, Least DEF Min
  <2>3. PICK k \in 1 .. n : k = Min(found) /\ l[k] = g
    BY <2>2
  <2>4. b = SubSeq(l, 1, k - 1) \o SubSeq(l, k + 1, n)
    BY <2>1, <2>3 DEF RemoveAt
  <2>5. PICK c : c = SubSeq(l, 1, k - 1)
    OBVIOUS
  <2>6. PICK d : d = SubSeq(l, k + 1, n)
    OBVIOUS
  <2>7. b = c \o d
    BY <2>4, <2>5, <2>6
  <2>c. /\ c \in Seq(GroupBytes) /\ Len(c) = k - 1
        /\ \A i \in 1 .. (k - 1) : c[i] = l[i]
    <3>1. k - 1 \in Nat /\ 1 <= (k - 1) + 1 /\ k - 1 <= Len(l) /\ ((k - 1) - 1) + 1 = k - 1
      BY <1>0
    <3>2. \A i \in 1 .. (k - 1) : (1 + i) - 1 = i
      BY <1>0
    <3>3. /\ c \in Seq(GroupBytes) /\ Len(c) = ((k - 1) - 1) + 1
          /\ \A i \in 1 .. ((k - 1) - 1) + 1 : c[i] = l[(1 + i) - 1]
      BY <2>5, <3>1, PartIs
    <3> QED
      BY <3>1, <3>2, <3>3
  <2>d. /\ d \in Seq(GroupBytes) /\ Len(d) = n - k
        /\ \A i \in 1 .. (n - k) : d[i] = l[k + i]
    <3>1. PICK f \in Nat : f = k + 1
      OBVIOUS
    <3>2. PICK t \in Nat : t = n
      BY <1>0
    <3>3. 1 <= f /\ f <= t + 1 /\ t <= Len(l) /\ (t - f) + 1 = n - k
      BY <1>0, <3>1, <3>2
    <3>4. \A i \in 1 .. (n - k) : (f + i) - 1 = k + i
      BY <1>0, <3>1
    <3>5. d = SubSeq(l, f, t)
      BY <2>6, <3>1, <3>2
    <3>6. /\ d \in Seq(GroupBytes) /\ Len(d) = (t - f) + 1
          /\ \A i \in 1 .. (t - f) + 1 : d[i] = l[(f + i) - 1]
      BY <3>3, <3>5, PartIs
    <3> QED
      BY <3>3, <3>4, <3>6
  <2>8. (k - 1) + (n - k) = n - 1 /\ n - 1 \in Nat /\ n \in Nat
    BY <1>0
  <2>9. /\ b \in Seq(GroupBytes) /\ Len(b) = n - 1 /\ DOMAIN b = 1 .. (n - 1)
        /\ \A i \in 1 .. (n - 1) : b[i] = IF i <= k - 1 THEN c[i] ELSE d[i - (k - 1)]
    <3>1. b \in Seq(GroupBytes) /\ Len(b) = Len(c) + Len(d)
      BY <2>7, <2>c, <2>d, JoinedLists
    <3>2. \A i \in 1 .. Len(c) + Len(d) : b[i] = IF i <= Len(c) THEN c[i] ELSE d[i - Len(c)]
      <4>1. \A i \in 1 .. (Len(c) + Len(d)) :
               (c \o d)[i] = IF i <= Len(c) THEN c[i] ELSE d[i - Len(c)]
        BY <2>c, <2>d, JoinedLists
      <4> QED
        BY <2>7, <4>1
    <3>3. Len(c) + Len(d) = n - 1
      BY <2>c, <2>d, <2>8
    <3>4. DOMAIN b = 1 .. (n - 1)
      BY <3>1, <3>3, LenProperties
    <3> QED
      BY <2>c, <3>1, <3>2, <3>3, <3>4
  <2>11. \A i \in 1 .. (n - 1) : b[i] = IF i < k THEN l[i] ELSE l[i + 1]
    <3> TAKE i \in 1 .. (n - 1)
    <3>1. CASE i < k
      <4>1. i <= k - 1 /\ i \in 1 .. (k - 1)
        BY <2>8, <3>1
      <4> QED
        BY <2>9, <2>c, <3>1, <4>1
    <3>2. CASE ~(i < k)
      <4>1. ~(i <= k - 1) /\ i - (k - 1) \in 1 .. (n - k) /\ k + (i - (k - 1)) = i + 1
        BY <2>8, <3>2
      <4>2. d[i - (k - 1)] = l[i + 1]
        BY <2>d, <4>1
      <4> QED
        BY <2>9, <3>2, <4>1, <4>2
    <3> QED
      BY <3>1, <3>2
  <2>12. ASSUME NEW i \in 1 .. (n - 1) PROVE b[i] \in Range(l)
    <3>1. PICK j \in 1 .. n : b[i] = l[j]
      <4>1. i \in 1 .. n /\ i + 1 \in 1 .. n
        BY <2>8
      <4> QED
        BY <2>11, <4>1
    <3> QED
      BY <1>0, <3>1 DEF Range
  <2>13. ASSUME NEW i \in 1 .. n, l[i] # g PROVE l[i] \in Range(b)
    <3>1. i # k
      BY <2>3, <2>13
    <3>2. PICK j \in 1 .. (n - 1) : b[j] = l[i]
      <4>1. CASE i < k
        BY <1>0, <2>11, <4>1
      <4>2. CASE i > k
        <5>1. i - 1 \in 1 .. (n - 1) /\ ~(i - 1 < k) /\ (i - 1) + 1 = i
          BY <1>0, <4>2
        <5> QED
          BY <2>11, <5>1
      <4> QED
        BY <1>0, <3>1, <4>1, <4>2
    <3> QED
      BY <2>9, <3>2 DEF Range
  <2>14. DOMAIN b = 1 .. (n - 1) /\ DOMAIN l = 1 .. n
    BY <1>0, <2>9
  <2>15. Range(b) \subseteq Range(l)
    <3>1. \A e \in Range(b) : \E i \in 1 .. (n - 1) : e = b[i]
      BY <2>14, Zenon DEF Range
    <3> QED
      BY <2>12, <3>1, Zenon
  <2>16. Range(l) \subseteq Range(b) \union {g}
    <3>1. \A e \in Range(l) : \E i \in 1 .. n : e = l[i]
      BY <2>14, Zenon DEF Range
    <3> QED
      BY <2>13, <3>1, Zenon
  <2>17. Len(b) <= Len(l)
    BY <1>0, <2>9
  <2> QED
    BY <2>9, <2>15, <2>16, <2>17, Zenon
<1> QED
  BY <1>1, <1>2

\* What the device receives of a list: groups, and all of those there is room
\* for.
LEMMA ReceivedIs ==
    ASSUME NEW l \in Seq(GroupBytes), NEW r, r = Received(Encoded(SetGroupMembership(l)))
    PROVE  r \subseteq GroupBytes /\ (Len(l) <= Room => r = Range(l))
<1> DEFINE n == Len(l)
<1>0. n \in Nat /\ DOMAIN l = 1 .. n /\ Room = 8
  BY LenProperties DEF Room, PlaintextLen, HeaderLen
<1>1. PICK m \in Nat : m = Min({n, Room}) /\ m <= n /\ m <= Room /\ (n <= Room => m = n)
  <2>1. {n, Room} \in SUBSET Nat /\ {n, Room} # {}
    BY <1>0
  <2>2. Min({n, Room}) \in {n, Room} /\ \A o \in {n, Room} : Min({n, Room}) <= o
    BY <2>1, Least DEF Min
  <2>3. PICK k : k = Min({n, Room})
    OBVIOUS
  <2> HIDE DEF n
  <2>4. (k = n \/ k = 8) /\ k <= n /\ k <= 8
    BY <1>0, <2>2, <2>3
  <2>5. k \in Nat /\ k <= n /\ k <= 8 /\ (n <= 8 => k = n)
    BY <1>0, <2>4
  <2> QED
    BY <1>0, <2>3, <2>5
<1>2. PICK c : c = SubSeq(l, 1, m)
  OBVIOUS
<1>3. /\ c \in Seq(GroupBytes) /\ Len(c) = m
      /\ \A i \in 1 .. m : c[i] = l[i]
  <2>1. 1 <= m + 1 /\ m <= Len(l) /\ (m - 1) + 1 = m /\ \A i \in 1 .. m : (1 + i) - 1 = i
    BY <1>1
  <2>2. /\ c \in Seq(GroupBytes) /\ Len(c) = (m - 1) + 1
        /\ \A i \in 1 .. (m - 1) + 1 : c[i] = l[(1 + i) - 1]
    BY <1>2, <2>1, PartIs
  <2> QED
    BY <2>1, <2>2
<1>4. DOMAIN c = 1 .. m
  BY <1>3, LenProperties
<1>5. r = {c[i] : i \in {j \in DOMAIN c : j <= n % 256}}
  BY <1>1, <1>2 DEF Received, Encoded, SetGroupMembership
<1>6. r \subseteq GroupBytes
  <2>1. \A i \in DOMAIN c : c[i] \in GroupBytes
    BY <1>3, <1>4, ElementOfSeq
  <2> HIDE DEF n
  <2> QED
    BY <1>5, <2>1
<1>7. ASSUME n <= Room PROVE r = Range(l)
  <2>1. m = n /\ n % 256 = n
    <3>1. m = n /\ n <= 8
      BY <1>0, <1>1, <1>7
    <3> HIDE DEF n
    <3> QED
      BY <1>0, <3>1
  <2>2. {j \in DOMAIN c : j <= n % 256} = 1 .. n
    BY <1>0, <1>4, <2>1
  <2>3. r = {c[i] : i \in 1 .. n}
    BY <1>5, <2>2
  <2>4. \A i \in 1 .. n : c[i] = l[i]
    BY <1>3, <2>1
  <2>5. Range(l) = {l[i] : i \in 1 .. n}
    BY <1>0 DEF Range
  <2> HIDE DEF n
  <2> QED
    BY <2>3, <2>4, <2>5
<1> QED
  BY <1>6, <1>7

\* A group more.
LEMMA AppendedIs ==
    ASSUME NEW l \in Seq(GroupBytes), NEW g \in GroupBytes, NEW b, b = Append(l, g)
    PROVE  b \in Seq(GroupBytes) /\ Len(b) = Len(l) + 1 /\ Range(b) = Range(l) \union {g}
<1> DEFINE n == Len(l)
<1>1. n \in Nat /\ DOMAIN l = 1 .. n
  BY LenProperties
<1>2. /\ b \in Seq(GroupBytes) /\ Len(b) = n + 1
      /\ (\A i \in 1 .. n : b[i] = l[i]) /\ b[n + 1] = g
  BY AppendProperties
<1>3. DOMAIN b = 1 .. (n + 1)
  BY <1>2, LenProperties
<1> HIDE DEF n
<1>4. ASSUME NEW x \in Range(b) PROVE x \in Range(l) \union {g}
  <2>1. PICK i \in 1 .. (n + 1) : x = b[i]
    BY <1>3 DEF Range
  <2>2. CASE i = n + 1
    BY <1>2, <2>1, <2>2
  <2>3. CASE i # n + 1
    <3>1. i \in 1 .. n
      BY <1>1, <2>3
    <3> QED
      BY <1>1, <1>2, <2>1, <3>1 DEF Range
  <2> QED
    BY <2>2, <2>3
<1>5. g \in Range(b)
  <2>1. n + 1 \in 1 .. (n + 1)
    BY <1>1
  <2> QED
    BY <1>2, <1>3, <2>1 DEF Range
<1>6. ASSUME NEW x \in Range(l) PROVE x \in Range(b)
  <2>1. PICK i \in 1 .. n : x = l[i]
    BY <1>1 DEF Range
  <2>2. i \in 1 .. (n + 1) /\ b[i] = l[i]
    BY <1>1, <1>2
  <2> QED
    BY <1>3, <2>1, <2>2 DEF Range
<1> QED
  BY <1>2, <1>4, <1>5, <1>6 DEF n

\* A list that was read whole, and is still true, has the groups of the device.
ReadWhole ==
    fresh /\ groups \intersect Terminators = {} /\ Len(list) < Room
        => Range(list) = groups

GroupsInv == GroupsTypeOK /\ ReadWhole

\* What a query reads.
LEMMA QueryReads ==
    ASSUME GroupsInv, QueryGroupMembership
    PROVE  GroupsInv'
<1>1. groups \in SUBSET GroupBytes /\ groups' = groups /\ fresh' = TRUE
  BY DEF GroupsInv, GroupsTypeOK, QueryGroupMembership, GroupBytes
<1>2. PICK a : a = Ascending(groups)
  OBVIOUS
<1>3. a \in Seq(GroupBytes) /\ Range(a) = groups
  BY <1>1, <1>2, AscendingIs
<1>4. PICK o \in {a, Reverse(a)} : list' = ParseGroupMembership(Answer(o))
  BY <1>2 DEF QueryGroupMembership
<1>5. o \in Seq(GroupBytes) /\ Range(o) = groups
  BY <1>3, <1>4, ReverseIs
<1>6. /\ list' \in Seq(GroupBytes)
      /\ groups \intersect Terminators = {} /\ Len(list') < Room => list' = o
  BY <1>4, <1>5, ParsedIs
<1>7. GroupsTypeOK'
  BY <1>1, <1>6 DEF GroupsTypeOK, GroupBytes
<1>8. ReadWhole'
  BY <1>1, <1>5, <1>6 DEF ReadWhole
<1> QED
  BY <1>7, <1>8 DEF GroupsInv

\* A list is written back.
LEMMA RewriteWrites ==
    ASSUME GroupsInv, NEW l \in Seq(GroupBytes), Rewrite(l)
    PROVE  GroupsInv'
<1>1. Received(Encoded(SetGroupMembership(l))) \subseteq GroupBytes
  BY ReceivedIs
<1>2. groups' \subseteq GroupBytes
  BY <1>1 DEF GroupsInv, GroupsTypeOK, Rewrite, GroupBytes
<1> QED
  BY <1>2 DEF GroupsInv, GroupsTypeOK, ReadWhole, Rewrite, GroupBytes

\* The lists the program writes back.
LEMMA ChangedIs ==
    ASSUME GroupsInv, list # NotRead, NEW g \in Wanted
    PROVE  /\ list \in Seq(GroupBytes) /\ g \in GroupBytes
           /\ Append(list, g) \in Seq(GroupBytes)
           /\ RemoveFirst(list, g) \in Seq(GroupBytes)
<1>1. list \in Seq(GroupBytes) /\ g \in GroupBytes
  BY GroupsAssumption DEF GroupsInv, GroupsTypeOK, GroupBytes
<1> QED
  BY <1>1, AppendedIs, RemovedIs

\* Every step of the group programs keeps their invariant.
LEMMA GroupsStep ==
    ASSUME GroupsInv, GroupsNext
    PROVE  GroupsInv'
<1>1. CASE QueryGroupMembership
  BY <1>1, QueryReads
<1>2. CASE \E g \in Wanted : AddGroup(g) \/ RemoveGroup(g)
  <2>1. PICK g \in Wanted : AddGroup(g) \/ RemoveGroup(g)
    BY <1>2
  <2>2. list # NotRead
    BY <2>1 DEF AddGroup, RemoveGroup
  <2>3. CASE AddGroup(g)
    BY <2>2, <2>3, ChangedIs, RewriteWrites DEF AddGroup
  <2>4. CASE RemoveGroup(g)
    BY <2>2, <2>4, ChangedIs, RewriteWrites DEF RemoveGroup
  <2> QED
    BY <2>1, <2>3, <2>4
<1>3. CASE \E gs \in OtherLists : OtherProgramSets(gs)
  <2>1. PICK gs \in OtherLists : groups' = gs /\ fresh' = FALSE /\ list' = list
    BY <1>3 DEF OtherProgramSets
  <2>2. groups' \subseteq 0 .. 255
    <3>1. gs \in SUBSET (0 .. 255)
      BY GroupsAssumption
    <3> QED
      BY <2>1, <3>1
  <2> QED
    BY <2>1, <2>2 DEF GroupsInv, GroupsTypeOK, ReadWhole
<1> QED
  BY <1>1, <1>2, <1>3 DEF GroupsNext

\* No list read yet, the invariant holds.
LEMMA GroupsStart ==
    ASSUME GroupsInit
    PROVE  GroupsInv
BY DEF GroupsInit, GroupsInv, GroupsTypeOK, ReadWhole

\* A list with one group more or less, written back, leaves the others.
LEMMA OthersKept ==
    ASSUME GroupsInv, NEW g \in Wanted, AddGroup(g) \/ RemoveGroup(g),
           fresh, groups \intersect Terminators = {}, Len(list) < Room
    PROVE  groups' \ {g} = groups \ {g}
<1>1. list # NotRead
  BY DEF AddGroup, RemoveGroup
<1>2. list \in Seq(GroupBytes) /\ g \in GroupBytes /\ Range(list) = groups
  BY <1>1, ChangedIs DEF GroupsInv, ReadWhole
<1>3. PICK l : /\ l = Append(list, g) \/ l = RemoveFirst(list, g)
               /\ Rewrite(l)
  BY DEF AddGroup, RemoveGroup
<1>4. /\ l \in Seq(GroupBytes) /\ Len(l) <= Len(list) + 1
      /\ Range(l) \ {g} = groups \ {g}
  <2>0. Len(list) \in Nat
    BY <1>2, LenProperties
  <2>1. CASE l = Append(list, g)
    <3>1. /\ l \in Seq(GroupBytes) /\ Len(l) = Len(list) + 1
          /\ Range(l) = Range(list) \union {g}
      BY <1>2, <2>1, AppendedIs
    <3>2. Range(l) \ {g} = groups \ {g}
      BY <1>2, <3>1
    <3> QED
      BY <2>0, <3>1, <3>2
  <2>2. CASE l = RemoveFirst(list, g)
    <3>1. /\ l \in Seq(GroupBytes) /\ Len(l) <= Len(list)
          /\ Range(l) \subseteq Range(list) /\ Range(list) \subseteq Range(l) \union {g}
      BY <1>2, <2>2, RemovedIs
    <3>2. Len(l) \in Nat
      BY <3>1, LenProperties
    <3> QED
      BY <1>2, <2>0, <3>1, <3>2
  <2> QED
    BY <1>3, <2>1, <2>2
<1>5. Len(l) <= Room
  <2>1. Len(l) \in Nat /\ Len(list) \in Nat
    BY <1>2, <1>4, LenProperties
  <2> QED
    BY <1>4, <2>1 DEF Room, PlaintextLen, HeaderLen
<1>6. Received(Encoded(SetGroupMembership(l))) = Range(l)
  BY <1>4, <1>5, ReceivedIs
<1>7. groups' = Range(l) \/ groups' = groups
  BY <1>3, <1>6 DEF Rewrite
<1> QED
  BY <1>4, <1>7

-----------------------------------------------------------------------------
(* Statuses (Statuses)                                                     *)

Tells(n, d, state) ==
    {s \in Parsed(n) : s.address = d} = {[address |-> d, on |-> state]}

\* A notification says one thing of a device: no broadcast has it twice.
SaysOnce(n) == \A r, s \in Parsed(n) : r.address = s.address => r = s

EachSaysOnce == \A i \in DOMAIN onAir : SaysOnce(onAir[i])

LatestTrue ==
    \A i \in DOMAIN onAir : \A d \in onAir[i].latest : Tells(onAir[i], d, d \in on)

MapCurrent ==
    \A d \in current : statuses[d] = IF d \in on THEN {TRUE} ELSE {FALSE}

RemembersOriginal ==
    /\ step \in {"on", "off", "look"} => ~sure
    /\ step \in {"toggle", "restore"} /\ sure => original = before

StatusesInv ==
    /\ StatusesTypeOK
    /\ EachSaysOnce
    /\ LatestTrue
    /\ MapCurrent
    /\ RemembersOriginal
    /\ RestoresWhatItFound

\* A notification that something newer was reported after says the same.
LEMMA OlderSaysTheSame ==
    ASSUME NEW n \in Notes, NEW D, NEW m, m = [n EXCEPT !.latest = n.latest \ D]
    PROVE  m \in Notes /\ Parsed(m) = Parsed(n) /\ m.latest = n.latest \ D
<1>1. CASE n \in [opcode : {"0xDB"}, source : Addresses, on : BOOLEAN, latest : SUBSET Addresses]
  BY <1>1 DEF Notes, Parsed, ParseDeviceStatus, ParseDeviceStatusBroadcast
<1>2. CASE n \in [opcode : {"0xDC"}, slots : Slot \X Slot, latest : SUBSET Addresses]
  BY <1>2 DEF Notes, Parsed, ParseDeviceStatus, ParseDeviceStatusBroadcast
<1> QED
  BY <1>1, <1>2 DEF Notes

\* What a report about D leaves of the notifications and of the truth of them.
LEMMA ReportedKeeps ==
    ASSUME StatusesTypeOK, EachSaysOnce, LatestTrue, NEW D, NEW n \in Notes, SaysOnce(n),
           Reported(D, n), on' \subseteq Addresses, n.latest \subseteq D,
           \A d \in Addresses \ D : d \in on' <=> d \in on,
           \A d \in D : Tells(n, d, d \in on')
    PROVE  /\ onAir' \in Seq(Notes) /\ Len(onAir') <= MaxOnAir
           /\ current' = current \ D
           /\ EachSaysOnce' /\ LatestTrue'
<1>0. /\ onAir \in Seq(Notes) /\ Len(onAir) <= MaxOnAir /\ Len(onAir) \in Nat
      /\ DOMAIN onAir = 1 .. Len(onAir)
  BY DEF StatusesTypeOK
<1> DEFINE m(i) == [onAir[i] EXCEPT !.latest = @ \ D]
           older == [i \in DOMAIN onAir |-> m(i)]
<1>1. ASSUME NEW i \in 1 .. Len(onAir)
      PROVE  m(i) \in Notes /\ Parsed(m(i)) = Parsed(onAir[i]) /\ m(i).latest = onAir[i].latest \ D
  <2>1. onAir[i] \in Notes
    BY <1>0
  <2>2. PICK a \in Notes : a = onAir[i]
    BY <2>1
  <2>3. PICK b : b = m(i)
    OBVIOUS
  <2>4. b = [a EXCEPT !.latest = a.latest \ D]
    BY <2>2, <2>3
  <2>5. b \in Notes /\ Parsed(b) = Parsed(a) /\ b.latest = a.latest \ D
    BY <2>4, OlderSaysTheSame
  <2> QED
    BY <2>2, <2>3, <2>5, Zenon
<1>2. older \in Seq(Notes) /\ Len(older) = Len(onAir)
      /\ \A i \in 1 .. Len(onAir) : older[i] = m(i)
  BY <1>0, <1>1
<1>3. onAir' = IF Len(onAir) < MaxOnAir THEN Append(older, n) ELSE older
  BY DEF Reported
<1>4. current' = current \ D
  BY DEF Reported
<1>5. ASSUME NEW i \in DOMAIN onAir, NEW d \in m(i).latest
      PROVE  Tells(m(i), d, d \in on')
  <2>1. d \in onAir[i].latest /\ d \notin D /\ d \in Addresses
    <3>1. onAir[i] \in Notes
      BY <1>0
    <3>2. onAir[i].latest \subseteq Addresses
      BY <3>1 DEF Notes
    <3> QED
      BY <1>0, <1>1, <1>5, <3>2
  <2>2. Tells(onAir[i], d, d \in on)
    BY <2>1 DEF LatestTrue
  <2> QED
    BY <1>0, <1>1, <2>1, <2>2 DEF Tells
<1> HIDE DEF m, older
<1>6. ASSUME NEW i \in DOMAIN onAir'
      PROVE  (i \in DOMAIN onAir /\ onAir'[i] = m(i)) \/ onAir'[i] = n
  BY <1>0, <1>2, <1>3, <1>6
<1>7. LatestTrue'
  <2> SUFFICES ASSUME NEW i \in DOMAIN onAir', NEW d \in onAir'[i].latest
               PROVE  Tells(onAir'[i], d, d \in on')
    BY DEF LatestTrue
  <2>1. CASE onAir'[i] = n
    BY <2>1
  <2>2. CASE i \in DOMAIN onAir /\ onAir'[i] = m(i)
    BY <2>2, <1>5
  <2> QED
    BY <1>6, <2>1, <2>2
<1>9. EachSaysOnce'
  <2> SUFFICES ASSUME NEW i \in DOMAIN onAir' PROVE SaysOnce(onAir'[i])
    BY DEF EachSaysOnce
  <2>1. i \in DOMAIN onAir => SaysOnce(m(i))
    BY <1>0, <1>1 DEF EachSaysOnce, SaysOnce
  <2> QED
    BY <1>6, <2>1
<1>8. onAir' \in Seq(Notes) /\ Len(onAir') <= MaxOnAir
  BY <1>0, <1>2, <1>3, StatusesAssumption
<1> QED
  BY <1>4, <1>7, <1>8, <1>9

\* A device is in a set or it is not.
LEMMA Decided == \A S, d : (d \in S) \in BOOLEAN
OBVIOUS

\* The reports there are tell what the devices they are about are.
LEMMA PollTells ==
    ASSUME NEW d \in Addresses, NEW x \in BOOLEAN, NEW n,
           n = [opcode |-> "0xDB", source |-> d, on |-> x, latest |-> {d}]
    PROVE  n \in Notes /\ n.latest = {d} /\ SaysOnce(n) /\ Tells(n, d, x)
BY DEF SaysOnce, Notes, Tells, Parsed, ParseDeviceStatus, ParseDeviceStatusBroadcast

\* A broadcast with one device, in either slot, tells what it is.
LEMMA BroadcastTells ==
    ASSUME NEW d \in Addresses, NEW x \in BOOLEAN, NEW n,
           \/ n = Broadcast({d}, [address |-> d, on |-> x], Empty)
           \/ n = Broadcast({d}, Empty, [address |-> d, on |-> x])
    PROVE  n \in Notes /\ n.latest = {d} /\ SaysOnce(n) /\ Tells(n, d, x)
<1>1. [address |-> d, on |-> x] \in Slot /\ Empty \in Slot
  BY DEF Slot
<1>2. [address |-> d, on |-> x] # Empty
  BY StatusesAssumption DEF Empty
<1>3. n \in Notes /\ n.latest = {d}
  BY <1>1 DEF Notes, Broadcast
<1>4. Parsed(n) = {[address |-> d, on |-> x]}
  BY <1>2 DEF Parsed, ParseDeviceStatus, ParseDeviceStatusBroadcast, Broadcast
<1> QED
  BY <1>3, <1>4 DEF Tells, SaysOnce

\* Of two statuses, the ones of either device.
LEMMA OneOfTwo ==
    ASSUME NEW A, NEW B, A.address # B.address
    PROVE  /\ {s \in {A, B} : s.address = A.address} = {A}
           /\ {s \in {A, B} : s.address = B.address} = {B}
OBVIOUS

\* A broadcast with two devices tells what both are.
LEMMA BothTold ==
    ASSUME NEW a \in Addresses, NEW b \in Addresses, a # b,
           NEW x \in BOOLEAN, NEW y \in BOOLEAN, NEW A, NEW B, NEW D, NEW n,
           D = {a, b}, A = [address |-> a, on |-> x], B = [address |-> b, on |-> y],
           n = Broadcast(D, A, B)
    PROVE  n \in Notes /\ n.latest = D /\ SaysOnce(n)
           /\ Tells(n, a, x) /\ Tells(n, b, y)
<1>1. A = [address |-> a, on |-> x] /\ B = [address |-> b, on |-> y]
  OBVIOUS
<1>2. A \in Slot /\ B \in Slot /\ A.address = a /\ B.address = b
  BY <1>1 DEF Slot
<1>3. A # Empty /\ B # Empty
  BY <1>1, StatusesAssumption DEF Empty
<1>4. n = Broadcast(D, A, B)
  OBVIOUS
<1>5. n \in Notes /\ n.latest = D
  BY <1>2, <1>4 DEF Notes, Broadcast
<1>6. Parsed(n) = {A, B}
  BY <1>3, <1>4 DEF Parsed, ParseDeviceStatus, ParseDeviceStatusBroadcast, Broadcast
<1>7. {s \in Parsed(n) : s.address = a} = {A} /\ {s \in Parsed(n) : s.address = b} = {B}
  BY <1>2, <1>6, OneOfTwo
<1>8. SaysOnce(n)
  BY <1>2, <1>6 DEF SaysOnce
<1> QED
  BY <1>1, <1>5, <1>7, <1>8 DEF Tells

\* A device that is switched, or not, leaves what is said of the devices true.
LEMMA SwitchedKeeps ==
    ASSUME StatusesTypeOK, EachSaysOnce, LatestTrue, MapCurrent, NEW d \in Addresses,
           NEW state \in BOOLEAN, Switched(d, state), UNCHANGED statuses
    PROVE  /\ on' \subseteq Addresses
           /\ onAir' \in Seq(Notes) /\ Len(onAir') <= MaxOnAir
           /\ current' \subseteq Addresses
           /\ EachSaysOnce' /\ LatestTrue' /\ MapCurrent'
           /\ d \in on' <=> state
<1>1. /\ on' \subseteq Addresses
      /\ \A e \in Addresses \ {d} : e \in on' <=> e \in on
      /\ d \in on' <=> state
  BY DEF Switched, StatusesTypeOK
<1>2. CASE on' = on
  <2>1. UNCHANGED <<onAir, current>>
    BY <1>2 DEF Switched
  <2> QED
    BY <1>1, <1>2, <2>1 DEF StatusesTypeOK, EachSaysOnce, LatestTrue, MapCurrent
<1>3. CASE on' # on
  <2>1. PICK n : n = Broadcast({d}, StatusOf(d), Empty)
    OBVIOUS
  <2>2. Reported({d}, n)
    BY <1>3, <2>1 DEF Switched, Reported
  <2>3. PICK x \in BOOLEAN : x = (d \in on')
    BY Decided
  <2>4. n = Broadcast({d}, [address |-> d, on |-> x], Empty)
    BY <2>1, <2>3 DEF StatusOf
  <2>5. n \in Notes /\ n.latest = {d} /\ SaysOnce(n) /\ Tells(n, d, d \in on')
    BY <2>3, <2>4, BroadcastTells
  <2>6. /\ onAir' \in Seq(Notes) /\ Len(onAir') <= MaxOnAir
        /\ current' = current \ {d}
        /\ EachSaysOnce' /\ LatestTrue'
    BY <1>1, <2>2, <2>5, ReportedKeeps
  <2>7. MapCurrent'
    BY <1>1, <2>6 DEF MapCurrent, StatusesTypeOK
  <2> QED
    BY <1>1, <2>6, <2>7 DEF StatusesTypeOK
<1> QED
  BY <1>2, <1>3

\* What is left after a removal was there before.
LEMMA RemovedElements ==
    ASSUME StatusesTypeOK, NEW i \in DOMAIN onAir
    PROVE  /\ RemoveAt(onAir, i) \in Seq(Notes)
           /\ Len(RemoveAt(onAir, i)) <= MaxOnAir
           /\ \A j \in DOMAIN RemoveAt(onAir, i) :
                 \E h \in DOMAIN onAir : RemoveAt(onAir, i)[j] = onAir[h]
<1>0. /\ onAir \in Seq(Notes) /\ Len(onAir) \in Nat /\ DOMAIN onAir = 1 .. Len(onAir)
      /\ i \in 1 .. Len(onAir)
      /\ Len(onAir) <= MaxOnAir
  BY DEF StatusesTypeOK
<1> DEFINE a == SubSeq(onAir, 1, i - 1)
           b == SubSeq(onAir, i + 1, Len(onAir))
<1>1. /\ a \in Seq(Notes) /\ Len(a) = i - 1
      /\ \A j \in 1 .. Len(a) : a[j] = onAir[j]
  BY <1>0
<1>2. /\ b \in Seq(Notes) /\ Len(b) = Len(onAir) - i
      /\ \A j \in 1 .. Len(b) : b[j] = onAir[i + j]
  BY <1>0
<1> HIDE DEF a, b
<1>3. /\ a \o b \in Seq(Notes) /\ Len(a \o b) = Len(onAir) - 1
      /\ \A j \in 1 .. (Len(onAir) - 1) :
            (a \o b)[j] = IF j <= i - 1 THEN a[j] ELSE b[j - (i - 1)]
  <2>1. PICK p \in Seq(Notes), q \in Seq(Notes) : p = a /\ q = b
    BY <1>1, <1>2
  <2>2. /\ p \o q \in Seq(Notes) /\ Len(p \o q) = Len(p) + Len(q)
        /\ \A j \in 1 .. (Len(p) + Len(q)) :
              (p \o q)[j] = IF j <= Len(p) THEN p[j] ELSE q[j - Len(p)]
    BY JoinedLists
  <2>3. Len(p) = i - 1 /\ Len(p) + Len(q) = Len(onAir) - 1
    <3>1. Len(p) = i - 1 /\ Len(q) = Len(onAir) - i
      BY <1>1, <1>2, <2>1, Zenon
    <3>2. i \in Int /\ Len(onAir) \in Int /\ (i - 1) + (Len(onAir) - i) = Len(onAir) - 1
      BY <1>0
    <3> QED
      BY <3>1, <3>2, Zenon
  <2> QED
    BY <2>1, <2>2, <2>3, Zenon
<1>4. ASSUME NEW j \in 1 .. (Len(onAir) - 1)
      PROVE  \E h \in DOMAIN onAir : (a \o b)[j] = onAir[h]
  <2>1. CASE j <= i - 1
    <3>1. j \in 1 .. Len(a) /\ j \in DOMAIN onAir /\ (a \o b)[j] = a[j]
      BY <1>0, <1>1, <1>3, <2>1
    <3> QED
      BY <1>1, <3>1
  <2>2. CASE ~(j <= i - 1)
    <3>1. j - (i - 1) \in 1 .. Len(b) /\ i + (j - (i - 1)) \in DOMAIN onAir
      <4>1. Len(b) = Len(onAir) - i
        BY <1>2
      <4>2. i \in 1 .. Len(onAir) /\ DOMAIN onAir = 1 .. Len(onAir) /\ Len(onAir) \in Nat
        BY <1>0
      <4> QED
        BY <2>2, <4>1, <4>2
    <3>2. (a \o b)[j] = b[j - (i - 1)]
      BY <1>3, <2>2, Zenon
    <3> QED
      BY <1>2, <3>1, <3>2
  <2> QED
    BY <2>1, <2>2
<1>7. DOMAIN (a \o b) = 1 .. (Len(onAir) - 1)
  BY <1>3
<1>5. RemoveAt(onAir, i) = a \o b
  BY DEF RemoveAt, a, b
<1>6. Len(onAir) - 1 <= MaxOnAir
  BY <1>0, StatusesAssumption
<1> QED
  BY <1>3, <1>4, <1>5, <1>6, <1>7

\* Every step of smoke and of the mesh keeps their invariant.
LEMMA StatusesStep == StatusesInv /\ [StatusesNext]_statusVars => StatusesInv'
<1> SUFFICES ASSUME StatusesInv, [StatusesNext]_statusVars PROVE StatusesInv'
  OBVIOUS
<1>0. /\ StatusesTypeOK /\ EachSaysOnce /\ LatestTrue /\ MapCurrent
      /\ RemembersOriginal /\ RestoresWhatItFound
  BY DEF StatusesInv
<1>m. Mudroom \in Addresses
  BY StatusesAssumption
<1>1. ASSUME NEW d \in Addresses, AnswerPoll(d) PROVE StatusesInv'
  <2>1. PICK n : n = Polled(d)
    OBVIOUS
  <2>2. Reported({d}, n) /\ on' = on
    BY <1>1, <2>1 DEF AnswerPoll, Reported
  <2>3. PICK x \in BOOLEAN : x = (d \in on')
    BY Decided
  <2>4. n \in Notes /\ n.latest = {d} /\ SaysOnce(n) /\ Tells(n, d, d \in on')
    BY <2>1, <2>3, PollTells DEF Polled
  <2>5. /\ onAir' \in Seq(Notes) /\ Len(onAir') <= MaxOnAir
        /\ current' = current \ {d}
        /\ EachSaysOnce' /\ LatestTrue'
    BY <1>0, <2>2, <2>4, ReportedKeeps DEF StatusesTypeOK
  <2>6. StatusesTypeOK'
    <3>1. reports' \in 0 .. MaxReports
      BY <1>0, <1>1, StatusesAssumption DEF StatusesTypeOK, AnswerPoll, CountReport
    <3> QED
      BY <1>0, <1>1, <2>5, <3>1 DEF StatusesTypeOK, AnswerPoll
  <2> QED
    BY <1>0, <1>1, <2>5, <2>6
    DEF StatusesInv, MapCurrent, RemembersOriginal, RestoresWhatItFound, AnswerPoll
<1>2. ASSUME NEW d \in Addresses, SwitchedByHand(d) PROVE StatusesInv'
  <2>1. PICK x \in BOOLEAN : x = ~(d \in on)
    BY Decided
  <2>2. Switched(d, x) /\ UNCHANGED statuses
    BY <1>2, <2>1 DEF SwitchedByHand, Switched
  <2>3. /\ on' \subseteq Addresses
        /\ onAir' \in Seq(Notes) /\ Len(onAir') <= MaxOnAir
        /\ current' \subseteq Addresses
        /\ EachSaysOnce' /\ LatestTrue' /\ MapCurrent'
    BY <1>0, <2>2, SwitchedKeeps
  <2>4. d # Mudroom => (Mudroom \in on' <=> Mudroom \in on)
    BY <2>2 DEF Switched
  <2>5. StatusesTypeOK'
    <3>1. reports' \in 0 .. MaxReports
      BY <1>0, <1>2, StatusesAssumption DEF StatusesTypeOK, SwitchedByHand, CountReport
    <3>2. sure' \in BOOLEAN /\ initially' \in {{}, {TRUE}, {FALSE}}
      BY <1>0, <1>2 DEF StatusesTypeOK, SwitchedByHand
    <3> QED
      BY <1>0, <1>2, <2>3, <3>1, <3>2 DEF StatusesTypeOK, SwitchedByHand
  <2>6. RemembersOriginal'
    BY <1>0, <1>2 DEF RemembersOriginal, SwitchedByHand
  <2>7. RestoresWhatItFound'
    <3>1. sure' => sure /\ d # Mudroom
      BY <1>2 DEF SwitchedByHand
    <3>2. UNCHANGED <<step, before>>
      BY <1>2 DEF SwitchedByHand
    <3> QED
      BY <1>0, <2>4, <3>1, <3>2 DEF RestoresWhatItFound
  <2> QED
    BY <2>3, <2>5, <2>6, <2>7 DEF StatusesInv
<1>3. ASSUME NEW a \in Addresses, NEW b \in Addresses, AnswerQuery(a, b) PROVE StatusesInv'
  <2>1. PICK x \in BOOLEAN, y \in BOOLEAN : x = (a \in on') /\ y = (b \in on')
    BY Decided
  <2>2. /\ onAir' \in Seq(Notes) /\ Len(onAir') <= MaxOnAir
        /\ current' \subseteq current
        /\ EachSaysOnce' /\ LatestTrue'
    <3>1. CASE Reported({a, b}, Broadcast({a, b}, StatusOf(a), StatusOf(b)))
      <4>1. PICK n : n = Broadcast({a, b}, StatusOf(a), StatusOf(b))
        OBVIOUS
      <4>2. Reported({a, b}, n) /\ on' = on /\ a # b
        BY <1>3, <3>1, <4>1 DEF AnswerQuery, Reported
      <4>3. PICK D, A, B : /\ D = {a, b}
                        /\ A = [address |-> a, on |-> x]
                        /\ B = [address |-> b, on |-> y]
                        /\ n = Broadcast(D, A, B)
        BY <2>1, <4>1 DEF StatusOf
      <4>4. n \in Notes /\ n.latest = D /\ SaysOnce(n) /\ Tells(n, a, x) /\ Tells(n, b, y)
        <5>1. a # b
          BY <4>2
        <5>2. n \in Notes
          BY <4>3, <5>1, BothTold
        <5>3. n.latest = D
          BY <4>3, <5>1, BothTold
        <5>4. SaysOnce(n)
          BY <4>3, <5>1, BothTold
        <5>5. Tells(n, a, x)
          BY <4>3, <5>1, BothTold
        <5>6. Tells(n, b, y)
          BY <4>3, <5>1, BothTold
        <5> QED
          BY <5>2, <5>3, <5>4, <5>5, <5>6
      <4>5. \A d \in {a, b} : Tells(n, d, d \in on')
        BY <2>1, <4>4
      <4>6. on' \subseteq Addresses /\ n.latest \subseteq {a, b}
            /\ \A d \in Addresses \ {a, b} : d \in on' <=> d \in on
        BY <1>0, <4>2, <4>3, <4>4 DEF StatusesTypeOK
      <4>7. /\ onAir' \in Seq(Notes) /\ Len(onAir') <= MaxOnAir
            /\ current' = current \ {a, b}
            /\ EachSaysOnce' /\ LatestTrue'
        BY <1>0, <4>2, <4>4, <4>5, <4>6, ReportedKeeps
      <4> QED
        BY <4>7
    <3>2. CASE Reported({a}, Broadcast({a}, Empty, StatusOf(a)))
      <4>1. PICK n : n = Broadcast({a}, Empty, StatusOf(a))
        OBVIOUS
      <4>2. Reported({a}, n) /\ on' = on
        BY <1>3, <3>2, <4>1 DEF AnswerQuery, Reported
      <4>3. n = Broadcast({a}, Empty, [address |-> a, on |-> x])
        BY <2>1, <4>1 DEF StatusOf
      <4>4. n \in Notes /\ n.latest = {a} /\ SaysOnce(n) /\ Tells(n, a, a \in on')
        BY <2>1, <4>2, <4>3, BroadcastTells
      <4> QED
        BY <1>0, <4>2, <4>4, ReportedKeeps DEF StatusesTypeOK
    <3> QED
      BY <1>3, <3>1, <3>2 DEF AnswerQuery
  <2>3. StatusesTypeOK'
    <3>1. reports' \in 0 .. MaxReports
      BY <1>0, <1>3, StatusesAssumption DEF StatusesTypeOK, AnswerQuery, CountReport
    <3> QED
      BY <1>0, <1>3, <2>2, <3>1 DEF StatusesTypeOK, AnswerQuery
  <2> QED
    BY <1>0, <1>3, <2>2, <2>3
    DEF StatusesInv, MapCurrent, RemembersOriginal, RestoresWhatItFound, AnswerQuery
<1>4. ASSUME NEW i \in DOMAIN onAir, Dropped(i) PROVE StatusesInv'
  <2>1. PICK k : k = i
    OBVIOUS
  <2>2. /\ onAir' \in Seq(Notes) /\ Len(onAir') <= MaxOnAir
        /\ \A j \in DOMAIN onAir' : \E h \in DOMAIN onAir : onAir'[j] = onAir[h]
    BY <1>0, <1>4, RemovedElements DEF StatusesTypeOK, Dropped
  <2>3. StatusesTypeOK'
    BY <1>0, <1>4, <2>2 DEF StatusesTypeOK, Dropped
  <2>4. EachSaysOnce' /\ LatestTrue'
    BY <1>0, <1>4, <2>2 DEF EachSaysOnce, LatestTrue, Dropped
  <2> QED
    BY <1>0, <1>4, <2>3, <2>4
    DEF StatusesInv, MapCurrent, RemembersOriginal, RestoresWhatItFound, Dropped
<1>5. ASSUME NEW i \in DOMAIN onAir, Taken(i) PROVE StatusesInv'
  <2>1. PICK n : n = onAir[i]
    OBVIOUS
  <2>2. n \in Notes
    BY <1>0, <2>1 DEF StatusesTypeOK
  <2>3. /\ onAir' \in Seq(Notes) /\ Len(onAir') <= MaxOnAir
        /\ \A j \in DOMAIN onAir' : \E h \in DOMAIN onAir : onAir'[j] = onAir[h]
    <3>1. CASE onAir' = onAir
      BY <1>0, <3>1 DEF StatusesTypeOK
    <3>2. CASE onAir' = RemoveAt(onAir, i)
      BY <1>0, <3>2, RemovedElements
    <3> QED
      BY <1>5, <3>1, <3>2 DEF Taken
  <2> DEFINE about == {s.address : s \in Parsed(n)}
             Says(d) == {s.on : s \in {r \in Parsed(n) : r.address = d}}
  <2>4. /\ statuses' = [d \in Addresses |-> IF d \in about THEN Says(d) ELSE statuses[d]]
        /\ current' = (current \ about) \union n.latest
        /\ UNCHANGED <<on, step, original, before, sure, initially, reports>>
    BY <1>5, <2>1 DEF Taken
  <2>5. \A d \in n.latest : /\ Says(d) = IF d \in on THEN {TRUE} ELSE {FALSE}
                            /\ d \in about /\ d \in Addresses
    <3> SUFFICES ASSUME NEW d \in n.latest
                 PROVE  /\ Says(d) = IF d \in on THEN {TRUE} ELSE {FALSE}
                        /\ d \in about /\ d \in Addresses
      OBVIOUS
    <3>1. PICK x \in BOOLEAN : x = (d \in on)
      BY Decided
    <3>2. Tells(n, d, x)
      BY <1>0, <2>1, <3>1 DEF LatestTrue
    <3>3. d \in Addresses
      BY <2>2 DEF Notes
    <3>4. PICK r : r = [address |-> d, on |-> x]
      OBVIOUS
    <3>5. {s \in Parsed(n) : s.address = d} = {r}
      BY <3>2, <3>4, Zenon DEF Tells
    <3>6. r \in Parsed(n) /\ r.address = d /\ r.on = x
      BY <3>4, <3>5
    <3>7. Says(d) = {r.on}
      <4>1. Says(d) = {s.on : s \in {r}}
        BY <3>5, Zenon
      <4> QED
        BY <4>1, Zenon
    <3>8. d \in about
      BY <3>6
    <3>9. Says(d) = {x}
      BY <3>6, <3>7, Zenon
    <3> HIDE DEF Says, about
    <3> QED
      BY <3>1, <3>3, <3>8, <3>9
  <2>6. \A d \in Addresses : Says(d) \in {{}, {TRUE}, {FALSE}}
    <3> SUFFICES ASSUME NEW d \in Addresses PROVE Says(d) \in {{}, {TRUE}, {FALSE}}
      OBVIOUS
    <3>1. \A r \in Parsed(n) : r.on \in BOOLEAN
      BY <2>2 DEF Notes, Slot, Empty, Parsed, ParseDeviceStatus, ParseDeviceStatusBroadcast
    <3>2. CASE \E r \in Parsed(n) : r.address = d
      <4>1. PICK r \in Parsed(n) : r.address = d
        BY <3>2
      <4>2. \A s \in Parsed(n) : s.address = d => s = r
        BY <1>0, <2>1, <4>1 DEF EachSaysOnce, SaysOnce
      <4>3. Says(d) = {r.on}
        BY <4>1, <4>2
      <4> QED
        BY <3>1, <4>3
    <3>3. CASE ~(\E r \in Parsed(n) : r.address = d)
      <4>1. {r \in Parsed(n) : r.address = d} = {}
        BY <3>3
      <4> QED
        BY <4>1
    <3> QED
      BY <3>2, <3>3
  <2>7. MapCurrent'
    <3> SUFFICES ASSUME NEW d \in current' PROVE statuses'[d] = IF d \in on THEN {TRUE} ELSE {FALSE}
      BY <2>4 DEF MapCurrent
    <3>1. d \in Addresses
      BY <1>0, <2>4, <2>5 DEF StatusesTypeOK
    <3>2. CASE d \in n.latest
      BY <2>4, <2>5, <3>1, <3>2
    <3>3. CASE d \in current \ about
      BY <1>0, <2>4, <3>1, <3>3 DEF MapCurrent
    <3> QED
      BY <2>4, <3>2, <3>3
  <2>8. StatusesTypeOK'
    BY <1>0, <2>3, <2>4, <2>5, <2>6 DEF StatusesTypeOK
  <2>9. EachSaysOnce' /\ LatestTrue'
    BY <1>0, <2>3, <2>4 DEF EachSaysOnce, LatestTrue
  <2> QED
    BY <1>0, <2>4, <2>7, <2>8, <2>9 DEF StatusesInv, RemembersOriginal, RestoresWhatItFound
<1>6. ASSUME NEW from, NEW state \in BOOLEAN, NEW to, Sends(from, state, to)
      PROVE  /\ on' \subseteq Addresses
             /\ onAir' \in Seq(Notes) /\ Len(onAir') <= MaxOnAir
             /\ current' \subseteq Addresses
             /\ EachSaysOnce' /\ LatestTrue' /\ MapCurrent'
             /\ sure' \in BOOLEAN /\ (sure' => sure /\ (Mudroom \in on' <=> state))
             /\ initially' \in {{}, {TRUE}, {FALSE}}
             /\ step = from /\ step' = to
             /\ UNCHANGED <<statuses, original, before, reports>>
  <2>1. UNCHANGED <<statuses, original, before, reports>> /\ step = from /\ step' = to
    BY <1>6 DEF Sends
  <2>2. CASE Switched(Mudroom, state) /\ UNCHANGED <<sure, initially>>
    BY <1>0, <1>m, <2>1, <2>2, SwitchedKeeps DEF StatusesTypeOK
  <2>3. CASE sure' = FALSE /\ initially' = {} /\ UNCHANGED <<on, onAir, current>>
    BY <1>0, <2>1, <2>3 DEF StatusesTypeOK, EachSaysOnce, LatestTrue, MapCurrent
  <2> QED
    BY <1>6, <2>1, <2>2, <2>3 DEF Sends, OnOff
<1>7. CASE BlindOn
  <2>1. Sends("on", TRUE, "off")
    BY <1>7 DEF BlindOn
  <2> QED
    BY <1>0, <1>6, <2>1
    DEF StatusesInv, StatusesTypeOK, RemembersOriginal, RestoresWhatItFound
<1>8. CASE BlindOff
  <2>1. Sends("off", FALSE, "look")
    BY <1>8 DEF BlindOff
  <2> QED
    BY <1>0, <1>6, <2>1
    DEF StatusesInv, StatusesTypeOK, RemembersOriginal, RestoresWhatItFound
<1>9. CASE LookUp
  <2>1. EachSaysOnce' /\ LatestTrue' /\ MapCurrent'
    BY <1>0, <1>9 DEF EachSaysOnce, LatestTrue, MapCurrent, LookUp
  <2>2. before' \in BOOLEAN /\ sure' \in BOOLEAN /\ original' \in BOOLEAN
    BY <1>0, <1>9, Decided DEF StatusesTypeOK, LookUp
  <2>3. StatusesTypeOK'
    BY <1>0, <1>9, <2>2 DEF StatusesTypeOK, LookUp
  <2>4. RestoresWhatItFound'
    BY <1>9 DEF RestoresWhatItFound, LookUp
  <2>5. RemembersOriginal'
    <3>1. CASE statuses[Mudroom] = {}
      BY <1>9, <3>1 DEF RemembersOriginal, LookUp
    <3>2. CASE statuses[Mudroom] # {}
      <4>1. step' = "toggle" /\ (original' <=> TRUE \in statuses[Mudroom])
            /\ (before' <=> Mudroom \in on) /\ (sure' <=> Mudroom \in current)
        BY <1>9, <3>2 DEF LookUp
      <4>2. sure' => (original' <=> before')
        BY <1>0, <4>1 DEF MapCurrent
      <4> QED
        BY <2>2, <4>1, <4>2 DEF RemembersOriginal
    <3> QED
      BY <3>1, <3>2
  <2> QED
    BY <2>1, <2>3, <2>4, <2>5 DEF StatusesInv
<1>10. CASE ToggleMudroom
  <2>1. PICK x \in BOOLEAN : x = ~original
    BY <1>0 DEF StatusesTypeOK
  <2>2. Sends("toggle", x, "restore")
    BY <1>10, <2>1 DEF ToggleMudroom
  <2>3. /\ on' \subseteq Addresses
        /\ onAir' \in Seq(Notes) /\ Len(onAir') <= MaxOnAir
        /\ current' \subseteq Addresses
        /\ EachSaysOnce' /\ LatestTrue' /\ MapCurrent'
        /\ sure' \in BOOLEAN /\ (sure' => sure /\ (Mudroom \in on' <=> x))
        /\ initially' \in {{}, {TRUE}, {FALSE}}
        /\ step = "toggle" /\ step' = "restore"
        /\ UNCHANGED <<statuses, original, before, reports>>
    BY <1>6, <2>2
  <2>4. StatusesTypeOK'
    BY <1>0, <2>3 DEF StatusesTypeOK
  <2>5. RemembersOriginal' /\ RestoresWhatItFound'
    BY <1>0, <2>1, <2>3 DEF RemembersOriginal, RestoresWhatItFound
  <2> QED
    BY <2>3, <2>4, <2>5 DEF StatusesInv
<1>11. CASE RestoreMudroom
  <2>1. PICK x \in BOOLEAN : x = original
    BY <1>0 DEF StatusesTypeOK
  <2>2. Sends("restore", x, "done")
    BY <1>11, <2>1 DEF RestoreMudroom
  <2>3. /\ on' \subseteq Addresses
        /\ onAir' \in Seq(Notes) /\ Len(onAir') <= MaxOnAir
        /\ current' \subseteq Addresses
        /\ EachSaysOnce' /\ LatestTrue' /\ MapCurrent'
        /\ sure' \in BOOLEAN /\ (sure' => sure /\ (Mudroom \in on' <=> x))
        /\ initially' \in {{}, {TRUE}, {FALSE}}
        /\ step = "restore" /\ step' = "done"
        /\ UNCHANGED <<statuses, original, before, reports>>
    BY <1>6, <2>2
  <2>4. StatusesTypeOK'
    BY <1>0, <2>3 DEF StatusesTypeOK
  <2>5. RemembersOriginal' /\ RestoresWhatItFound'
    BY <1>0, <2>1, <2>3 DEF RemembersOriginal, RestoresWhatItFound
  <2> QED
    BY <2>3, <2>4, <2>5 DEF StatusesInv
<1>12. CASE UNCHANGED statusVars
  BY <1>0, <1>12
  DEF statusVars, StatusesInv, StatusesTypeOK, EachSaysOnce, LatestTrue, MapCurrent,
      RemembersOriginal, RestoresWhatItFound
<1> QED
  BY <1>1, <1>2, <1>3, <1>4, <1>5, <1>7, <1>8, <1>9, <1>10, <1>11, <1>12 DEF StatusesNext

\* No notification sent yet, the invariant holds.
LEMMA StatusesStart == StatusesInit => StatusesInv
<1> SUFFICES ASSUME StatusesInit PROVE StatusesInv
  OBVIOUS
<1>1. StatusesTypeOK
  <2>1. << >> \in Seq(Notes) /\ Len(<< >>) = 0
    OBVIOUS
  <2>2. 0 <= MaxOnAir /\ 0 \in 0 .. MaxReports
    BY StatusesAssumption
  <2>3. [d \in Addresses |-> {}] \in [Addresses -> {{}, {TRUE}, {FALSE}}]
    OBVIOUS
  <2> QED
  BY <2>1, <2>2, <2>3 DEF StatusesInit, StatusesTypeOK
<1> QED
  BY <1>1
  DEF StatusesInit, StatusesInv, EachSaysOnce, LatestTrue, MapCurrent, RemembersOriginal,
      RestoresWhatItFound

-----------------------------------------------------------------------------
(* The programs together                                                   *)

ApplicationsInv ==
    /\ app \in Apps
    /\ AlarmsInv
    /\ GroupsInv
    /\ StatusesInv

\* The converter alone writes no alarm.
LEMMA ConverterKeeps ==
    ASSUME AlarmsInv, Next, UNCHANGED <<writerVars, coordinatorVars, saved>>
    PROVE  AlarmsInv' /\ StoresCleanWrite
<1>1. TimeInv
  BY DEF AlarmsInv, AlarmsTypeOK, TimeInv
<1>2. TypeOK' /\ RecordConverted' /\ tz' = tz
  BY <1>1, NextTime DEF TimeInv, Next, Load, Save
<1>3. UNCHANGED <<writing, sent, clean, written, writes, pending, stored, saved>>
  BY DEF writerVars, coordinatorVars
<1>4. AlarmsTypeOK'
  BY <1>2, <1>3 DEF AlarmsInv, AlarmsTypeOK
<1>5. AlarmsInv'
  BY <1>2, <1>3, <1>4, OnlyTimeChanges
<1>6. StoresCleanWrite
  BY <1>3 DEF StoresCleanWrite
<1> QED
  BY <1>5, <1>6

\* What changes nothing of the groups keeps their invariant.
LEMMA GroupsStutter ==
    ASSUME GroupsInv, UNCHANGED groupVars
    PROVE  GroupsInv'
BY DEF GroupsInv, GroupsTypeOK, ReadWhole, groupVars

\* What changes nothing of the statuses keeps their invariant.
LEMMA StatusesStutter ==
    ASSUME StatusesInv, UNCHANGED statusVars
    PROVE  StatusesInv'
BY StatusesStep

\* Whichever program runs, the invariants hold when it starts.
LEMMA ApplicationsStart == ApplicationsInit => ApplicationsInv
BY AlarmsStart, GroupsStart, StatusesStart DEF ApplicationsInit, ApplicationsInv

\* A step of one program leaves the others alone.
LEMMA ApplicationsStep == ApplicationsInv /\ [ApplicationsNext]_applicationVars => ApplicationsInv'
<1> SUFFICES ASSUME ApplicationsInv, [ApplicationsNext]_applicationVars PROVE ApplicationsInv'
  OBVIOUS
<1>0. app \in Apps /\ AlarmsInv /\ GroupsInv /\ StatusesInv
  BY DEF ApplicationsInv
<1>1. CASE Converter
  <2>1. /\ Next /\ UNCHANGED <<writerVars, coordinatorVars, saved>>
        /\ app' = app /\ UNCHANGED groupVars /\ UNCHANGED statusVars
    BY <1>1 DEF Converter
  <2> QED
    BY <1>0, <2>1, ConverterKeeps, GroupsStutter, StatusesStutter DEF ApplicationsInv
<1>2. CASE AlarmPrograms
  <2>1. AlarmsNext /\ app' = app /\ UNCHANGED groupVars /\ UNCHANGED statusVars
    BY <1>2 DEF AlarmPrograms
  <2> QED
    BY <1>0, <2>1, AlarmsStep, GroupsStutter, StatusesStutter DEF ApplicationsInv
<1>3. CASE GroupPrograms
  <2>1. GroupsNext /\ app' = app /\ UNCHANGED alarmVars /\ UNCHANGED statusVars
    BY <1>3 DEF GroupPrograms
  <2> QED
    BY <1>0, <2>1, AlarmsStutter, GroupsStep, StatusesStutter DEF ApplicationsInv
<1>4. CASE StatusPrograms
  <2>1. StatusesNext /\ app' = app /\ UNCHANGED alarmVars /\ UNCHANGED groupVars
    BY <1>4 DEF StatusPrograms
  <2> QED
    BY <1>0, <2>1, AlarmsStutter, GroupsStutter, StatusesStep DEF ApplicationsInv
<1>5. CASE UNCHANGED applicationVars
  <2>1. app' = app /\ UNCHANGED alarmVars /\ UNCHANGED groupVars /\ UNCHANGED statusVars
    BY <1>5 DEF applicationVars
  <2> QED
    BY <1>0, <2>1, AlarmsStutter, GroupsStutter, StatusesStutter DEF ApplicationsInv
<1> QED
  BY <1>1, <1>2, <1>3, <1>4, <1>5 DEF ApplicationsNext

\* What the programs of the library keep, whichever of them runs: the types,
\* what is known of a record from its writer to the coordinator's slot, the
\* list of groups that is still true, and smoke's map of the statuses.
THEOREM ApplicationsInvariant == ApplicationsSpec => []ApplicationsInv
BY ApplicationsStart, ApplicationsStep, PTL DEF ApplicationsSpec

\* Times, records, fragments, lists of groups, notifications and the map keep
\* their types (schedule, command and smoke's map of the statuses).
THEOREM ApplicationsTypeCorrect == ApplicationsSpec => []ApplicationsTypeOK
<1>1. ApplicationsInv => ApplicationsTypeOK
  BY DEF ApplicationsInv, ApplicationsTypeOK, AlarmsInv, GroupsInv, StatusesInv
<1> QED
  BY <1>1, ApplicationsInvariant, PTL

\* The record of an alarm fires when the local time says, whatever was edited,
\* loaded from the coordinator or saved before (LocalToUTC, UTCToLocal).
THEOREM AlarmsFireOnTime == ApplicationsSpec => []FiresOnTime
<1>1. ApplicationsInv => FiresOnTime
  BY InvFires DEF ApplicationsInv, AlarmsInv, AlarmsTypeOK, TimeInv
<1> QED
  BY <1>1, ApplicationsInvariant, PTL

\* Loading and saving an alarm any number of times changes nothing of it, in
\* whichever program (UTCToLocal is the inverse of LocalToUTC).
THEOREM ConversionsInverse == ApplicationsSpec => NoDrift
<1>1. ApplicationsInv => [ Load \/ Save =>
                              /\ local'.hour = local.hour
                              /\ local'.repeat \ {7} = local.repeat \ {7}
                              /\ record' = record ]_vars
  BY KeepsTime DEF ApplicationsInv, AlarmsInv, AlarmsTypeOK, TimeInv
<1> QED
  BY <1>1, ApplicationsInvariant, PTL DEF NoDrift

\* What the coordinator holds of the editor's alarm fires on a day at least, and
\* at a local time that the editor saved and no later save has surely replaced,
\* however often it is edited, whatever becomes of the fragments, and whatever
\* the others write, switch or delete (Recurring after LocalToUTC, WriteAlarm,
\* SetActive).
THEOREM StoredInTime == ApplicationsSpec => []StoredFiresOnTime
<1>1. ApplicationsInv => StoredFiresOnTime
  BY InvStored DEF ApplicationsInv
<1> QED
  BY <1>1, ApplicationsInvariant, PTL

\* The checksum of WriteAlarm lets no record through that two programs wrote
\* between them, unless their heads differ in two bytes and fold to the same.
THEOREM ChecksumHolds == ApplicationsSpec => []TornOnlyOnCollision
<1>1. ApplicationsInv => TornOnlyOnCollision
  BY DEF ApplicationsInv, AlarmsInv
<1> QED
  BY <1>1, ApplicationsInvariant, PTL

\* smoke's [5/5] leaves the mudroom as it was when smoke looked it up, if the
\* map was right about it then and nothing else switched it since.
THEOREM MudroomRestored == ApplicationsSpec => []RestoresWhatItFound
<1>1. ApplicationsInv => RestoresWhatItFound
  BY DEF ApplicationsInv, StatusesInv
<1> QED
  BY <1>1, ApplicationsInvariant, PTL

\* A write of WriteAlarm that nothing disturbs is stored as it was sent.
THEOREM CleanWritesStored == ApplicationsSpec => CleanWriteStored
<1>1. ApplicationsInv /\ [ApplicationsNext]_applicationVars => [StoresCleanWrite]_alarmVars
  <2> SUFFICES ASSUME ApplicationsInv, [ApplicationsNext]_applicationVars,
                      ~UNCHANGED alarmVars
               PROVE  StoresCleanWrite
    OBVIOUS
  <2>1. AlarmsInv
    BY DEF ApplicationsInv
  <2>2. CASE Converter
    BY <2>1, <2>2, ConverterKeeps DEF Converter
  <2>3. CASE AlarmPrograms
    BY <2>1, <2>3, CleanStep DEF AlarmPrograms
  <2> QED
    BY <2>2, <2>3 DEF ApplicationsNext, GroupPrograms, StatusPrograms, applicationVars
<1> QED
  BY <1>1, ApplicationsInvariant, PTL
  DEF ApplicationsSpec, CleanWriteStored, StoresCleanWrite

\* A program that adds or removes a group, of a list it read whole and nobody
\* changed since, changes no other (QueryGroupMembership, SetGroupMembership).
THEOREM OtherGroupsKept == ApplicationsSpec => RewriteKeepsOthers
<1> DEFINE Keeps ==
      \A g \in Wanted :
          (AddGroup(g) \/ RemoveGroup(g)) /\ fresh /\ groups \intersect Terminators = {}
          /\ Len(list) < Room
              => groups' \ {g} = groups \ {g}
<1>1. ApplicationsInv => [Keeps]_groupVars
  <2> SUFFICES ASSUME ApplicationsInv, NEW g \in Wanted, AddGroup(g) \/ RemoveGroup(g), fresh,
                      groups \intersect Terminators = {}, Len(list) < Room
               PROVE  groups' \ {g} = groups \ {g}
    OBVIOUS
  <2>1. GroupsInv
    BY DEF ApplicationsInv
  <2> QED
    BY <2>1, OthersKept
<1> QED
  BY <1>1, ApplicationsInvariant, PTL DEF RewriteKeepsOthers

=============================================================================
