----------------------------- MODULE AlarmRecord ----------------------------
(***************************************************************************)
(* The 16-byte alarm record of schedule/alarm.go, its constructors and its *)
(* XOR, and the two fragments that WriteAlarm of command/schedule.go cuts  *)
(* it into.                                                                *)
(*                                                                         *)
(* A byte is the set of its bits, so that ^ is the symmetric difference of *)
(* two sets and a repeat mask is the set of its days.  A record is a       *)
(* function from the offsets of its bytes.                                 *)
(***************************************************************************)
EXTENDS Integers, FiniteSets

Bits == 0 .. 7
Bytes == SUBSET Bits
Byte(n) == {i \in Bits : (n \div 2^i) % 2 = 1}
Number(byte) == CHOOSE n \in 0 .. 255 : Byte(n) = byte

Records == [0 .. 15 -> Bytes]

\* What a constructor returns with its error.
Rejected == << >>

-----------------------------------------------------------------------------
(* Constructors                                                            *)

KindRegular == 0
KindFlick == 1
KindGradual == 2
KindCountdown == 3

CountdownID == 201
ActionOff == 0
ActionOnFullBright == 100

Laid(bytes) == [i \in 0 .. 15 |-> bytes[i + 1]]

build(id, repeat, hour, minute, kind, speed, target, action) ==
    IF hour > 23 \/ minute > 59 THEN Rejected
    ELSE Laid(<<Byte(id), repeat, Byte(hour), Byte(minute), Byte(kind),
                Byte(speed), {}, Byte(1), Byte(target % 256), Byte(target \div 256),
                {}, {}, Bits, Bits, Bits, Byte(action)>>)

OneShot(id, target, hour, minute, action) ==
    build(id, {}, hour, minute, KindRegular, 0, target, action)

\* The check comes before bit 7 is masked off.
Recurring(id, target, hour, minute, repeat, action) ==
    IF repeat = {} THEN Rejected
    ELSE build(id, repeat \ {7}, hour, minute, KindRegular, 0, target, action)

Transition(id, target, hour, minute, repeat, kind, speed, action) ==
    IF kind \notin {KindFlick, KindGradual} THEN Rejected
    ELSE build(id, repeat \ {7}, hour, minute, kind, speed, target, action)

Countdown(target, duration) ==
    IF duration = 0 THEN Rejected
    ELSE Laid(<<Byte(CountdownID), {}, {}, {}, Byte(KindCountdown), {},
                Byte(duration), Byte(1), Byte(target % 256), Byte(target \div 256),
                {}, {}, {}, {}, {}, Byte(ActionOff)>>)

-----------------------------------------------------------------------------
(* Accessors                                                               *)

ID(r) == r[0]
Repeat(r) == r[1]
Hour(r) == Number(r[2])
Active(r) == r[7] # {}

SetActive(r, on) == [r EXCEPT ![7] = IF on THEN Byte(1) ELSE {}]

\* Variant for the mutants: the fold begins at fragment 1.
XORFromTail(bytes) ==
    {b \in Bits : Cardinality({i \in DOMAIN bytes \ (0 .. 8) : b \in bytes[i]}) % 2 = 1}

\* The fold of ^ over some bytes has the bits that an odd number of them has.
XOR(bytes) ==
    {b \in Bits : Cardinality({i \in DOMAIN bytes : b \in bytes[i]}) % 2 = 1}

-----------------------------------------------------------------------------
(* WriteAlarm: alarm[0..8], then alarm[9..15] and the XOR of all 16 bytes  *)

HeadOf(r) == [i \in 0 .. 8 |-> r[i]]
TailOf(r) == [i \in 9 .. 15 |-> r[i]]

Joined(head, tail) == [i \in 0 .. 15 |-> IF i <= 8 THEN head[i] ELSE tail[i]]

Fragment0(r) == [index |-> 0, data |-> HeadOf(r), xor |-> {}]

\* Variant for the mutants: the checksum of the fragment's own bytes.
Fragment1OwnXOR(r) == [index |-> 1, data |-> TailOf(r), xor |-> XOR(TailOf(r))]

Fragment1(r) == [index |-> 1, data |-> TailOf(r), xor |-> XOR(r)]

=============================================================================
