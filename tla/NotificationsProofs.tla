------------------------- MODULE NotificationsProofs ------------------------
(* Theorems about Notifications, for every number of calls, both channel   *)
(* capacities and every number of Logins, notifications and retransmits.   *)
EXTENDS Notifications, SequenceTheorems, NaturalsInduction, WellFoundedInduction, TLAPS

-----------------------------------------------------------------------------
(* Type correctness                                                        *)

\* At the start the types are right.
LEMMA InitType == Init => TypeOK
<1> SUFFICES ASSUME Init PROVE TypeOK
  OBVIOUS
<1>1. << >> \in Seq(Packets) /\ Len(<< >>) = 0
  BY EmptySeq
<1>2. \A c \in Calls : raw[c] = << >> /\ held[c] = << >> /\ out[c] = << >>
  BY DEF Init
<1>3. /\ raw \in [Calls -> Seq(Packets)]
      /\ held \in [Calls -> Seq(Packets)]
      /\ out \in [Calls -> Seq(Packets)]
  BY <1>1 DEF Init
<1>4. /\ session \in 0 .. MaxLogins /\ retransmits \in 0 .. MaxRetransmits
      /\ sk \in [Calls -> 0 .. MaxLogins]
  BY NotificationsAssumption DEF Init
<1>7. \A c \in Calls : Len(raw[c]) = 0 /\ Len(held[c]) = 0 /\ Len(out[c]) = 0
  BY <1>1, <1>2, Zenon
<1>5. ASSUME NEW c \in Calls
      PROVE  Len(raw[c]) <= RawCap /\ Len(held[c]) <= 1 /\ Len(out[c]) <= OutCap
  BY <1>7, NotificationsAssumption
<1>6. notes \in Seq(Packets) /\ Len(notes) <= MaxNotes
  BY <1>1, NotificationsAssumption DEF Init
<1> QED
  BY <1>3, <1>4, <1>5, <1>6 DEF Init, TypeOK, OwnerSteps

\* A packet off the air enters a channel only where there is room.
LEMMA ArrivesType ==
    ASSUME TypeOK, NEW pkt \in Packets, Arrives(pkt)
    PROVE  raw' \in [Calls -> Seq(Packets)] /\ \A c \in Calls : Len(raw'[c]) <= RawCap
<1>1. ASSUME NEW c \in Calls
      PROVE  raw'[c] \in Seq(Packets) /\ Len(raw'[c]) <= RawCap
  <2>1. raw[c] \in Seq(Packets) /\ Len(raw[c]) <= RawCap
    BY DEF TypeOK
  <2>2. CASE c \in Listening
    BY <2>1, <2>2, NotificationsAssumption DEF Arrives, Listening
  <2>3. CASE c \notin Listening
    BY <2>1, <2>3 DEF Arrives
  <2> QED
    BY <2>2, <2>3
<1> QED
  BY <1>1 DEF Arrives

\* Every step keeps the types.
LEMMA NextType == TypeOK /\ [Next]_vars => TypeOK'
<1> SUFFICES ASSUME TypeOK, [Next]_vars
             PROVE  TypeOK'
  OBVIOUS
<1> USE NotificationsAssumption DEF callVars, streamVars, worldVars, OwnerSteps
<1>u. CASE UNCHANGED vars
  BY <1>u DEF vars, TypeOK
<1>c. ASSUME NEW c \in Calls,
             Claim(c) \/ Call(c) \/ Pump(c) \/ Receive(c) \/ Cancel(c) \/ TransportEnds(c)
      PROVE  TypeOK'
  <2> USE DEF Goto
  <2>0. raw[c] \in Seq(Packets) /\ held[c] \in Seq(Packets) /\ out[c] \in Seq(Packets)
    BY DEF TypeOK
  <2>1. CASE Claim(c)
    BY <2>1 DEF Claim, TypeOK
  <2>2. CASE CaptureKey(c)
    BY <2>2 DEF CaptureKey, TypeOK
  <2>3. CASE Subscribed(c)
    BY <2>3 DEF Subscribed, TypeOK
  <2>4. CASE SubscribeFails(c)
    BY <2>4 DEF SubscribeFails, TypeOK
  <2>5. CASE ReturnError(c)
    BY <2>5 DEF ReturnError, ActiveAfterError, TypeOK
  <2>6. CASE PumpTakes(c)
    <3>1. /\ Tail(raw[c]) \in Seq(Packets) /\ Len(Tail(raw[c])) <= RawCap
          /\ <<Head(raw[c])>> \in Seq(Packets) /\ Len(<<Head(raw[c])>>) <= 1
      BY <2>0, <2>6 DEF PumpTakes, TypeOK
    <3> QED
      BY <2>6, <3>1 DEF PumpTakes, AfterDecryptFailure, TypeOK
  <2>7. CASE PumpDelivers(c)
    <3>1. out[c] \o held[c] \in Seq(Packets) /\ Len(out[c] \o held[c]) <= OutCap
      BY <2>0, <2>7 DEF PumpDelivers, TypeOK
    <3>2. << >> \in Seq(Packets) /\ Len(<< >>) = 0
      OBVIOUS
    <3> QED
      BY <2>7, <3>1, <3>2 DEF PumpDelivers, TypeOK
  <2>8. CASE PumpStops(c)
    BY <2>8 DEF PumpStops, TypeOK
  <2>9. CASE PumpReleases(c)
    BY <2>9 DEF PumpReleases, TypeOK
  <2>10. CASE PumpClosesOut(c)
    BY <2>10 DEF PumpClosesOut, TypeOK
  <2>11. CASE Receive(c)
    <3>1. Tail(out[c]) \in Seq(Packets) /\ Len(Tail(out[c])) <= OutCap
      BY <2>0, <2>11 DEF Receive, TypeOK
    <3> QED
      BY <2>11, <3>1 DEF Receive, TypeOK
  <2>12. CASE Cancel(c)
    BY <2>12 DEF Cancel, TypeOK
  <2>13. CASE TransportEnds(c)
    BY <2>13 DEF TransportEnds, TypeOK
  <2> QED
    BY <1>c, <2>1, <2>2, <2>3, <2>4, <2>5, <2>6, <2>7, <2>8, <2>9, <2>10, <2>11,
       <2>12, <2>13
    DEF Call, Pump
<1>n. CASE NodeNotifies
  <2>1. PICK s \in {session - 1, session} \intersect Nat :
             /\ notes' = Append(notes, [session |-> s, id |-> Len(notes) + 1])
             /\ Arrives([session |-> s, id |-> Len(notes) + 1])
    BY <1>n DEF NodeNotifies
  <2>2. [session |-> s, id |-> Len(notes) + 1] \in Packets
    BY <1>n DEF NodeNotifies, TypeOK, Packets
  <2>3. raw' \in [Calls -> Seq(Packets)] /\ \A c \in Calls : Len(raw'[c]) <= RawCap
    BY <2>1, <2>2, ArrivesType
  <2>4. notes' \in Seq(Packets) /\ Len(notes') <= MaxNotes
    BY <1>n, <2>1, <2>2 DEF NodeNotifies, TypeOK
  <2> QED
    BY <1>n, <2>3, <2>4 DEF NodeNotifies, TypeOK
<1>m. CASE MeshRetransmits
  <2>1. PICK i \in DOMAIN notes : Arrives(notes[i])
    BY <1>m DEF MeshRetransmits
  <2>2. notes[i] \in Packets
    BY DEF TypeOK
  <2>3. raw' \in [Calls -> Seq(Packets)] /\ \A c \in Calls : Len(raw'[c]) <= RawCap
    BY <2>1, <2>2, ArrivesType
  <2> QED
    BY <1>m, <2>3 DEF MeshRetransmits, TypeOK
<1>l. CASE Login
  BY <1>l DEF Login, TypeOK
<1> QED
  BY <1>u, <1>c, <1>n, <1>m, <1>l DEF Next

\* The state of the stream keeps its type: in particular neither channel
\* outgrows its capacity and the pump holds one notification at most.
THEOREM TypeCorrect == Spec => []TypeOK
  BY InitType, NextType, PTL DEF Spec

-----------------------------------------------------------------------------
(* One owner of the subscription                                           *)

\* At the start nobody owns the stream.
LEMMA InitOwned == Init => ActiveIffOwned
  BY DEF Init, ActiveIffOwned, Owners, OwnerSteps

\* A step that neither begins nor ends an ownership.
LEMMA OwnersKept ==
    ASSUME ActiveIffOwned, UNCHANGED notifyActive, Owners' = Owners
    PROVE  ActiveIffOwned'
  BY DEF ActiveIffOwned

\* The owner gives the subscription back.
LEMMA OwnerLeaves ==
    ASSUME ActiveIffOwned, NEW c \in Owners, notifyActive' = FALSE,
           Owners' = Owners \ {c}
    PROVE  ActiveIffOwned'
<1>1. Owners' = {}
  BY DEF ActiveIffOwned
<1> QED
  BY <1>1 DEF ActiveIffOwned

\* Every step keeps the stream owned by the one call that is under way.
LEMMA NextOwned == TypeOK /\ ActiveIffOwned /\ [Next]_vars => ActiveIffOwned'
<1> SUFFICES ASSUME TypeOK, ActiveIffOwned, [Next]_vars
             PROVE  ActiveIffOwned'
  OBVIOUS
<1> USE DEF callVars, streamVars, worldVars, OwnerSteps
<1>u. CASE UNCHANGED vars
  BY <1>u, OwnersKept DEF vars, Owners
<1>c. ASSUME NEW c \in Calls,
             Claim(c) \/ Call(c) \/ Pump(c) \/ Receive(c) \/ Cancel(c) \/ TransportEnds(c)
      PROVE  ActiveIffOwned'
  <2> USE DEF Goto, Owners, TypeOK
  <2>1. CASE Claim(c)
    <3>1. CASE notifyActive
      BY <2>1, <3>1, OwnersKept DEF Claim
    <3>2. CASE ~notifyActive
      <4>1. Owners = {}
        BY <3>2 DEF ActiveIffOwned
      <4>2. Owners' = {c} /\ notifyActive'
        BY <2>1, <3>2, <4>1 DEF Claim
      <4> QED
        BY <4>2 DEF ActiveIffOwned
    <3> QED
      BY <3>1, <3>2
  <2>2. CASE CaptureKey(c)
    BY <2>2, OwnersKept DEF CaptureKey
  <2>3. CASE Subscribed(c)
    BY <2>3, OwnersKept DEF Subscribed
  <2>4. CASE SubscribeFails(c)
    BY <2>4, OwnersKept DEF SubscribeFails
  <2>5. CASE ReturnError(c)
    BY <2>5, OwnerLeaves DEF ReturnError, ActiveAfterError
  <2>6. CASE PumpTakes(c)
    BY <2>6, OwnersKept DEF PumpTakes, AfterDecryptFailure
  <2>7. CASE PumpDelivers(c)
    BY <2>7, OwnersKept DEF PumpDelivers
  <2>8. CASE PumpStops(c)
    BY <2>8, OwnersKept DEF PumpStops, PumpMayStop
  <2>9. CASE PumpReleases(c)
    BY <2>9, OwnerLeaves DEF PumpReleases
  <2>10. CASE PumpClosesOut(c)
    BY <2>10, OwnersKept DEF PumpClosesOut
  <2>11. CASE Receive(c) \/ Cancel(c) \/ TransportEnds(c)
    BY <2>11, OwnersKept DEF Receive, Cancel, TransportEnds
  <2> QED
    BY <1>c, <2>1, <2>2, <2>3, <2>4, <2>5, <2>6, <2>7, <2>8, <2>9, <2>10, <2>11
    DEF Call, Pump
<1>n. CASE NodeNotifies \/ MeshRetransmits \/ Login
  BY <1>n, OwnersKept DEF NodeNotifies, MeshRetransmits, Login, Owners
<1> QED
  BY <1>u, <1>c, <1>n DEF Next

\* However many goroutines call Notifications, and on whichever error path
\* they return, notifyActive is set exactly while one of them owns the
\* subscription: none leaks it and no two hold it.
THEOREM OneOwner == Spec => []ActiveIffOwned
  BY TypeCorrect, InitOwned, NextOwned, PTL DEF Spec

-----------------------------------------------------------------------------
(* What decrypts of a sequence                                             *)

\* Induction on a set of numbers, from the well-foundedness of < on Nat.
LEMMA InductionOnNat ==
    ASSUME NEW S, 0 \in S, \A n \in Nat : n \in S => n + 1 \in S
    PROVE  \A n \in Nat : n \in S
<1> DEFINE T == {n \in Nat : n \notin S}
<1> SUFFICES ASSUME T # {} PROVE FALSE
  OBVIOUS
<1>1. IsWellFoundedOn(OpToRel(<, Nat), Nat)
  BY NatLessThanWellFounded
<1>2. T \in SUBSET Nat /\ T # {}
  OBVIOUS
<1> HIDE DEF T
<1>3. PICK x \in T : \A y \in T : ~(<<y, x>> \in OpToRel(<, Nat))
  BY <1>1, <1>2, WFMin
<1> USE DEF T
<1>4. \A y \in T : ~(y < x)
  BY <1>3 DEF OpToRel
<1>5. x # 0 /\ x - 1 \in Nat /\ x - 1 \in S
  BY <1>4
<1> QED
  BY <1>5

\* f tells, for each n, what decrypts of the first n packets of s.
Recurs(key, s, f) ==
    /\ f \in [0 .. Len(s) -> Seq(Packets)]
    /\ f[0] = << >>
    /\ \A n \in 1 .. Len(s) :
          f[n] = IF TagVerifies(key, s[n]) THEN Append(f[n - 1], s[n]) ELSE f[n - 1]

\* There is a function with the recursion of Decrypted: built up to each
\* length from the one before.
LEMMA DecryptedExists ==
    ASSUME NEW key, NEW s \in Seq(Packets)
    PROVE  \E f : Recurs(key, s, f)
<1> DEFINE Upto(m, f) ==
             /\ f \in [0 .. m -> Seq(Packets)]
             /\ f[0] = << >>
             /\ \A n \in 1 .. m :
                   f[n] = IF TagVerifies(key, s[n]) THEN Append(f[n - 1], s[n]) ELSE f[n - 1]
           S == {m \in Nat : m <= Len(s) => \E f : Upto(m, f)}
<1>1. 0 \in S
  <2> DEFINE f == [n \in 0 .. 0 |-> << >>]
  <2>1. f \in [0 .. 0 -> Seq(Packets)]
    OBVIOUS
  <2>2. f[0] = << >> /\ 1 .. 0 = {}
    OBVIOUS
  <2> HIDE DEF f
  <2>3. Upto(0, f)
    BY <2>1, <2>2
  <2> QED
    BY <2>3
<1>2. ASSUME NEW m \in Nat, \E f : Upto(m, f), m + 1 <= Len(s)
      PROVE  \E g : Upto(m + 1, g)
  <2>1. PICK f : Upto(m, f)
    BY <1>2
  <2> DEFINE last == IF TagVerifies(key, s[m + 1]) THEN Append(f[m], s[m + 1]) ELSE f[m]
             g == [n \in 0 .. m + 1 |-> IF n <= m THEN f[n] ELSE last]
  <2>2. f[m] \in Seq(Packets) /\ s[m + 1] \in Packets
    BY <2>1
  <2>3. last \in Seq(Packets)
    BY <2>2
  <2>4. g \in [0 .. m + 1 -> Seq(Packets)] /\ g[0] = << >>
    BY <2>1, <2>3
  <2>5. ASSUME NEW n \in 1 .. m + 1
        PROVE  g[n] = IF TagVerifies(key, s[n]) THEN Append(g[n - 1], s[n]) ELSE g[n - 1]
    <3>1. g[n - 1] = f[n - 1]
      OBVIOUS
    <3>2. CASE n <= m
      <4>1. g[n] = f[n] /\ n \in 1 .. m
        BY <3>2
      <4> QED
        BY <2>1, <3>1, <4>1
    <3>3. CASE n = m + 1
      <4>1. g[n] = last /\ n - 1 = m
        BY <3>3
      <4> QED
        BY <3>1, <3>3, <4>1
    <3> QED
      BY <3>2, <3>3
  <2>6. Upto(m + 1, g)
    BY <2>4, <2>5
  <2> QED
    BY <2>6
<1> HIDE DEF Upto
<1>s. \A m \in Nat : m \in S => m + 1 \in S
  <2>1. Len(s) \in Nat
    OBVIOUS
  <2> QED
    BY <1>2, <2>1
<1> HIDE DEF S
<1>3. \A m \in Nat : m \in S
  BY <1>1, <1>s, InductionOnNat
<1>4. Len(s) \in S /\ Len(s) \in Nat
  BY <1>3
<1>5. \E f : Upto(Len(s), f)
  BY <1>4 DEF S
<1> QED
  BY <1>5 DEF Recurs, Upto

\* Decrypted is the last value of any such function.
LEMMA DecryptedRecurs ==
    ASSUME NEW key, NEW s \in Seq(Packets), NEW f, Recurs(key, s, f)
    PROVE  Decrypted(key, s) = f[Len(s)]
<1> DEFINE Step(g) == [n \in 0 .. Len(s) |->
                         IF n = 0 THEN << >>
                         ELSE IF TagVerifies(key, s[n]) THEN Append(g[n - 1], s[n])
                         ELSE g[n - 1]]
<1>0. Len(s) \in Nat
  OBVIOUS
<1>1. f = Step(f)
  <2>1. ASSUME NEW n \in 0 .. Len(s) PROVE f[n] = Step(f)[n]
    <3>1. CASE n = 0
      BY <3>1 DEF Recurs
    <3>2. CASE n # 0
      <4>1. n \in 1 .. Len(s)
        BY <1>0, <3>2
      <4> QED
        BY <3>2, <4>1 DEF Recurs
    <3> QED
      BY <3>1, <3>2
  <2> QED
    BY <2>1 DEF Recurs
<1>2. ASSUME NEW g, g = Step(g) PROVE g = f
  <2> DEFINE S == {n \in Nat : n <= Len(s) => g[n] = f[n]}
  <2>1. 0 \in S
    <3>1. g[0] = << >>
      BY <1>0, <1>2
    <3> QED
      BY <3>1 DEF Recurs
  <2>2. ASSUME NEW n \in Nat, n \in S PROVE n + 1 \in S
    <3> SUFFICES ASSUME n + 1 <= Len(s) PROVE g[n + 1] = f[n + 1]
      OBVIOUS
    <3>0. n + 1 \in 0 .. Len(s) /\ n + 1 # 0 /\ (n + 1) - 1 = n /\ n <= Len(s)
      BY <1>0
    <3>1. g[n + 1] = Step(g)[n + 1]
      BY <1>2
    <3>2. f[n + 1] = Step(f)[n + 1]
      BY <1>1
    <3>3. g[n] = f[n]
      BY <2>2, <3>0
    <3> QED
      BY <3>0, <3>1, <3>2, <3>3
  <2> HIDE DEF S
  <2>3. \A n \in Nat : n \in S
    BY <2>1, <2>2, InductionOnNat
  <2> USE DEF S
  <2>4. \A n \in 0 .. Len(s) : g[n] = f[n]
    BY <1>0, <2>3
  <2>5. g = [n \in 0 .. Len(s) |-> g[n]] /\ f = [n \in 0 .. Len(s) |-> f[n]]
    BY <1>2 DEF Recurs
  <2> QED
    BY <2>4, <2>5
<1>3. \A g : g = Step(g) <=> g = f
  BY <1>1, <1>2
<1> QED
  BY <1>3 DEF Decrypted

\* One step of the recursion.
LEMMA RecursStep ==
    ASSUME NEW key, NEW s \in Seq(Packets), NEW f, Recurs(key, s, f),
           NEW n \in Nat, n + 1 <= Len(s)
    PROVE  /\ f[n] \in Seq(Packets)
           /\ s[n + 1] \in Packets
           /\ f[n + 1] = IF TagVerifies(key, s[n + 1]) THEN Append(f[n], s[n + 1]) ELSE f[n]
<1>1. Len(s) \in Nat /\ n \in 0 .. Len(s) /\ n + 1 \in 1 .. Len(s) /\ (n + 1) - 1 = n
  OBVIOUS
<1>2. f[n + 1] = IF TagVerifies(key, s[n + 1]) THEN Append(f[(n + 1) - 1], s[n + 1])
                 ELSE f[(n + 1) - 1]
  BY <1>1, Zenon DEF Recurs
<1> QED
  BY <1>1, <1>2 DEF Recurs

\* Nothing decrypts to nothing.
LEMMA DecryptedEmpty == ASSUME NEW key PROVE Decrypted(key, << >>) = << >>
<1>1. << >> \in Seq(Packets) /\ Len(<< >>) = 0
  OBVIOUS
<1>2. PICK f : Recurs(key, << >>, f)
  BY <1>1, DecryptedExists
<1>3. Decrypted(key, << >>) = f[0]
  BY <1>1, <1>2, DecryptedRecurs
<1> QED
  BY <1>2, <1>3 DEF Recurs

\* What decrypts is packets, and no more than there were.
LEMMA DecryptedType ==
    ASSUME NEW key, NEW s \in Seq(Packets)
    PROVE  Decrypted(key, s) \in Seq(Packets) /\ Len(Decrypted(key, s)) <= Len(s)
<1>0. Len(s) \in Nat
  OBVIOUS
<1>1. PICK f : Recurs(key, s, f)
  BY DecryptedExists
<1> DEFINE S == {n \in Nat : n <= Len(s) => Len(f[n]) <= n}
<1>2. 0 \in S
  BY <1>1 DEF Recurs
<1>3. ASSUME NEW n \in Nat, n \in S PROVE n + 1 \in S
  <2> SUFFICES ASSUME n + 1 <= Len(s) PROVE Len(f[n + 1]) <= n + 1
    OBVIOUS
  <2>1. Len(f[n]) <= n
    BY <1>0, <1>3
  <2> HIDE DEF S
  <2>2. /\ f[n] \in Seq(Packets) /\ s[n + 1] \in Packets
        /\ f[n + 1] = IF TagVerifies(key, s[n + 1]) THEN Append(f[n], s[n + 1]) ELSE f[n]
    BY <1>1, RecursStep, Zenon
  <2>3. CASE TagVerifies(key, s[n + 1])
    <3>1. f[n + 1] = Append(f[n], s[n + 1])
      BY <2>2, <2>3
    <3>2. Len(f[n + 1]) = Len(f[n]) + 1 /\ Len(f[n]) \in Nat
      BY <2>2, <3>1, AppendProperties
    <3> QED
      BY <2>1, <3>2
  <2>4. CASE ~TagVerifies(key, s[n + 1])
    <3>1. f[n + 1] = f[n] /\ Len(f[n]) \in Nat
      BY <2>2, <2>4
    <3> QED
      BY <2>1, <3>1
  <2> QED
    BY <2>3, <2>4
<1> HIDE DEF S
<1>4. \A n \in Nat : n \in S
  BY <1>2, <1>3, InductionOnNat
<1>5. Len(f[Len(s)]) <= Len(s) /\ f[Len(s)] \in Seq(Packets)
  BY <1>0, <1>1, <1>4 DEF S, Recurs
<1> QED
  BY <1>1, <1>5, DecryptedRecurs

\* A packet at the end of s is the last to decrypt, or does not.
LEMMA DecryptedAppend ==
    ASSUME NEW key, NEW s \in Seq(Packets), NEW pkt \in Packets
    PROVE  Decrypted(key, Append(s, pkt)) =
              IF TagVerifies(key, pkt) THEN Append(Decrypted(key, s), pkt)
              ELSE Decrypted(key, s)
<1> DEFINE t == Append(s, pkt)
<1>0. /\ t \in Seq(Packets) /\ Len(t) = Len(s) + 1 /\ Len(s) \in Nat /\ t[Len(s) + 1] = pkt
      /\ \A n \in 1 .. Len(s) : t[n] = s[n]
  OBVIOUS
<1> HIDE DEF t
<1>1. PICK f : Recurs(key, t, f)
  BY <1>0, DecryptedExists
<1> DEFINE g == [n \in 0 .. Len(s) |-> f[n]]
<1>2. Recurs(key, s, g)
  <2>1. g \in [0 .. Len(s) -> Seq(Packets)] /\ g[0] = << >>
    BY <1>0, <1>1 DEF Recurs
  <2>2. ASSUME NEW n \in 1 .. Len(s)
        PROVE  g[n] = IF TagVerifies(key, s[n]) THEN Append(g[n - 1], s[n]) ELSE g[n - 1]
    <3>1. g[n] = f[n] /\ g[n - 1] = f[n - 1] /\ n \in 1 .. Len(t) /\ t[n] = s[n]
      BY <1>0
    <3> QED
      BY <1>1, <3>1 DEF Recurs
  <2> QED
    BY <2>1, <2>2 DEF Recurs
<1>3. Decrypted(key, s) = f[Len(s)]
  <2>1. Decrypted(key, s) = g[Len(s)]
    BY <1>2, DecryptedRecurs
  <2> QED
    BY <1>0, <2>1
<1>4. Decrypted(key, t) = f[Len(s) + 1]
  BY <1>0, <1>1, DecryptedRecurs
<1>5. f[Len(s) + 1] = IF TagVerifies(key, pkt) THEN Append(f[Len(s)], pkt) ELSE f[Len(s)]
  BY <1>0, <1>1 DEF Recurs
<1> QED
  BY <1>3, <1>4, <1>5 DEF t

\* Appending to the second of two sequences.
LEMMA AppendAfter ==
    ASSUME NEW a \in Seq(Packets), NEW b \in Seq(Packets), NEW e \in Packets
    PROVE  Append(a \o b, e) = a \o Append(b, e)
<1>1. /\ Append(b, e) = b \o <<e>> /\ <<e>> \in Seq(Packets) /\ a \o b \in Seq(Packets)
      /\ Append(a \o b, e) = (a \o b) \o <<e>>
  BY AppendIsConcat, ConcatProperties
<1> QED
  BY <1>1, ConcatAssociative

\* One element between two sequences belongs to either.
LEMMA OneMore ==
    ASSUME NEW a \in Seq(Packets), NEW e \in Packets, NEW b \in Seq(Packets)
    PROVE  (a \o << >>) \o (<<e>> \o b) = (a \o <<e>>) \o b
<1>1. a \o << >> = a
  BY ConcatEmptySeq
<1>2. <<e>> \in Seq(Packets)
  OBVIOUS
<1>3. (a \o <<e>>) \o b = a \o (<<e>> \o b)
  BY <1>2, ConcatAssociative
<1> QED
  BY <1>1, <1>3

\* Three sequences after one another.
LEMMA Regrouped ==
    ASSUME NEW a \in Seq(Packets), NEW b \in Seq(Packets), NEW d \in Seq(Packets)
    PROVE  /\ b \o d \in Seq(Packets)
           /\ a \o b \o d = a \o (b \o d)
BY ConcatProperties, ConcatAssociative

\* The first of two sequences is a prefix of both.
LEMMA PrefixOfBoth ==
    ASSUME NEW a \in Seq(Packets), NEW b \in Seq(Packets)
    PROVE  /\ a \o b \in Seq(Packets)
           /\ Len(a) \in 0 .. Len(a \o b)
           /\ SubSeq(a \o b, 1, Len(a)) = a
<1> DEFINE w == a \o b
<1>1. /\ w \in Seq(Packets) /\ Len(w) = Len(a) + Len(b) /\ Len(a) \in Nat /\ Len(b) \in Nat
      /\ \A i \in 1 .. Len(a) : w[i] = a[i]
  BY ConcatProperties
<1> HIDE DEF w
<1>2. Len(a) \in 0 .. Len(w)
  BY <1>1
<1>3. SubSeq(w, 1, Len(a)) = a
  BY <1>1
<1> QED
  BY <1>1, <1>2, <1>3 DEF w

\* The packet at the head of s is the first to decrypt, or does not.
LEMMA DecryptedHead ==
    ASSUME NEW key, NEW s \in Seq(Packets), s # << >>
    PROVE  Decrypted(key, s) =
              (IF TagVerifies(key, Head(s)) THEN <<Head(s)>> ELSE << >>)
                 \o Decrypted(key, Tail(s))
<1> DEFINE t == Tail(s)
           first == IF TagVerifies(key, Head(s)) THEN <<Head(s)>> ELSE << >>
<1>0. /\ t \in Seq(Packets) /\ Len(s) = Len(t) + 1 /\ Len(t) \in Nat
      /\ Head(s) = s[1] /\ Head(s) \in Packets
      /\ \A n \in 1 .. Len(t) : t[n] = s[n + 1]
  BY HeadTailProperties
<1>f. first \in Seq(Packets)
  BY <1>0
<1>1. PICK f : Recurs(key, s, f)
  BY DecryptedExists
<1>2. PICK g : Recurs(key, t, g)
  BY <1>0, DecryptedExists
<1> DEFINE S == {n \in Nat : n <= Len(t) => f[n + 1] = first \o g[n]}
<1> HIDE DEF t, first, S
<1>3. 0 \in S
  <2>1. f[0 + 1] = IF TagVerifies(key, s[0 + 1]) THEN Append(f[0], s[0 + 1]) ELSE f[0]
    <3>1. 0 \in Nat /\ 0 + 1 <= Len(s)
      BY <1>0
    <3> QED
      BY <1>1, <3>1, RecursStep, Zenon
  <2>2. f[0] = << >> /\ g[0] = << >>
    BY <1>1, <1>2 DEF Recurs
  <2>3. Append(<< >>, s[1]) = <<s[1]>> /\ 0 + 1 = 1
    OBVIOUS
  <2>4. f[0 + 1] = first
    BY <1>0, <2>1, <2>2, <2>3 DEF first
  <2>5. first \o << >> = first
    BY <1>f, ConcatEmptySeq
  <2> QED
    BY <2>2, <2>4, <2>5 DEF S
<1>4. ASSUME NEW n \in Nat, n \in S, n + 1 <= Len(t)
      PROVE  f[(n + 1) + 1] = first \o g[n + 1]
  <2>1. f[(n + 1) + 1] = IF TagVerifies(key, s[(n + 1) + 1])
                         THEN Append(f[n + 1], s[(n + 1) + 1]) ELSE f[n + 1]
    <3>1. n + 1 \in Nat /\ (n + 1) + 1 <= Len(s)
      BY <1>0, <1>4
    <3> QED
      BY <1>1, <3>1, RecursStep, Zenon
  <2>2. /\ g[n + 1] = IF TagVerifies(key, t[n + 1]) THEN Append(g[n], t[n + 1]) ELSE g[n]
        /\ g[n] \in Seq(Packets) /\ t[n + 1] \in Packets
    BY <1>0, <1>2, <1>4, RecursStep
  <2>3. t[n + 1] = s[(n + 1) + 1]
    <3>1. n + 1 \in 1 .. Len(t)
      BY <1>0, <1>4
    <3> QED
      BY <1>0, <3>1
  <2>4. f[n + 1] = first \o g[n]
    BY <1>0, <1>4 DEF S
  <2>5. Append(first \o g[n], t[n + 1]) = first \o Append(g[n], t[n + 1])
    <3>1. PICK a \in Seq(Packets) : a = first
      BY <1>f, Zenon
    <3>2. PICK b \in Seq(Packets) : b = g[n]
      BY <2>2, Zenon
    <3>3. PICK e \in Packets : e = t[n + 1]
      BY <2>2, Zenon
    <3>4. Append(a \o b, e) = a \o Append(b, e)
      BY AppendAfter
    <3> QED
      BY <3>1, <3>2, <3>3, <3>4, Zenon
  <2> QED
    BY <2>1, <2>2, <2>3, <2>4, <2>5
<1>s. \A n \in Nat : n \in S => n + 1 \in S
  <2> SUFFICES ASSUME NEW n \in Nat, n \in S PROVE n + 1 \in S
    OBVIOUS
  <2>1. n + 1 \in Nat
    OBVIOUS
  <2>2. n + 1 <= Len(t) => f[(n + 1) + 1] = first \o g[n + 1]
    BY <1>4
  <2> QED
    BY <2>1, <2>2, Zenon DEF S
<1>5. \A n \in Nat : n \in S
  BY <1>3, <1>s, InductionOnNat
<1>6. f[Len(t) + 1] = first \o g[Len(t)]
  <2>1. Len(t) \in S /\ Len(t) <= Len(t)
    BY <1>0, <1>5
  <2> QED
    BY <2>1 DEF S
<1>7. Decrypted(key, s) = f[Len(s)] /\ Decrypted(key, t) = g[Len(t)]
  BY <1>0, <1>1, <1>2, DecryptedRecurs
<1> QED
  BY <1>0, <1>6, <1>7 DEF t, first

-----------------------------------------------------------------------------
(* The pump                                                                *)

\* No pump runs yet, it is in step.
LEMMA InitInStep == Init => PumpInStep
  BY DEF Init, PumpInStep, PumpSteps

\* Every step keeps the pump in step.
LEMMA NextInStep == TypeOK /\ PumpInStep /\ [Next]_vars => PumpInStep'
<1> SUFFICES ASSUME TypeOK, PumpInStep, [Next]_vars
             PROVE  PumpInStep'
  OBVIOUS
<1> USE DEF callVars, streamVars, worldVars, PumpSteps, PumpInStep
<1>u. CASE UNCHANGED vars
  BY <1>u DEF vars
<1>c. ASSUME NEW c \in Calls,
             Claim(c) \/ Call(c) \/ Pump(c) \/ Receive(c) \/ Cancel(c) \/ TransportEnds(c)
      PROVE  PumpInStep'
  <2> USE DEF Goto, TypeOK
  <2>1. CASE Claim(c)
    BY <2>1 DEF Claim
  <2>2. CASE CaptureKey(c)
    BY <2>2 DEF CaptureKey
  <2>3. CASE Subscribed(c)
    BY <2>3 DEF Subscribed
  <2>4. CASE SubscribeFails(c)
    BY <2>4 DEF SubscribeFails
  <2>5. CASE ReturnError(c)
    BY <2>5 DEF ReturnError
  <2>6. CASE PumpTakes(c)
    BY <2>6 DEF PumpTakes, AfterDecryptFailure
  <2>7. CASE PumpDelivers(c)
    BY <2>7 DEF PumpDelivers
  <2>8. CASE PumpStops(c)
    BY <2>8 DEF PumpStops, PumpMayStop
  <2>9. CASE PumpReleases(c)
    BY <2>9 DEF PumpReleases
  <2>10. CASE PumpClosesOut(c)
    BY <2>10 DEF PumpClosesOut
  <2>11. CASE Receive(c)
    BY <2>11 DEF Receive
  <2>12. CASE Cancel(c)
    BY <2>12 DEF Cancel
  <2>13. CASE TransportEnds(c)
    BY <2>13 DEF TransportEnds
  <2> QED
    BY <1>c, <2>1, <2>2, <2>3, <2>4, <2>5, <2>6, <2>7, <2>8, <2>9, <2>10, <2>11,
       <2>12, <2>13
    DEF Call, Pump
<1>n. CASE NodeNotifies \/ MeshRetransmits \/ Login
  <2>1. /\ UNCHANGED <<call, held, out, ctxDone, rawEnded>>
        /\ \A c \in Calls : call[c] \notin PumpSteps => raw'[c] = raw[c]
    BY <1>n DEF NodeNotifies, MeshRetransmits, Login, Arrives, Listening, Pumps
  <2> QED
    BY <2>1
<1> QED
  BY <1>u, <1>c, <1>n DEF Next

StreamInv == TypeOK /\ ActiveIffOwned /\ PumpInStep

-----------------------------------------------------------------------------
(* The steps of Notifications as steps of NotificationStream               *)

Phases == [c \in Calls |-> Phase(c)]
Queues == [c \in Calls |-> UnderWay(c)]

\* Notifications starts as NotificationStream does.
LEMMA InitMaps == Init => Stream!Init
<1> SUFFICES ASSUME Init PROVE Stream!Init
  OBVIOUS
<1>1. \A c \in Calls : Phase(c) = "asked" /\ UnderWay(c) = << >>
  BY DEF Init, Phase, UnderWay
<1> QED
  BY <1>1 DEF Init, Stream!Init

\* What is under way fits into the three places that hold it.
LEMMA UnderWayType ==
    ASSUME StreamInv, NEW c \in Calls
    PROVE  /\ UnderWay(c) \in Seq(Packets)
           /\ Len(UnderWay(c)) <= Len(raw[c]) + 1 + OutCap
<1>1. /\ raw[c] \in Seq(Packets) /\ held[c] \in Seq(Packets) /\ out[c] \in Seq(Packets)
      /\ Len(held[c]) <= 1 /\ Len(out[c]) <= OutCap
  BY DEF StreamInv, TypeOK
<1>2. /\ Decrypted(sk[c], raw[c]) \in Seq(Packets)
      /\ Len(Decrypted(sk[c], raw[c])) <= Len(raw[c])
  BY <1>1, DecryptedType
<1>3. /\ out[c] \o held[c] \o Decrypted(sk[c], raw[c]) \in Seq(Packets)
      /\ Len(out[c] \o held[c] \o Decrypted(sk[c], raw[c]))
            = Len(out[c]) + Len(held[c]) + Len(Decrypted(sk[c], raw[c]))
  BY <1>1, <1>2
<1>4. Len(raw[c]) \in Nat /\ Len(held[c]) \in Nat /\ Len(out[c]) \in Nat
      /\ Len(Decrypted(sk[c], raw[c])) \in Nat
  BY <1>1, <1>2
<1>5. CASE call[c] \in {"select", "deliver"}
  <2>1. UnderWay(c) = out[c] \o held[c] \o Decrypted(sk[c], raw[c])
    BY <1>5 DEF UnderWay
  <2>2. UnderWay(c) \in Seq(Packets)
    BY <1>3, <2>1, Zenon
  <2>3. Len(UnderWay(c)) = Len(out[c]) + Len(held[c]) + Len(Decrypted(sk[c], raw[c]))
    BY <1>3, <2>1, Zenon
  <2>4. Len(UnderWay(c)) <= Len(raw[c]) + 1 + OutCap
    <3>1. \A i, j, k, l \in Nat : i <= OutCap /\ j <= 1 /\ k <= l => i + j + k <= l + 1 + OutCap
      BY NotificationsAssumption
    <3> HIDE DEF UnderWay
    <3>2. Len(out[c]) + Len(held[c]) + Len(Decrypted(sk[c], raw[c])) <= Len(raw[c]) + 1 + OutCap
      BY <1>1, <1>2, <1>4, <3>1, Zenon
    <3> QED
      BY <2>3, <3>2, Zenon
  <2> QED
    BY <2>2, <2>4
<1>6. CASE call[c] \notin {"select", "deliver"}
  <2>1. UnderWay(c) = out[c]
    BY <1>6 DEF UnderWay
  <2> QED
    BY <1>1, <1>4, <2>1, NotificationsAssumption
<1> QED
  BY <1>5, <1>6

\* A step that changes nothing of the other calls.
Alone(c) ==
    \A d \in Calls \ {c} :
        /\ call'[d] = call[d] /\ sk'[d] = sk[d]
        /\ raw'[d] = raw[d] /\ held'[d] = held[d] /\ out'[d] = out[d]

\* A step of one call changes phase and queue of no other.
LEMMA OthersKept ==
    ASSUME NEW c \in Calls, Alone(c), NEW x, NEW q, Phase(c)' = x, UnderWay(c)' = q
    PROVE  /\ Phases' = [Phases EXCEPT ![c] = x]
           /\ Queues' = [Queues EXCEPT ![c] = q]
<1>1. \A d \in Calls \ {c} : Phase(d)' = Phase(d) /\ UnderWay(d)' = UnderWay(d)
  BY DEF Alone, Phase, UnderWay
<1> QED
  BY <1>1 DEF Phases, Queues

\* A step that changes neither is a stutter of the stream.
LEMMA CallStutters ==
    ASSUME NEW c \in Calls, Alone(c), Phase(c)' = Phase(c), UnderWay(c)' = UnderWay(c),
           UNCHANGED <<ctxDone, rawEnded>>
    PROVE  UNCHANGED Stream!nsVars
<1>1. Phases' = Phases /\ Queues' = Queues
  <2>1. /\ Phases' = [Phases EXCEPT ![c] = Phase(c)]
        /\ Queues' = [Queues EXCEPT ![c] = UnderWay(c)]
    BY OthersKept
  <2> QED
    BY <2>1 DEF Phases, Queues
<1> QED
  BY <1>1 DEF Stream!nsVars, Phases, Queues

\* Taking the head of the first of three sequences.
LEMMA TailOfConcat ==
    ASSUME NEW a \in Seq(Packets), NEW b \in Seq(Packets), NEW d \in Seq(Packets),
           a # << >>
    PROVE  a \o b \o d # << >> /\ Tail(a \o b \o d) = Tail(a) \o b \o d
<1>1. ASSUME NEW x \in Seq(Packets), NEW y \in Seq(Packets), x # << >>
      PROVE  x \o y \in Seq(Packets) /\ x \o y # << >> /\ Tail(x \o y) = Tail(x) \o y
  BY <1>1
<1>2. a \o b \in Seq(Packets) /\ a \o b # << >> /\ Tail(a \o b) = Tail(a) \o b
  BY <1>1
<1>3. PICK e \in Seq(Packets) : e = a \o b
  BY <1>2, Zenon
<1>4. e # << >>
  BY <1>2, <1>3, Zenon
<1>5. e \o d # << >> /\ Tail(e \o d) = Tail(e) \o d
  BY <1>1, <1>4
<1> QED
  BY <1>2, <1>3, <1>5, Zenon

\* A step of a call is one of the stream, or a stutter.
LEMMA CallMaps ==
    ASSUME StreamInv, NEW c \in Calls,
           Claim(c) \/ Call(c) \/ Pump(c) \/ Receive(c) \/ Cancel(c) \/ TransportEnds(c)
    PROVE  Stream!Next \/ UNCHANGED Stream!nsVars
<1> DEFINE D == Decrypted(sk[c], raw[c])
<1>t. /\ raw \in [Calls -> Seq(Packets)] /\ held \in [Calls -> Seq(Packets)]
      /\ out \in [Calls -> Seq(Packets)] /\ DOMAIN call = Calls /\ DOMAIN sk = Calls
      /\ raw[c] \in Seq(Packets) /\ held[c] \in Seq(Packets) /\ out[c] \in Seq(Packets)
      /\ call[c] \notin PumpSteps \union {"done"} =>
            raw[c] = << >> /\ held[c] = << >> /\ out[c] = << >>
      /\ call[c] = "select" => held[c] = << >>
      /\ call[c] = "release" => c \in ctxDone \union rawEnded
  BY DEF StreamInv, TypeOK, PumpInStep
<1>d. D \in Seq(Packets)
  BY <1>t, DecryptedType
<1>q. Queues[c] = UnderWay(c) /\ Phases[c] = Phase(c)
  BY DEF Queues, Phases
<1>e. << >> \in Seq(Packets) /\ << >> \o << >> = << >>
  OBVIOUS
<1> USE DEF callVars, streamVars, worldVars, Goto, Alone
<1> HIDE DEF D
<1>1. CASE Claim(c)
  <2>1. Alone(c) /\ UnderWay(c)' = UnderWay(c) /\ UNCHANGED <<ctxDone, rawEnded>>
    BY <1>1, <1>t DEF Claim, UnderWay
  <2>2. CASE notifyActive
    <3>1. Phase(c) = "asked" /\ Phase(c)' = "closed"
      BY <1>1, <1>t, <2>2 DEF Claim, Phase
    <3>2. Phases' = [Phases EXCEPT ![c] = "closed"] /\ Queues' = Queues
      BY <2>1, <3>1, OthersKept DEF Queues
    <3>3. Stream!Fail(c)
      BY <1>q, <2>1, <3>1, <3>2 DEF Stream!Fail, Phases, Queues
    <3> QED
      BY <3>3 DEF Stream!Next
  <2>3. CASE ~notifyActive
    <3>1. Phase(c)' = Phase(c)
      BY <1>1, <1>t, <2>3 DEF Claim, Phase
    <3> QED
      BY <2>1, <3>1, CallStutters
  <2> QED
    BY <2>2, <2>3
<1>2. CASE CaptureKey(c)
  <2>1. /\ Alone(c) /\ UnderWay(c)' = UnderWay(c) /\ Phase(c)' = Phase(c)
        /\ UNCHANGED <<ctxDone, rawEnded>>
    BY <1>2, <1>t DEF CaptureKey, UnderWay, Phase
  <2> QED
    BY <2>1, CallStutters
<1>3. CASE Subscribed(c)
  <2>1. /\ Alone(c) /\ Phase(c) = "asked" /\ Phase(c)' = "open"
        /\ UNCHANGED <<ctxDone, rawEnded>>
    BY <1>3, <1>t DEF Subscribed, Phase
  <2>2. UnderWay(c)' = UnderWay(c)
    <3>1. UnderWay(c)' = out[c] \o held[c] \o Decrypted(sk[c], raw[c])
      BY <1>3, <1>t DEF Subscribed, UnderWay
    <3>2. raw[c] = << >> /\ held[c] = << >> /\ out[c] = << >> /\ UnderWay(c) = out[c]
      BY <1>3, <1>t DEF Subscribed, PumpSteps, UnderWay
    <3>3. Decrypted(sk[c], raw[c]) = << >>
      BY <3>2, DecryptedEmpty
    <3> QED
      BY <1>e, <3>1, <3>2, <3>3
  <2>3. \A d \in Calls : Phases[d] # "open"
    <3> SUFFICES ASSUME NEW d \in Calls, Phases[d] = "open" PROVE FALSE
      OBVIOUS
    <3>1. call[d] \in {"select", "deliver", "release"}
      BY DEF Phases, Phase
    <3>2. c \in Owners /\ d \in Owners
      BY <1>3, <3>1 DEF Subscribed, Owners, OwnerSteps
    <3>3. c = d
      BY <3>2 DEF StreamInv, ActiveIffOwned
    <3> QED
      BY <1>3, <3>1, <3>3 DEF Subscribed
  <2>4. Phases' = [Phases EXCEPT ![c] = "open"] /\ Queues' = Queues
    BY <2>1, <2>2, OthersKept DEF Queues
  <2>5. Stream!Open(c)
    BY <1>q, <2>1, <2>3, <2>4 DEF Stream!Open, Phases, Queues
  <2> QED
    BY <2>5 DEF Stream!Next
<1>4. CASE SubscribeFails(c)
  <2>1. /\ Alone(c) /\ UnderWay(c)' = UnderWay(c) /\ Phase(c)' = Phase(c)
        /\ UNCHANGED <<ctxDone, rawEnded>>
    BY <1>4, <1>t DEF SubscribeFails, UnderWay, Phase
  <2> QED
    BY <2>1, CallStutters
<1>5. CASE ReturnError(c)
  <2>1. /\ Alone(c) /\ UnderWay(c)' = UnderWay(c) /\ UNCHANGED <<ctxDone, rawEnded>>
        /\ Phase(c) = "asked" /\ Phase(c)' = "closed"
    BY <1>5, <1>t DEF ReturnError, UnderWay, Phase
  <2>2. Phases' = [Phases EXCEPT ![c] = "closed"] /\ Queues' = Queues
    BY <2>1, OthersKept DEF Queues
  <2>3. Stream!Fail(c)
    BY <1>q, <2>1, <2>2 DEF Stream!Fail, Phases, Queues
  <2> QED
    BY <2>3 DEF Stream!Next
<1>6. CASE PumpTakes(c)
  <2>1. /\ Alone(c) /\ Phase(c)' = Phase(c) /\ UNCHANGED <<ctxDone, rawEnded>>
    BY <1>6, <1>t DEF PumpTakes, AfterDecryptFailure, Phase
  <2>2. UnderWay(c) = out[c] \o << >> \o D /\ held[c] = << >>
    BY <1>6, <1>t DEF PumpTakes, UnderWay, D
  <2> DEFINE rest == Decrypted(sk[c], Tail(raw[c]))
  <2>3. rest \in Seq(Packets) /\ Head(raw[c]) \in Packets
    BY <1>6, <1>t, DecryptedType, HeadTailProperties DEF PumpTakes
  <2>4. D = (IF TagVerifies(sk[c], Head(raw[c])) THEN <<Head(raw[c])>> ELSE << >>) \o rest
    BY <1>6, <1>t, DecryptedHead DEF PumpTakes, D
  <2>5. UnderWay(c)' = out[c] \o held'[c] \o rest
    BY <1>6, <1>t DEF PumpTakes, AfterDecryptFailure, UnderWay
  <2> HIDE DEF rest
  <2>6. CASE TagVerifies(sk[c], Head(raw[c]))
    <3>1. held'[c] = <<Head(raw[c])>>
      BY <1>6, <1>t, <2>6 DEF PumpTakes, Decrypts
    <3>2. (out[c] \o << >>) \o (<<Head(raw[c])>> \o rest)
             = (out[c] \o <<Head(raw[c])>>) \o rest
      <4>1. out[c] \in Seq(Packets)
        BY <1>t
      <4> QED
        BY <2>3, <4>1, OneMore, Zenon
    <3>3. UnderWay(c)' = UnderWay(c)
      BY <2>2, <2>4, <2>5, <2>6, <3>1, <3>2
    <3> QED
      BY <2>1, <3>3, CallStutters
  <2>7. CASE ~TagVerifies(sk[c], Head(raw[c]))
    <3>1. held'[c] = << >>
      BY <1>6, <1>t, <2>7 DEF PumpTakes, Decrypts
    <3>2. << >> \o rest = rest
      BY <2>3, ConcatEmptySeq
    <3>3. UnderWay(c)' = UnderWay(c)
      BY <2>2, <2>4, <2>5, <2>7, <3>1, <3>2
    <3> QED
      BY <2>1, <3>3, CallStutters
  <2> QED
    BY <2>6, <2>7
<1>7. CASE PumpDelivers(c)
  <2>1. /\ Alone(c) /\ Phase(c)' = Phase(c) /\ UNCHANGED <<ctxDone, rawEnded>>
    BY <1>7, <1>t DEF PumpDelivers, Phase
  <2>2. UnderWay(c) = out[c] \o held[c] \o D
    BY <1>7, <1>t DEF PumpDelivers, UnderWay, D
  <2>3. UnderWay(c)' = (out[c] \o held[c]) \o << >> \o D
    BY <1>7, <1>t DEF PumpDelivers, UnderWay, D
  <2>4. out[c] \o held[c] \in Seq(Packets)
    BY <1>t, ConcatProperties
  <2>5. (out[c] \o held[c]) \o << >> = out[c] \o held[c]
    BY <2>4, ConcatEmptySeq
  <2> QED
    BY <2>1, <2>2, <2>3, <2>5, CallStutters
<1>8. CASE PumpStops(c)
  <2>1. /\ Alone(c) /\ Phase(c)' = Phase(c) /\ UNCHANGED <<ctxDone, rawEnded>>
        /\ UnderWay(c)' = out[c] /\ UnderWay(c) = out[c] \o held[c] \o D
    BY <1>8, <1>t DEF PumpStops, PumpMayStop, Phase, UnderWay, D
  <2>2. CASE c \in ctxDone
    <3> DEFINE n == Len(out[c])
    <3>1. held[c] \o D \in Seq(Packets)
          /\ UnderWay(c) = out[c] \o (held[c] \o D)
      <4>1. out[c] \in Seq(Packets) /\ held[c] \in Seq(Packets)
        BY <1>t
      <4>2. held[c] \o D \in Seq(Packets) /\ out[c] \o held[c] \o D = out[c] \o (held[c] \o D)
        BY <1>d, <4>1, Regrouped, Zenon
      <4> QED
        BY <2>1, <4>2, Zenon
    <3>2. n \in 0 .. Len(UnderWay(c)) /\ SubSeq(UnderWay(c), 1, n) = out[c]
      <4>1. out[c] \in Seq(Packets)
        BY <1>t
      <4>2. /\ Len(out[c]) \in 0 .. Len(out[c] \o (held[c] \o D))
            /\ SubSeq(out[c] \o (held[c] \o D), 1, Len(out[c])) = out[c]
        BY <3>1, <4>1, PrefixOfBoth, Zenon
      <4> QED
        BY <3>1, <4>2, Zenon
    <3>3. Phases' = Phases /\ Queues' = [Queues EXCEPT ![c] = SubSeq(UnderWay(c), 1, n)]
      <4>1. /\ Phases' = [Phases EXCEPT ![c] = Phase(c)]
            /\ Queues' = [Queues EXCEPT ![c] = out[c]]
        BY <2>1, OthersKept
      <4> QED
        BY <3>2, <4>1 DEF Phases
    <3>4. Stream!Lose(c)
      BY <1>q, <2>1, <2>2, <3>2, <3>3 DEF Stream!Lose, Phases, Queues
    <3> QED
      BY <3>4 DEF Stream!Next
  <2>3. CASE c \notin ctxDone
    <3>1. held[c] = << >> /\ raw[c] = << >>
      BY <1>8, <1>t, <2>3 DEF PumpStops, PumpMayStop
    <3>2. D = << >>
      BY <3>1, DecryptedEmpty DEF D
    <3>3. out[c] \o << >> = out[c]
      BY <1>t, ConcatEmptySeq
    <3> QED
      BY <2>1, <3>1, <3>2, <3>3, CallStutters
  <2> QED
    BY <2>2, <2>3
<1>9. CASE PumpReleases(c)
  <2>1. /\ Alone(c) /\ UnderWay(c)' = UnderWay(c) /\ UNCHANGED <<ctxDone, rawEnded>>
        /\ Phase(c) = "open" /\ Phase(c)' = "released" /\ c \in ctxDone \union rawEnded
    BY <1>9, <1>t DEF PumpReleases, UnderWay, Phase
  <2>2. Phases' = [Phases EXCEPT ![c] = "released"] /\ Queues' = Queues
    BY <2>1, OthersKept DEF Queues
  <2>3. Stream!Release(c)
    BY <1>q, <2>1, <2>2 DEF Stream!Release, Phases, Queues
  <2> QED
    BY <2>3 DEF Stream!Next
<1>10. CASE PumpClosesOut(c)
  <2>1. /\ Alone(c) /\ UnderWay(c)' = UnderWay(c) /\ UNCHANGED <<ctxDone, rawEnded>>
        /\ Phase(c) = "released" /\ Phase(c)' = "closed"
    BY <1>10, <1>t DEF PumpClosesOut, UnderWay, Phase
  <2>2. Phases' = [Phases EXCEPT ![c] = "closed"] /\ Queues' = Queues
    BY <2>1, OthersKept DEF Queues
  <2>3. Stream!Close(c)
    BY <1>q, <2>1, <2>2 DEF Stream!Close, Phases, Queues
  <2> QED
    BY <2>3 DEF Stream!Next
<1>11. CASE Receive(c)
  <2>1. /\ Alone(c) /\ Phase(c)' = Phase(c) /\ UNCHANGED <<ctxDone, rawEnded>>
        /\ out[c] # << >> /\ out'[c] = Tail(out[c]) /\ Tail(out[c]) \in Seq(Packets)
    BY <1>11, <1>t, HeadTailProperties DEF Receive, Phase
  <2>2. UnderWay(c) # << >> /\ UnderWay(c)' = Tail(UnderWay(c))
    <3>1. CASE call[c] \in {"select", "deliver"}
      <4>1. UnderWay(c) = out[c] \o held[c] \o D /\ UnderWay(c)' = Tail(out[c]) \o held[c] \o D
        BY <1>11, <1>t, <2>1, <3>1 DEF Receive, UnderWay, D
      <4>2. PICK a \in Seq(Packets), b \in Seq(Packets), d \in Seq(Packets) :
               a = out[c] /\ b = held[c] /\ d = D
        BY <1>t, <1>d, Zenon
      <4>3. a \o b \o d # << >> /\ Tail(a \o b \o d) = Tail(a) \o b \o d
        <5>1. a # << >>
          BY <2>1, <4>2, Zenon
        <5> QED
          BY <5>1, TailOfConcat
      <4> QED
        BY <4>1, <4>2, <4>3, Zenon
    <3>2. CASE call[c] \notin {"select", "deliver"}
      BY <1>11, <1>t, <2>1, <3>2 DEF Receive, UnderWay
    <3> QED
      BY <3>1, <3>2
  <2>3. Phases' = Phases /\ Queues' = [Queues EXCEPT ![c] = Tail(UnderWay(c))]
    BY <2>1, <2>2, OthersKept DEF Phases
  <2>4. Stream!Leave(c)
    BY <1>q, <2>1, <2>2, <2>3 DEF Stream!Leave, Phases, Queues
  <2> QED
    BY <2>4 DEF Stream!Next
<1>12. CASE Cancel(c)
  <2>1. /\ Phases' = Phases /\ Queues' = Queues /\ UNCHANGED rawEnded
        /\ ctxDone' = ctxDone \union {c}
    BY <1>12 DEF Cancel, Phases, Queues, Phase, UnderWay
  <2>2. Stream!Cancel(c)
    BY <2>1 DEF Stream!Cancel, Phases, Queues
  <2> QED
    BY <2>2 DEF Stream!Next
<1>13. CASE TransportEnds(c)
  <2>1. /\ Phases' = Phases /\ Queues' = Queues /\ UNCHANGED ctxDone
        /\ rawEnded' = rawEnded \union {c}
    BY <1>13 DEF TransportEnds, Phases, Queues, Phase, UnderWay
  <2>2. Stream!End(c)
    BY <2>1 DEF Stream!End, Phases, Queues
  <2> QED
    BY <2>2 DEF Stream!Next
<1> QED
  BY <1>1, <1>2, <1>3, <1>4, <1>5, <1>6, <1>7, <1>8, <1>9, <1>10, <1>11, <1>12,
     <1>13
  DEF Call, Pump

\* A packet off the air enters the open stream it decrypts for, if any.
LEMMA ArrivalMaps ==
    ASSUME StreamInv, NEW pkt \in Packets, Arrives(pkt),
           UNCHANGED <<call, sk, held, out, rawEnded, ctxDone>>
    PROVE  Stream!Next \/ UNCHANGED Stream!nsVars
<1> DEFINE Entered(c) == /\ c \in Listening /\ call[c] \in {"select", "deliver"}
                         /\ TagVerifies(sk[c], pkt)
<1>t. \A c \in Calls : /\ raw[c] \in Seq(Packets) /\ held[c] \in Seq(Packets)
                       /\ out[c] \in Seq(Packets) /\ Len(raw[c]) <= RawCap
  BY DEF StreamInv, TypeOK
<1>1. Phases' = Phases
  BY DEF Phases, Phase
<1>2. ASSUME NEW c \in Calls, ~Entered(c)
      PROVE  UnderWay(c)' = UnderWay(c)
  <2>1. CASE c \notin Listening
    BY <2>1 DEF Arrives, UnderWay
  <2>2. CASE call[c] \notin {"select", "deliver"}
    BY <2>2 DEF UnderWay
  <2>3. CASE c \in Listening /\ ~TagVerifies(sk[c], pkt)
    <3>1. raw'[c] = Append(raw[c], pkt)
      BY <2>3 DEF Arrives
    <3>2. Decrypted(sk[c], raw'[c]) = Decrypted(sk[c], raw[c])
      BY <1>t, <2>3, <3>1, DecryptedAppend
    <3> QED
      BY <3>2 DEF UnderWay
  <2> QED
    BY <1>2, <2>1, <2>2, <2>3
<1>3. CASE \E c \in Calls : Entered(c)
  <2>1. PICK c \in Calls : Entered(c)
    BY <1>3
  <2>2. \A d \in Calls \ {c} : ~Entered(d)
    <3>1. \A d \in Calls : Entered(d) => d \in Owners
      BY DEF Owners, OwnerSteps
    <3> QED
      BY <2>1, <3>1 DEF StreamInv, ActiveIffOwned
  <2>3. raw'[c] = Append(raw[c], pkt) /\ Len(raw[c]) < RawCap /\ c \notin rawEnded
    BY <2>1 DEF Arrives, Listening
  <2>4. Decrypted(sk[c], raw'[c]) = Append(Decrypted(sk[c], raw[c]), pkt)
    BY <1>t, <2>1, <2>3, DecryptedAppend
  <2>5. UnderWay(c)' = Append(UnderWay(c), pkt)
    <3>1. /\ UnderWay(c) = (out[c] \o held[c]) \o Decrypted(sk[c], raw[c])
          /\ UnderWay(c)' = (out[c] \o held[c]) \o Append(Decrypted(sk[c], raw[c]), pkt)
      BY <2>1, <2>4 DEF UnderWay
    <3>2. PICK a \in Seq(Packets) : a = out[c] \o held[c]
      BY <1>t, ConcatProperties
    <3>3. PICK b \in Seq(Packets) : b = Decrypted(sk[c], raw[c])
      BY <1>t, DecryptedType
    <3>4. Append(a \o b, pkt) = a \o Append(b, pkt)
      BY AppendAfter
    <3> QED
      BY <3>1, <3>2, <3>3, <3>4, Zenon
  <2>6. Queues' = [Queues EXCEPT ![c] = Append(Queues[c], pkt)]
    BY <1>2, <2>2, <2>5 DEF Queues
  <2>7. Len(Queues[c]) < RawCap + 1 + OutCap
    <3>1. Len(UnderWay(c)) <= Len(raw[c]) + 1 + OutCap /\ Len(UnderWay(c)) \in Nat
          /\ Len(raw[c]) \in Nat
      BY <1>t, UnderWayType
    <3> QED
      BY <2>3, <3>1, NotificationsAssumption DEF Queues
  <2>8. Phases[c] = "open"
    BY <2>1 DEF Phases, Phase
  <2>9. Stream!Enter(c)
    BY <1>1, <2>3, <2>6, <2>7, <2>8 DEF Stream!Enter, Phases, Queues
  <2> QED
    BY <2>9 DEF Stream!Next
<1>4. CASE \A c \in Calls : ~Entered(c)
  <2>1. Queues' = Queues
    BY <1>2, <1>4 DEF Queues
  <2> QED
    BY <1>1, <2>1 DEF Stream!nsVars, Phases, Queues
<1> QED
  BY <1>3, <1>4

\* So is every step.
LEMMA NextMaps ==
    ASSUME StreamInv, [Next]_vars
    PROVE  Stream!Next \/ UNCHANGED Stream!nsVars
<1>1. CASE UNCHANGED vars \/ Login
  <2>1. Phases' = Phases /\ Queues' = Queues /\ UNCHANGED <<ctxDone, rawEnded>>
    BY <1>1
    DEF vars, Login, callVars, streamVars, Phases, Queues, Phase, UnderWay
  <2> QED
    BY <2>1 DEF Stream!nsVars, Phases, Queues
<1>2. CASE NodeNotifies
  <2>1. PICK s \in {session - 1, session} \intersect Nat :
             Arrives([session |-> s, id |-> Len(notes) + 1])
    BY <1>2 DEF NodeNotifies
  <2>2. [session |-> s, id |-> Len(notes) + 1] \in Packets
    BY <1>2, NotificationsAssumption DEF NodeNotifies, StreamInv, TypeOK, Packets
  <2> QED
    BY <1>2, <2>1, <2>2, ArrivalMaps DEF NodeNotifies, callVars
<1>3. CASE MeshRetransmits
  <2>1. PICK i \in DOMAIN notes : Arrives(notes[i])
    BY <1>3 DEF MeshRetransmits
  <2>2. notes[i] \in Packets
    BY DEF StreamInv, TypeOK
  <2> QED
    BY <1>3, <2>1, <2>2, ArrivalMaps DEF MeshRetransmits, callVars
<1> QED
  BY <1>1, <1>2, <1>3, CallMaps DEF Next

\* The types, the ownership of the stream and the pump's step are kept
\* together (Notifications and its goroutine in notification.go).
THEOREM StreamInvariant == Spec => []StreamInv
  BY InitType, NextType, InitOwned, NextOwned, InitInStep, NextInStep, PTL
  DEF Spec, StreamInv

\* Step by step, Notifications gives each caller the stream that is promised:
\* from raw through the hand of the pump to out nothing is lost or moved
\* unless the call is cancelled, and the channel is closed only at a
\* cancellation or the end of raw (the safety part of
\* ImplementsNotificationStream).
THEOREM StreamRefinement == Spec => Stream!SafeSpec
<1>1. Init => Stream!Init
  BY InitMaps
<1>2. StreamInv /\ [Next]_vars => [Stream!Next]_(Stream!nsVars)
  BY NextMaps
<1> QED
  BY <1>1, <1>2, StreamInvariant, PTL DEF Spec, Stream!SafeSpec

=============================================================================
