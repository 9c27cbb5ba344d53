--------------------------- MODULE SessionProofs ----------------------------
(* Theorems about Session, for every number of goroutines, Logins and      *)
(* Sends, in whatever order they overlap, every counter width and every    *)
(* set of salts.  The nonces and CommandChannel are kept until a Login     *)
(* splits a Send; OneSession says that no other overlap mixes sessions.    *)
EXTENDS Session, TLAPS

-----------------------------------------------------------------------------
(* Arithmetic of a counter that wraps                                      *)

\* Division with remainder by the number of values of session.seq.
LEMMA DivMod ==
    ASSUME NEW m \in Nat \ {0}, NEW n \in Nat
    PROVE  /\ n % m \in 0 .. (m - 1)
           /\ n \div m \in Nat
           /\ n = m * (n \div m) + (n % m)
    BY SMTT(30)

\* The remainder is the only one.
LEMMA ModUnique ==
    ASSUME NEW m \in Nat \ {0}, NEW q \in Nat, NEW r \in 0 .. (m - 1)
    PROVE  (m * q + r) % m = r
    BY SMTT(30)

\* Two different numbers with the same sequence byte are a wrap apart.
LEMMA ModApart ==
    ASSUME NEW m \in Nat \ {0}, NEW a \in Nat, NEW b \in Nat,
           a % m = b % m, a < b
    PROVE  b - a >= m
    BY SMTT(30)

\* Incrementing the byte (session.seq++) follows incrementing the number.
LEMMA ModSucc ==
    ASSUME NEW m \in Nat \ {0}, NEW n \in Nat
    PROVE  (n + 1) % m = ((n % m) + 1) % m
<1> DEFINE q == n \div m
           r == n % m
<1>1. r \in 0 .. (m - 1) /\ q \in Nat /\ n = m * q + r
  BY DivMod
<1>2. CASE r = m - 1
  <2>1. r + 1 = m * 1 + 0 /\ n + 1 = m * (q + 1) + 0
    BY <1>1, <1>2
  <2>2. (m * 1 + 0) % m = 0
    BY ModUnique
  <2>3. (m * (q + 1) + 0) % m = 0
    BY ModUnique, <1>1
  <2> QED
    BY <2>1, <2>2, <2>3
<1>3. CASE r < m - 1
  <2>1. n + 1 = m * q + (r + 1) /\ r + 1 \in 0 .. (m - 1)
    BY <1>1, <1>3
  <2>2. (m * q + (r + 1)) % m = r + 1
    BY ModUnique, <1>1, <2>1
  <2>3. (m * 0 + (r + 1)) % m = r + 1 /\ m * 0 + (r + 1) = r + 1
    BY ModUnique, <1>1, <2>1
  <2> QED
    BY <2>1, <2>2, <2>3
<1> QED
  BY <1>1, <1>2, <1>3

-----------------------------------------------------------------------------
(* Type correctness                                                        *)

\* At the start the types are right.
LEMMA InitType == Init => TypeOK
<1> SUFFICES ASSUME Init PROVE TypeOK
  OBVIOUS
<1>1. 0 \in Seqs /\ DeriveSessionKey(0, 0) \in Keys /\ 0 \in Salts
  BY SessionAssumption DEF Seqs, Keys, DeriveSessionKey
<1>2. session \in [key : Keys, salt : Salts, seq : Seqs, loggedIn : BOOLEAN]
  BY <1>1 DEF Init
<1>3. pkt \in [Procs -> Packets]
  BY <1>1 DEF Init, Packets
<1>4. login \in [Procs -> [randA : Nat, randB : Nat, salt : Salts]]
  BY <1>1 DEF Init
<1>5. wire \in Seq(Packets) /\ pc \in [Procs -> {"idle"} \union LoginSteps \union SendSteps]
  BY DEF Init
<1>6. /\ node \in [randA : Nat, randB : Nat]
      /\ logins \in Nat /\ sends \in Nat /\ issued \in Nat /\ split \in BOOLEAN
  BY DEF Init
<1> QED
  BY <1>2, <1>3, <1>4, <1>5, <1>6 DEF TypeOK

\* The counter stays a byte.
LEMMA NextSeqType ==
    ASSUME NEW s \in Seqs
    PROVE  NextSeq(s) \in Seqs
  BY SessionAssumption, DivMod DEF NextSeq, Seqs

\* Every step keeps the types.
LEMMA NextType == TypeOK /\ [Next]_vars => TypeOK'
<1> SUFFICES ASSUME TypeOK, [Next]_vars
             PROVE  TypeOK'
  OBVIOUS
<1> USE SessionAssumption
<1>u. CASE UNCHANGED vars
  BY <1>u DEF vars, TypeOK, Keys, Seqs, Packets, LoginSteps, SendSteps
<1>n. ASSUME NEW p \in Procs, Login(p) \/ Send(p)
      PROVE  TypeOK'
  <2>1. CASE LoginStart(p)
    BY <2>1 DEF LoginStart, TypeOK, Keys, Seqs, Packets, LoginSteps, SendSteps
  <2>2. CASE LoginWritePair(p)
    BY <2>2 DEF LoginWritePair, LoginRequest, NodePair, TypeOK, LoginSteps, SendSteps
  <2>3. CASE LoginWriteFails(p)
    BY <2>3 DEF LoginWriteFails, LoginRequest, NodePair, TypeOK, LoginSteps, SendSteps
  <2>4. CASE LoginReadPair(p)
    BY <2>4 DEF LoginReadPair, TypeOK, LoginSteps, SendSteps
  <2>5. CASE LoginReadFails(p)
    BY <2>5 DEF LoginReadFails, TypeOK, LoginSteps, SendSteps
  <2>6. CASE LoginInstall(p)
    <3>1. split' \in BOOLEAN
      BY <2>6, Zenon DEF LoginInstall
    <3> QED
      BY <2>6, <3>1 DEF LoginInstall, InstalledSession, DeriveSessionKey, TypeOK,
                        Keys, Seqs, LoginSteps, SendSteps
  <2>7. CASE SendRefused(p)
    BY <2>7 DEF SendRefused, TypeOK
  <2>8. CASE SendCaptureKey(p)
    <3>1. [pkt[p] EXCEPT !.key = session.key] \in Packets
      BY DEF TypeOK, Packets
    <3>2. pkt' \in [Procs -> Packets]
      BY <2>8, <3>1 DEF SendCaptureKey, TypeOK
    <3> QED
      BY <2>8, <3>2 DEF SendCaptureKey, TypeOK, LoginSteps, SendSteps
  <2>9. CASE SendNextSNO(p)
    <3>1. NextSeq(session.seq) \in Seqs
      BY NextSeqType DEF TypeOK
    <3>2. Encrypt(pkt[p].key) \in Packets
      BY DEF Encrypt, TypeOK, Keys, Packets
    <3>3. session' \in [key : Keys, salt : Salts, seq : Seqs, loggedIn : BOOLEAN]
      BY <2>9, <3>1 DEF SendNextSNO, TypeOK
    <3>4. pkt' \in [Procs -> Packets]
      BY <2>9, <3>2 DEF SendNextSNO, TypeOK
    <3> QED
      BY <2>9, <3>3, <3>4 DEF SendNextSNO, TypeOK, LoginSteps, SendSteps
  <2>10. CASE SendWrite(p)
    BY <2>10 DEF SendWrite, TypeOK, LoginSteps, SendSteps
  <2>11. CASE SendWriteFails(p)
    BY <2>11 DEF SendWriteFails, TypeOK, LoginSteps, SendSteps
  <2> QED
    BY <1>n, <2>1, <2>2, <2>3, <2>4, <2>5, <2>6, <2>7, <2>8, <2>9, <2>10, <2>11
    DEF Login, Send
<1> QED
  BY <1>u, <1>n DEF Next

\* The state of the Client keeps its type: in particular session.seq stays
\* within the width of its byte (session.go, client.go).
THEOREM TypeCorrect == Spec => []TypeOK
  BY InitType, NextType, PTL DEF Spec

-----------------------------------------------------------------------------
(* Serial numbers                                                          *)

\* What the wire and the senders hold is packets.
LEMMA HeldPackets ==
    ASSUME TypeOK
    PROVE  /\ \A i \in DOMAIN wire : wire[i] \in Packets
           /\ \A p \in Procs : pkt[p] \in Packets
           /\ \A x \in Packets : x.era \in Nat /\ x.nth \in Nat
<1>1. \A x \in Packets : x.era \in Nat /\ x.nth \in Nat
  BY DEF Packets
<1> QED
  BY <1>1 DEF TypeOK

\* At the start no serial number was issued.
LEMMA InitSnoInv == Init => SnoInv
<1> SUFFICES ASSUME Init PROVE SnoInv
  OBVIOUS
<1>1. LoggingIn = {} /\ InFlight = {} /\ DOMAIN wire = {}
  BY DEF Init, LoggingIn, LoginSteps, InFlight
<1>2. session.seq = issued % SeqMod
  <2>1. (SeqMod * 0 + 0) % SeqMod = 0 /\ SeqMod * 0 + 0 = 0
    BY ModUnique, SessionAssumption
  <2> QED
    BY <2>1 DEF Init
<1>3. session.key.randA <= logins
  BY DEF Init, DeriveSessionKey
<1> QED
  BY <1>1, <1>2, <1>3 DEF SnoInv, LoginsFresh, SnoCounted, PacketsSealed, IssuedOnce

\* A step that issues, installs and sends nothing: goroutines may leave a
\* Login or give up a packet, and what the others hold stays as it is.
LEMMA QuietStep ==
    ASSUME SnoInv,
           UNCHANGED <<session, wire, issued, logins>>,
           LoggingIn' \subseteq LoggingIn,
           InFlight' \subseteq InFlight,
           \A p \in LoggingIn' : login'[p].randA = login[p].randA,
           \A p \in InFlight' : pkt'[p] = pkt[p]
    PROVE  SnoInv'
<1>1. LoginsFresh'
  BY DEF SnoInv, LoginsFresh
<1>2. SnoCounted'
  BY DEF SnoInv, SnoCounted
<1>3. PacketsSealed'
  BY DEF SnoInv, PacketsSealed, SealedInSession
<1>4. IssuedOnce'
  BY DEF SnoInv, IssuedOnce, SameIssue
<1> QED
  BY <1>1, <1>2, <1>3, <1>4 DEF SnoInv

\* A new Login draws a randA above every one drawn before.
LEMMA LoginStartSno ==
    ASSUME TypeOK, SnoInv, NEW p \in Procs, LoginStart(p)
    PROVE  SnoInv'
<1>1. /\ UNCHANGED <<session, wire, issued, pkt>>
      /\ logins' = logins + 1
      /\ InFlight' = InFlight
      /\ LoggingIn' = LoggingIn \union {p}
      /\ p \notin LoggingIn
  BY DEF LoginStart, TypeOK, InFlight, LoggingIn, LoginSteps
<1>2. /\ login'[p].randA = logins + 1
      /\ \A q \in Procs \ {p} : login'[q] = login[q]
  BY DEF LoginStart, TypeOK
<1>3. logins \in Nat /\ LoggingIn \subseteq Procs
      /\ \A q \in Procs : login[q].randA \in Nat
      /\ session.key.randA \in Nat
  BY DEF TypeOK, LoggingIn, Keys
<1>4. LoginsFresh'
  BY <1>1, <1>2, <1>3 DEF SnoInv, LoginsFresh
<1>5. SnoCounted'
  BY <1>1 DEF SnoInv, SnoCounted
<1>6. ASSUME NEW x, x.era \in Nat, SealedInSession(x)
      PROVE  SealedInSession(x)'
  BY <1>1, <1>2, <1>3, <1>6 DEF SealedInSession
<1>7. PacketsSealed'
  <2>1. \A i \in DOMAIN wire : wire[i].era \in Nat
    BY HeldPackets
  <2>2. \A q \in InFlight : pkt[q].era \in Nat
    BY HeldPackets DEF InFlight
  <2> QED
    BY <1>1, <1>6, <2>1, <2>2 DEF SnoInv, PacketsSealed, SealedInSession
<1>8. IssuedOnce'
  BY <1>1 DEF SnoInv, IssuedOnce, SameIssue
<1> QED
  BY <1>4, <1>5, <1>7, <1>8 DEF SnoInv

\* An install starts a session no packet belongs to yet.
LEMMA LoginInstallSno ==
    ASSUME TypeOK, SnoInv, NEW p \in Procs, LoginInstall(p)
    PROVE  SnoInv'
<1>1. /\ UNCHANGED <<login, pkt, wire, logins>>
      /\ issued' = 0
      /\ InFlight' = InFlight
      /\ LoggingIn' = LoggingIn \ {p}
      /\ p \in LoggingIn
  BY DEF LoginInstall, TypeOK, InFlight, LoggingIn, LoginSteps
<1>2. session'.key.randA = login[p].randA /\ session'.seq = 0
  BY DEF LoginInstall, InstalledSession, DeriveSessionKey
<1>3. LoginsFresh'
  BY <1>1, <1>2 DEF SnoInv, LoginsFresh
<1>4. SnoCounted'
  <2>1. (SeqMod * 0 + 0) % SeqMod = 0 /\ SeqMod * 0 + 0 = 0
    BY ModUnique, SessionAssumption
  <2> QED
    BY <1>1, <1>2, <2>1 DEF SnoCounted
<1>5. ASSUME NEW x, SealedInSession(x)
      PROVE  /\ x.seq = x.nth % SeqMod
             /\ x.era <= logins'
             /\ x.era # session'.key.randA
             /\ \A q \in LoggingIn' : x.era # login'[q].randA
  BY <1>1, <1>2, <1>5 DEF SealedInSession
<1>6. PacketsSealed'
  BY <1>1, <1>5 DEF SnoInv, PacketsSealed, SealedInSession
<1>7. IssuedOnce'
  BY <1>1 DEF SnoInv, IssuedOnce, SameIssue
<1> QED
  BY <1>3, <1>4, <1>6, <1>7 DEF SnoInv

\* nextSNO: the number it takes is above every number taken before.
LEMMA SendNextSNOSno ==
    ASSUME TypeOK, SnoInv, NEW p \in Procs, SendNextSNO(p)
    PROVE  SnoInv'
<1>1. /\ UNCHANGED <<login, wire, logins>>
      /\ session'.key = session.key
      /\ session'.seq = NextSeq(session.seq)
      /\ issued' = issued + 1
      /\ issued \in Nat
      /\ LoggingIn' = LoggingIn
      /\ InFlight' = InFlight \union {p}
      /\ p \notin InFlight
  BY DEF SendNextSNO, TypeOK, InFlight, LoggingIn, LoginSteps
<1>2. /\ pkt'[p].seq = session.seq
      /\ pkt'[p].era = session.key.randA
      /\ pkt'[p].nth = issued
      /\ \A q \in InFlight : pkt'[q] = pkt[q]
  BY <1>1 DEF SendNextSNO, Encrypt, TypeOK, InFlight
<1>3. LoginsFresh'
  BY <1>1 DEF SnoInv, LoginsFresh
<1>4. SnoCounted'
  BY <1>1, ModSucc, SessionAssumption DEF SnoInv, SnoCounted, NextSeq
<1>5. ASSUME NEW x, x.nth \in Nat, SealedInSession(x)
      PROVE  SealedInSession(x)' /\ ~(x.era = pkt'[p].era /\ x.nth = pkt'[p].nth)
  BY <1>1, <1>2, <1>5 DEF SealedInSession
<1>6. /\ \A i \in DOMAIN wire : wire[i].nth \in Nat
      /\ \A q \in InFlight : pkt[q].nth \in Nat
  BY HeldPackets DEF InFlight
<1>7. PacketsSealed'
  <2>1. SealedInSession(pkt[p])'
    BY <1>1, <1>2 DEF SnoInv, SnoCounted, LoginsFresh, SealedInSession
  <2>2. \A i \in DOMAIN wire : SealedInSession(wire[i])'
    BY <1>1, <1>5, <1>6 DEF SnoInv, PacketsSealed, SealedInSession
  <2>3. \A q \in InFlight : SealedInSession(pkt[q])'
    <3> TAKE q \in InFlight
    <3>1. SealedInSession(pkt[q])
      BY DEF SnoInv, PacketsSealed
    <3> QED
      BY <1>1, <1>2, <1>6, <3>1 DEF SealedInSession
  <2> QED
    BY <1>1, <2>1, <2>2, <2>3 DEF PacketsSealed, SealedInSession
<1>8. IssuedOnce'
  BY <1>1, <1>2, <1>5, <1>6 DEF SnoInv, PacketsSealed, IssuedOnce, SameIssue
<1> QED
  BY <1>3, <1>4, <1>7, <1>8 DEF SnoInv

\* A packet that reaches the air moves from its goroutine to the wire.
LEMMA SendWriteSno ==
    ASSUME TypeOK, SnoInv, NEW p \in Procs, SendWrite(p)
    PROVE  SnoInv'
<1>1. /\ UNCHANGED <<session, login, pkt, logins, issued>>
      /\ wire' = Append(wire, pkt[p])
      /\ LoggingIn' = LoggingIn
      /\ InFlight' = InFlight \ {p}
      /\ p \in InFlight
  BY DEF SendWrite, TypeOK, InFlight, LoggingIn, LoginSteps
<1>2. /\ DOMAIN wire' = DOMAIN wire \union {Len(wire) + 1}
      /\ Len(wire) + 1 \notin DOMAIN wire
      /\ wire'[Len(wire) + 1] = pkt[p]
      /\ \A i \in DOMAIN wire : wire'[i] = wire[i]
  BY <1>1 DEF TypeOK
<1>3. LoginsFresh' /\ SnoCounted'
  BY <1>1 DEF SnoInv, LoginsFresh, SnoCounted
<1>4. PacketsSealed'
  BY <1>1, <1>2 DEF SnoInv, PacketsSealed, SealedInSession
<1>5. IssuedOnce'
  BY <1>1, <1>2 DEF SnoInv, IssuedOnce, SameIssue
<1> QED
  BY <1>3, <1>4, <1>5 DEF SnoInv

\* Every step keeps the serial numbers in step with what was issued.
LEMMA NextSnoInv == TypeOK /\ SnoInv /\ [Next]_vars => SnoInv'
<1> SUFFICES ASSUME TypeOK, SnoInv, [Next]_vars
             PROVE  SnoInv'
  OBVIOUS
<1>u. CASE UNCHANGED vars
  BY <1>u, QuietStep DEF vars, LoggingIn, InFlight
<1>n. ASSUME NEW p \in Procs, Login(p) \/ Send(p)
      PROVE  SnoInv'
  <2>1. CASE LoginStart(p)
    BY <2>1, LoginStartSno
  <2>2. CASE LoginWritePair(p)
    BY <2>2, QuietStep
    DEF LoginWritePair, TypeOK, LoggingIn, InFlight, LoginSteps
  <2>3. CASE LoginWriteFails(p)
    BY <2>3, QuietStep
    DEF LoginWriteFails, TypeOK, LoggingIn, InFlight, LoginSteps
  <2>4. CASE LoginReadPair(p)
    BY <2>4, QuietStep
    DEF LoginReadPair, TypeOK, LoggingIn, InFlight, LoginSteps
  <2>5. CASE LoginReadFails(p)
    BY <2>5, QuietStep
    DEF LoginReadFails, TypeOK, LoggingIn, InFlight, LoginSteps
  <2>6. CASE LoginInstall(p)
    BY <2>6, LoginInstallSno
  <2>7. CASE SendRefused(p)
    BY <2>7, QuietStep DEF SendRefused, LoggingIn, InFlight
  <2>8. CASE SendCaptureKey(p)
    BY <2>8, QuietStep
    DEF SendCaptureKey, TypeOK, LoggingIn, InFlight, LoginSteps
  <2>9. CASE SendNextSNO(p)
    BY <2>9, SendNextSNOSno
  <2>10. CASE SendWrite(p)
    BY <2>10, SendWriteSno
  <2>11. CASE SendWriteFails(p)
    BY <2>11, QuietStep
    DEF SendWriteFails, TypeOK, LoggingIn, InFlight, LoginSteps
  <2> QED
    BY <1>n, <2>1, <2>2, <2>3, <2>4, <2>5, <2>6, <2>7, <2>8, <2>9, <2>10, <2>11
    DEF Login, Send
<1> QED
  BY <1>u, <1>n DEF Next

\* The inductive invariant holds of every behaviour.
THEOREM SnoInvariant == Spec => []SnoInv
<1>1. Init => TypeOK /\ SnoInv
  BY InitType, InitSnoInv
<1>2. (TypeOK /\ SnoInv) /\ [Next]_vars => (TypeOK /\ SnoInv)'
  BY NextType, NextSnoInv
<1> QED
  BY <1>1, <1>2, PTL DEF Spec

\* Issue numbers spent once, and a sequence byte that counts them, keep the
\* packets with equal serial numbers a wrap apart.
LEMMA SnoInvImplies == TypeOK /\ SnoInv => SnoReusedOnlyAfterWrap
<1> SUFFICES ASSUME TypeOK, SnoInv,
                    NEW i \in DOMAIN wire, NEW j \in DOMAIN wire,
                    i # j, wire[i].era = wire[j].era, wire[i].seq = wire[j].seq
             PROVE  WrapApart(wire[i], wire[j])
  BY DEF SnoReusedOnlyAfterWrap
<1> DEFINE a == wire[i].nth
           b == wire[j].nth
<1>1. a \in Nat /\ b \in Nat
  BY HeldPackets
<1>2. a # b /\ a % SeqMod = b % SeqMod
  BY DEF SnoInv, IssuedOnce, SameIssue, PacketsSealed, SealedInSession
<1> HIDE DEF a, b
<1>3. CASE a < b
  <2>1. b - a >= SeqMod
    BY <1>1, <1>2, <1>3, ModApart, SessionAssumption
  <2> QED
    BY <2>1 DEF WrapApart, a, b
<1>4. CASE b < a
  <2>1. a - b >= SeqMod
    BY <1>1, <1>2, <1>4, ModApart, SessionAssumption
  <2> QED
    BY <2>1 DEF WrapApart, a, b
<1> QED
  BY <1>1, <1>2, <1>3, <1>4

\* However many goroutines call Send and Login, no serial number of a
\* session is used twice unless 256 (SeqMod) snos were taken in between.
THEOREM SnoSafety == Spec => []SnoReusedOnlyAfterWrap
  BY TypeCorrect, SnoInvariant, SnoInvImplies, PTL

-----------------------------------------------------------------------------
(* The handshake                                                           *)

\* At the start nobody logs in or sends.
LEMMA InitHandshake == Init => HandshakeInv
  BY DEF Init, HandshakeInv, KeysAgree, AnswersMatch, CapturedKeys, LoginSteps, SendSteps

\* A goroutine's own step of Login or Send leaves the keys of node, session
\* and packets matched: every randA is drawn once, so a request that reached
\* the node in between shows.
LEMMA NextHandshake ==
    ASSUME TypeOK, SnoInv, HandshakeInv, [Next]_vars
    PROVE  HandshakeInv'
<1> USE DEF LoggingIn, LoginSteps, SendSteps
<1>t. /\ logins \in Nat /\ session.key \in Keys
      /\ pc \in [Procs -> {"idle"} \union LoginSteps \union SendSteps]
      /\ login \in [Procs -> [randA : Nat, randB : Nat, salt : Salts]]
      /\ pkt \in [Procs -> Packets]
      /\ \A q \in Procs : pkt[q].key.randA \in Nat
      /\ session.key.randA \in Nat /\ session.key.randA <= logins
      /\ \A q \in LoggingIn : login[q].randA # session.key.randA
      /\ \A q \in LoggingIn : login[q].randA <= logins
      /\ \A q, r \in LoggingIn : q # r => login[q].randA # login[r].randA
  BY DEF TypeOK, Keys, Packets, SnoInv, LoginsFresh
<1>u. CASE UNCHANGED vars
  BY <1>u DEF vars, HandshakeInv, KeysAgree, AnswersMatch, CapturedKeys, NodeKey
<1>n. ASSUME NEW p \in Procs, Login(p) \/ Send(p)
      PROVE  HandshakeInv'
  <2> USE DEF HandshakeInv, KeysAgree, AnswersMatch, CapturedKeys
  <2>1. CASE LoginStart(p)
    BY <1>t, <2>1 DEF LoginStart, NodeKey
  <2>2. CASE LoginWritePair(p)
    BY <1>t, <2>2 DEF LoginWritePair, LoginRequest, NodePair, NodeKey
  <2>3. CASE LoginWriteFails(p)
    BY <1>t, <2>3 DEF LoginWriteFails, LoginRequest, NodePair, NodeKey
  <2>4. CASE LoginReadPair(p)
    BY <1>t, <2>4 DEF LoginReadPair, NodeKey
  <2>5. CASE LoginReadFails(p)
    BY <1>t, <2>5 DEF LoginReadFails, NodeKey
  <2>6. CASE LoginInstall(p)
    BY <1>t, <2>6 DEF LoginInstall, InstalledSession, NodeKey, DeriveSessionKey
  <2>7. CASE SendRefused(p)
    BY <1>t, <2>7 DEF SendRefused, NodeKey
  <2>8. CASE SendCaptureKey(p)
    BY <1>t, <2>8 DEF SendCaptureKey, NodeKey
  <2>9. CASE SendNextSNO(p)
    BY <1>t, <2>9 DEF SendNextSNO, Encrypt, NodeKey, TypeOK
  <2>10. CASE SendWrite(p)
    BY <1>t, <2>10 DEF SendWrite, NodeKey
  <2>11. CASE SendWriteFails(p)
    BY <1>t, <2>11 DEF SendWriteFails, NodeKey
  <2> QED
    BY <1>n, <2>1, <2>2, <2>3, <2>4, <2>5, <2>6, <2>7, <2>8, <2>9, <2>10, <2>11
    DEF Login, Send
<1> QED
  BY <1>u, <1>n DEF Next

\* The inductive invariant of the handshake holds of every behaviour.
THEOREM HandshakeInvariant == Spec => []HandshakeInv
<1>1. Init => TypeOK /\ SnoInv /\ HandshakeInv
  BY InitType, InitSnoInv, InitHandshake
<1>2. (TypeOK /\ SnoInv /\ HandshakeInv) /\ [Next]_vars
        => (TypeOK /\ SnoInv /\ HandshakeInv)'
  BY NextType, NextSnoInv, NextHandshake
<1> QED
  BY <1>1, <1>2, PTL DEF Spec

\* However many pairings cross and fail, Client and node hold the same key
\* while the installed Login is the last one the node took a request of
\* (DeriveSessionKey).
THEOREM KeyAgreement == Spec => []KeysAgree
  BY HandshakeInvariant, PTL DEF HandshakeInv

\* A command written while the node is still paired with the Login whose key
\* it captured is encrypted under the node's key, whatever ran in between
\* (Send).
THEOREM DecryptableAtNode == Spec => NodeCanDecrypt
<1> DEFINE A == Len(wire') > Len(wire) /\ wire'[Len(wire')].key.randA = node.randA
                  => wire'[Len(wire')].key = NodeKey
<1>1. TypeOK /\ HandshakeInv /\ [Next]_vars => [A]_vars
  <2> SUFFICES ASSUME TypeOK, HandshakeInv, Next, Len(wire') > Len(wire),
                      wire'[Len(wire')].key.randA = node.randA
               PROVE  wire'[Len(wire')].key = NodeKey
    OBVIOUS
  <2>1. PICK p \in Procs : SendWrite(p)
    BY DEF Next, Login, LoginStart, LoginWritePair, LoginWriteFails,
           LoginReadPair, LoginReadFails, LoginInstall, Send, SendRefused,
           SendCaptureKey, SendNextSNO, SendWriteFails, TypeOK
  <2>2. wire'[Len(wire')] = pkt[p]
    BY <2>1 DEF SendWrite, TypeOK
  <2> QED
    BY <2>1, <2>2 DEF SendWrite, HandshakeInv, CapturedKeys, SendSteps
<1>2. Spec => [][A]_vars
  BY <1>1, TypeCorrect, HandshakeInvariant, PTL DEF Spec
<1> QED
  BY <1>2 DEF NodeCanDecrypt

-----------------------------------------------------------------------------
(* Key and sno of one session                                              *)

\* At the start nothing is sealed.
LEMMA InitSeal == Init => SealInv
  BY DEF Init, SealInv, LoggedInByLogin, SealedInOneSession, SendUsesOneSession,
         LoggingIn, LoginSteps, SendSteps, DeriveSessionKey

\* Only a Login that is over sets loggedIn, and nothing resets it.
LEMMA NextLoggedIn ==
    ASSUME TypeOK, LoggedInByLogin, [Next]_vars
    PROVE  LoggedInByLogin'
<1> USE DEF LoggedInByLogin, LoggingIn, LoginSteps, SendSteps
<1>u. CASE UNCHANGED vars
  BY <1>u DEF vars
<1>t. /\ pc \in [Procs -> {"idle"} \union LoginSteps \union SendSteps]
      /\ login \in [Procs -> [randA : Nat, randB : Nat, salt : Salts]]
      /\ logins \in Nat
      /\ session \in [key : Keys, salt : Salts, seq : Seqs, loggedIn : BOOLEAN]
  BY DEF TypeOK
<1>n. ASSUME NEW p \in Procs, Login(p) \/ Send(p)
      PROVE  LoggedInByLogin'
  <2>1. CASE LoginStart(p)
    BY <1>t, <2>1 DEF LoginStart
  <2>2. CASE LoginWritePair(p)
    BY <1>t, <2>2 DEF LoginWritePair
  <2>3. CASE LoginWriteFails(p)
    BY <1>t, <2>3 DEF LoginWriteFails
  <2>4. CASE LoginReadPair(p)
    BY <1>t, <2>4 DEF LoginReadPair
  <2>5. CASE LoginReadFails(p)
    BY <1>t, <2>5 DEF LoginReadFails
  <2>6. CASE LoginInstall(p)
    BY <1>t, <2>6 DEF LoginInstall, InstalledSession, DeriveSessionKey
  <2>7. CASE SendRefused(p)
    BY <1>t, <2>7 DEF SendRefused
  <2>8. CASE SendCaptureKey(p)
    BY <1>t, <2>8 DEF SendCaptureKey
  <2>9. CASE SendNextSNO(p)
    BY <1>t, <2>9 DEF SendNextSNO
  <2>10. CASE SendWrite(p)
    BY <1>t, <2>10 DEF SendWrite
  <2>11. CASE SendWriteFails(p)
    BY <1>t, <2>11 DEF SendWriteFails
  <2> QED
    BY <1>n, <2>1, <2>2, <2>3, <2>4, <2>5, <2>6, <2>7, <2>8, <2>9, <2>10, <2>11
    DEF Login, Send
<1> QED
  BY <1>u, <1>n DEF Next

\* The wire after a write: the packet written, and what was there before.
LEMMA WrittenPackets ==
    ASSUME NEW w \in Seq(Packets), NEW x \in Packets
    PROVE  \A i \in DOMAIN Append(w, x) :
              Append(w, x)[i] = x \/ (i \in DOMAIN w /\ Append(w, x)[i] = w[i])
<1>1. /\ DOMAIN w = 1 .. Len(w) /\ Len(w) \in Nat
      /\ DOMAIN Append(w, x) = 1 .. (Len(w) + 1)
      /\ \A i \in 1 .. Len(w) : Append(w, x)[i] = w[i]
      /\ Append(w, x)[Len(w) + 1] = x
  OBVIOUS
<1>2. \A i \in 1 .. (Len(w) + 1) : i \in 1 .. Len(w) \/ i = Len(w) + 1
  BY <1>1
<1> QED
  BY <1>1, <1>2, Zenon

\* A Login that installs its session leaves the captured keys current if no
\* Send is between its two critical sections.
InstallSplitsNone ==
    \A p \in Procs : LoginInstall(p) => \A q \in Procs : pc[q] # "nextSNO"

\* Every other overlap of Logins and Sends keeps key and sno together.
LEMMA NextSealed ==
    ASSUME TypeOK, SealedInOneSession, [Next]_vars, InstallSplitsNone
    PROVE  SealedInOneSession'
<1> USE DEF SealedInOneSession, SendUsesOneSession
<1>u. CASE UNCHANGED vars
  BY <1>u DEF vars
<1>t. /\ pc \in [Procs -> {"idle"} \union LoginSteps \union SendSteps]
      /\ pkt \in [Procs -> Packets] /\ wire \in Seq(Packets)
      /\ session \in [key : Keys, salt : Salts, seq : Seqs, loggedIn : BOOLEAN]
  BY DEF TypeOK
<1>n. ASSUME NEW p \in Procs, Login(p) \/ Send(p)
      PROVE  SealedInOneSession'
  <2>1. CASE LoginStart(p)
    BY <1>t, <2>1 DEF LoginStart
  <2>2. CASE LoginWritePair(p)
    BY <1>t, <2>2 DEF LoginWritePair
  <2>3. CASE LoginWriteFails(p)
    BY <1>t, <2>3 DEF LoginWriteFails
  <2>4. CASE LoginReadPair(p)
    BY <1>t, <2>4 DEF LoginReadPair
  <2>5. CASE LoginReadFails(p)
    BY <1>t, <2>5 DEF LoginReadFails
  <2>6. CASE LoginInstall(p)
    <3>1. \A q \in Procs : pc[q] # "nextSNO"
      BY <2>6 DEF InstallSplitsNone
    <3> QED
      BY <1>t, <2>6, <3>1 DEF LoginInstall
  <2>7. CASE SendRefused(p)
    BY <1>t, <2>7 DEF SendRefused
  <2>8. CASE SendCaptureKey(p)
    BY <1>t, <2>8 DEF SendCaptureKey
  <2>9. CASE SendNextSNO(p)
    <3>1. /\ pkt' = [pkt EXCEPT ![p] = Encrypt(pkt[p].key)]
          /\ session'.key = session.key /\ UNCHANGED wire
          /\ pc' = [pc EXCEPT ![p] = "write"]
      BY <1>t, <2>9 DEF SendNextSNO
    <3>2. pkt[p].key = session.key
      BY <2>9 DEF SendNextSNO
    <3>3. pkt'[p].key.randA = pkt'[p].era
      BY <1>t, <3>1, <3>2 DEF Encrypt
    <3> QED
      BY <1>t, <3>1, <3>3
  <2>10. CASE SendWrite(p)
    <3>1. /\ wire' = Append(wire, pkt[p]) /\ pc' = [pc EXCEPT ![p] = "idle"]
          /\ UNCHANGED <<session, pkt>> /\ pkt[p].key.randA = pkt[p].era
      BY <2>10 DEF SendWrite
    <3>2. \A i \in DOMAIN wire' : wire'[i] = pkt[p] \/ (i \in DOMAIN wire /\ wire'[i] = wire[i])
      BY <1>t, <3>1, WrittenPackets
    <3>3. SendUsesOneSession'
      BY <3>1, <3>2
    <3> QED
      BY <1>t, <3>1, <3>3
  <2>11. CASE SendWriteFails(p)
    BY <1>t, <2>11 DEF SendWriteFails
  <2> QED
    BY <1>n, <2>1, <2>2, <2>3, <2>4, <2>5, <2>6, <2>7, <2>8, <2>9, <2>10, <2>11
    DEF Login, Send
<1> QED
  BY <1>u, <1>n DEF Next

\* "split" records it: while it is FALSE after a step, no Login of that step
\* or an earlier one came between the key and the sno of a Send.
LEMMA SplitRecords ==
    ASSUME [Next]_vars, ~split'
    PROVE  ~split /\ InstallSplitsNone
<1>1. \A p \in Procs : LoginInstall(p) => \A q \in Procs : pc[q] # "nextSNO"
  BY Zenon DEF LoginInstall
<1>2. ~split
  <2>u. CASE UNCHANGED vars
    BY <2>u DEF vars
  <2>n. ASSUME NEW p \in Procs, Login(p) \/ Send(p)
        PROVE  ~split
    <3>1. CASE Login(p)
      BY <3>1, Zenon
      DEF Login, LoginStart, LoginWritePair, LoginWriteFails, LoginReadPair,
          LoginReadFails, LoginInstall
    <3>2. CASE Send(p)
      BY <3>2
      DEF Send, SendRefused, SendCaptureKey, SendNextSNO, SendWrite, SendWriteFails
    <3> QED
      BY <2>n, <3>1, <3>2
  <2> QED
    BY <2>u, <2>n DEF Next
<1> QED
  BY <1>1, <1>2 DEF InstallSplitsNone

\* Every step keeps the seal.
LEMMA NextSeal == TypeOK /\ SealInv /\ [Next]_vars => SealInv'
<1> SUFFICES ASSUME TypeOK, SealInv, [Next]_vars
             PROVE  SealInv'
  OBVIOUS
<1>1. LoggedInByLogin'
  BY NextLoggedIn DEF SealInv
<1>2. ASSUME ~split' PROVE SealedInOneSession'
  BY <1>2, SplitRecords, NextSealed DEF SealInv
<1> QED
  BY <1>1, <1>2 DEF SealInv

\* The inductive invariant of the seal holds of every behaviour.
THEOREM SealInvariant == Spec => []SealInv
<1>1. Init => TypeOK /\ SealInv
  BY InitType, InitSeal
<1>2. (TypeOK /\ SealInv) /\ [Next]_vars => (TypeOK /\ SealInv)'
  BY NextType, NextSeal
<1> QED
  BY <1>1, <1>2, PTL DEF Spec

\* A Send uses one session, whichever Logins and Sends overlap, unless a Login
\* installs its session between the key and the sno of a Send (session.mu is
\* released between Send's check and nextSNO).
THEOREM OneSession == Spec => [](~split => SendUsesOneSession)
<1>1. SealInv => (~split => SendUsesOneSession)
  BY DEF SealInv, SealedInOneSession
<1> QED
  BY <1>1, SealInvariant, PTL

\* So that one overlap is also all that may repeat the pair of key and nonce
\* crypto.Encrypt is given before session.seq wraps, across every Login of the
\* Client, crossing ones too, and even where two sessions draw the same salt.
THEOREM NonceSafety == Spec => []NonceReusedOnlyAfterWrap
<1>1. TypeOK /\ SnoInv /\ SealInv => NonceReusedOnlyAfterWrap
  <2> SUFFICES ASSUME TypeOK, SnoInv, SealInv, ~split,
                      NEW i \in DOMAIN wire, NEW j \in DOMAIN wire, i # j,
                      wire[i].key = wire[j].key,
                      CommandNonce(wire[i]) = CommandNonce(wire[j])
               PROVE  WrapApart(wire[i], wire[j])
    BY DEF NonceReusedOnlyAfterWrap
  <2>1. wire[i].era = wire[j].era
    BY DEF SealInv, SealedInOneSession, SendUsesOneSession
  <2>2. wire[i].seq = wire[j].seq
    BY DEF CommandNonce
  <2> QED
    BY <2>1, <2>2, SnoInvImplies DEF SnoReusedOnlyAfterWrap
<1> QED
  BY <1>1, TypeCorrect, SnoInvariant, SealInvariant, PTL

-----------------------------------------------------------------------------
(* The commands on the air are those of CommandChannel                     *)

\* Two goroutines about to write hold different commands.
LEMMA SealedDistinct ==
    ASSUME SnoInv, SealedInOneSession, NEW p \in InFlight, NEW q \in InFlight, p # q
    PROVE  Sealed(pkt[p]) # Sealed(pkt[q])
<1>1. ~SameIssue(pkt[p], pkt[q])
  BY DEF SnoInv, IssuedOnce
<1>2. pkt[p].key.randA = pkt[p].era /\ pkt[q].key.randA = pkt[q].era
  BY DEF SealedInOneSession, InFlight
<1> QED
  BY <1>1, <1>2 DEF SameIssue, Sealed

\* So taking one of them off leaves the others.
LEMMA LandedLeaves ==
    ASSUME SnoInv, SealedInOneSession, NEW p \in InFlight,
           InFlight' = InFlight \ {p}, UNCHANGED pkt
    PROVE  Flying' = Flying \ {Sealed(pkt[p])} /\ Sealed(pkt[p]) \in Flying
  BY SealedDistinct DEF Flying, InFlight

\* The packets in flight depend on who sends what.
LEMMA FlyingKept ==
    ASSUME InFlight' = InFlight, \A p \in InFlight : pkt'[p] = pkt[p]
    PROVE  Flying' = Flying
  BY DEF Flying

\* The session starts as a command channel does.
LEMMA InitChannel == Init => CC!Init
  BY DEF Init, CC!Init, Flying, OnAir, InFlight, DeriveSessionKey

\* A login that installs its key pairs: no command was sealed in its session.
LEMMA LoginIsPair ==
    ASSUME TypeOK, SnoInv, SealedInOneSession, LoggedInByLogin,
           NEW p \in Procs, LoginInstall(p)
    PROVE  CC!Pair
<1>1. p \in LoggingIn
  BY DEF LoginInstall, LoggingIn, LoginSteps
<1>2. /\ session'.key.randA = login[p].randA
      /\ session'.key.randA \in Nat
      /\ session'.key.randA # 0
      /\ session'.key.randA # session.key.randA
  BY <1>1 DEF LoginInstall, InstalledSession, DeriveSessionKey, TypeOK,
              LoggedInByLogin, SnoInv, LoginsFresh
<1>3. \A q \in InFlight : Sealed(pkt[q]).key # login[p].randA
  BY <1>1 DEF Sealed, SealedInOneSession, InFlight, SnoInv, PacketsSealed, SealedInSession
<1>4. \A i \in DOMAIN OnAir : OnAir[i].key # login[p].randA
  BY <1>1 DEF OnAir, Sealed, SealedInOneSession, SendUsesOneSession, SnoInv,
              PacketsSealed, SealedInSession
<1>5. login[p].randA \notin CC!Used
  BY <1>3, <1>4 DEF CC!Used, Flying
<1>6. session'.salt \in Salts
  BY DEF LoginInstall, InstalledSession, TypeOK
<1>7. Flying' = Flying
  BY FlyingKept DEF LoginInstall, InFlight, TypeOK
<1> QED
  BY <1>2, <1>5, <1>6, <1>7 DEF CC!Pair, OnAir, LoginInstall

\* Taking a serial number seals a command.
LEMMA NextSNOIsSeal ==
    ASSUME TypeOK, SnoInv, SealedInOneSession, LoggedInByLogin,
           NEW p \in Procs, SendNextSNO(p)
    PROVE  CC!Seal
<1> DEFINE c == [key |-> session.key.randA, seq |-> issued % SeqMod,
                 salt |-> session.salt, nth |-> issued]
<1>1. /\ session.key.randA > 0
      /\ pkt[p].key = session.key
      /\ session.seq = issued % SeqMod
  BY DEF SendNextSNO, SealedInOneSession, LoggedInByLogin, SnoInv, SnoCounted
<1>2. Sealed(pkt'[p]) = c
  BY <1>1 DEF SendNextSNO, Encrypt, Sealed, TypeOK
<1>3. InFlight' = InFlight \union {p} /\ p \notin InFlight
      /\ \A q \in InFlight : pkt'[q] = pkt[q]
  BY DEF SendNextSNO, TypeOK, InFlight
<1>4. Flying' = Flying \union {c}
  BY <1>2, <1>3 DEF Flying, InFlight
<1>5. UNCHANGED <<session.key.randA, session.salt, wire>> /\ issued' = issued + 1
  BY DEF SendNextSNO, TypeOK
<1> QED
  BY <1>1, <1>4, <1>5 DEF CC!Seal, OnAir

\* A write puts the command on the air.
LEMMA WriteIsLeave ==
    ASSUME TypeOK, SnoInv, SealedInOneSession, NEW p \in Procs, SendWrite(p)
    PROVE  \E c \in Flying : CC!Leave(c)
<1>1. p \in InFlight /\ InFlight' = InFlight \ {p} /\ UNCHANGED pkt
  BY DEF SendWrite, TypeOK, InFlight
<1>2. Flying' = Flying \ {Sealed(pkt[p])} /\ Sealed(pkt[p]) \in Flying
  BY <1>1, LandedLeaves
<1>3. OnAir' = Append(OnAir, Sealed(pkt[p]))
  <2>1. wire \in Seq(Packets) /\ wire' = Append(wire, pkt[p]) /\ Len(wire) \in Nat
    BY DEF SendWrite, TypeOK
  <2>2. DOMAIN wire' = 1 .. (Len(wire) + 1) /\ DOMAIN wire = 1 .. Len(wire)
    BY <2>1
  <2>3. OnAir \in Seq({Sealed(x) : x \in Packets}) /\ Len(OnAir) = Len(wire)
    BY <2>1, <2>2 DEF OnAir
  <2> QED
    BY <2>1, <2>2, <2>3 DEF OnAir
<1> QED
  BY <1>2, <1>3 DEF CC!Leave, SendWrite

\* A write that fails loses it.
LEMMA WriteFailsIsLose ==
    ASSUME TypeOK, SnoInv, SealedInOneSession, NEW p \in Procs, SendWriteFails(p)
    PROVE  \E c \in Flying : CC!Lose(c)
<1>1. p \in InFlight /\ InFlight' = InFlight \ {p} /\ UNCHANGED pkt
  BY DEF SendWriteFails, TypeOK, InFlight
<1>2. Flying' = Flying \ {Sealed(pkt[p])} /\ Sealed(pkt[p]) \in Flying
  BY <1>1, LandedLeaves
<1> QED
  BY <1>2 DEF CC!Lose, SendWriteFails, OnAir

\* A step that changes neither session nor wire is a stutter.
LEMMA QuietIsStutter ==
    ASSUME UNCHANGED <<session, wire, issued>>, InFlight' = InFlight,
           \A p \in InFlight : pkt'[p] = pkt[p]
    PROVE  UNCHANGED CC!ccVars
  BY FlyingKept DEF OnAir, CC!ccVars

\* Every step is one of the command channel, or a stutter.
LEMMA NextIsChannelStep ==
    ASSUME TypeOK, SnoInv, SealedInOneSession, LoggedInByLogin, [Next]_vars
    PROVE  [CC!Next]_CC!ccVars
<1>u. CASE UNCHANGED vars
  BY <1>u, QuietIsStutter DEF vars, InFlight
<1>n. ASSUME NEW p \in Procs, Login(p) \/ Send(p)
      PROVE  CC!Next \/ UNCHANGED CC!ccVars
  <2>1. CASE LoginStart(p)
    BY <2>1, QuietIsStutter DEF LoginStart, InFlight, TypeOK
  <2>2. CASE LoginWritePair(p)
    BY <2>2, QuietIsStutter DEF LoginWritePair, InFlight, TypeOK
  <2>3. CASE LoginWriteFails(p)
    BY <2>3, QuietIsStutter DEF LoginWriteFails, InFlight, TypeOK
  <2>4. CASE LoginReadPair(p)
    BY <2>4, QuietIsStutter DEF LoginReadPair, InFlight, TypeOK
  <2>5. CASE LoginReadFails(p)
    BY <2>5, QuietIsStutter DEF LoginReadFails, InFlight, TypeOK
  <2>6. CASE LoginInstall(p)
    BY <2>6, LoginIsPair DEF CC!Next
  <2>7. CASE SendRefused(p)
    BY <2>7, QuietIsStutter DEF SendRefused, InFlight
  <2>8. CASE SendCaptureKey(p)
    BY <2>8, QuietIsStutter DEF SendCaptureKey, InFlight, TypeOK
  <2>9. CASE SendNextSNO(p)
    BY <2>9, NextSNOIsSeal DEF CC!Next
  <2>10. CASE SendWrite(p)
    BY <2>10, WriteIsLeave DEF CC!Next
  <2>11. CASE SendWriteFails(p)
    BY <2>11, WriteFailsIsLose DEF CC!Next
  <2> QED
    BY <1>n, <2>1, <2>2, <2>3, <2>4, <2>5, <2>6, <2>7, <2>8, <2>9, <2>10, <2>11
    DEF Login, Send
<1> QED
  BY <1>u, <1>n DEF Next

\* Login and Send with their locks, goroutines and handshake implement the
\* channel that pairs at once and seals at once, however they overlap, until a
\* Login splits a Send.
THEOREM ChannelRefinement == Spec => ImplementsCommandChannel
<1>1. TypeOK /\ SnoInv /\ SealInv /\ [Next]_vars => [~split' => CC!Next]_CC!ccVars
  <2> SUFFICES ASSUME TypeOK, SnoInv, SealInv, [Next]_vars, ~split'
               PROVE  [CC!Next]_CC!ccVars
    OBVIOUS
  <2>1. SealedInOneSession /\ LoggedInByLogin
    BY SplitRecords DEF SealInv
  <2> QED
    BY <2>1, NextIsChannelStep
<1>2. Spec => CC!Init /\ [][~split' => CC!Next]_CC!ccVars
  BY <1>1, InitChannel, TypeCorrect, SnoInvariant, SealInvariant, PTL DEF Spec
<1> QED
  BY <1>2 DEF ImplementsCommandChannel

=============================================================================
