------------------------------ MODULE Session ------------------------------
(***************************************************************************)
(* The encrypted session of a Client: client.go Login and Send over the    *)
(* mutex-protected session struct of session.go, with the paired node.     *)
(*                                                                         *)
(* Every critical section of session.mu and every transport call is one    *)
(* step, so the calls of several goroutines interleave exactly where the   *)
(* code lets go of the lock: between the capture of the key and nextSNO,   *)
(* between nextSNO and WriteCommand, and between the transport calls and   *)
(* the install of Login.                                                   *)
(*                                                                         *)
(* A random randA (or randB) is 8 fresh bytes: it is modelled by the       *)
(* number of the pairing attempt, and never repeats.  A salt is 2 bytes    *)
(* and may repeat: it is any member of Salts.  The sequence byte is        *)
(* counted modulo SeqMod (256 in the code).                                *)
(***************************************************************************)
EXTENDS Integers, Sequences

CONSTANTS
    Procs,      \* goroutines that call methods of the one Client
    SeqMod,     \* number of values of session.seq (uint8: 256)
    Salts,      \* values of the 2-byte salt; 0 is the zero value
    MaxLogins,  \* bound: Login calls
    MaxSends    \* bound: Send calls

ASSUME SessionAssumption ==
    /\ SeqMod \in Nat \ {0}
    /\ 0 \in Salts
    /\ MaxLogins \in Nat
    /\ MaxSends \in Nat

VARIABLES
    session,    \* the session struct: key, salt, seq, loggedIn
    pc,         \* where each goroutine is, "idle" outside the Client
    login,      \* locals of Login: randA, randB, salt
    pkt,        \* locals of Send: the packet being built
    node,       \* the node's side of the pairing: last randA, randB
    wire,       \* packets handed to WriteCommand, in that order
    logins,     \* Login calls so far; also the source of fresh randA
    sends,      \* Send calls so far
    issued,     \* serial numbers issued since the session was installed
    split       \* history: a Login has installed its session between the key
                \* and the sno of a Send

vars == <<session, pc, login, pkt, node, wire, logins, sends, issued, split>>

-----------------------------------------------------------------------------
\* Variant for the mutants: the key depends on nothing the handshake drew.
FixedKey(a, b) == [randA |-> 0, randB |-> 0]

\* crypto.DeriveSessionKey: distinct inputs give distinct keys.
DeriveSessionKey(a, b) == [randA |-> a, randB |-> b]

\* The key the node derives from the last pairing request it processed.
NodeKey == DeriveSessionKey(node.randA, node.randB)

\* Variant for the mutants: the counter outgrows its byte, sticks at its last
\* value, or is not advanced.
UnwrappedSeq(s) == s + 1
SaturatedSeq(s) == IF s = SeqMod - 1 THEN s ELSE s + 1
StuckSeq(s) == s

\* session.seq++ on a uint8.
NextSeq(s) == (s + 1) % SeqMod

Keys == [randA : Nat, randB : Nat]
Seqs == 0 .. (SeqMod - 1)

\* What crypto.Encrypt fixes of a packet: the key, and the sno (seq and
\* salt) in header and nonce.  "era" and "nth" are history: the session the
\* sno was taken from, named by its randA, and how many snos of that session
\* were taken before.
Packets == [key : Keys, seq : Seqs, salt : Salts, era : Nat, nth : Nat]

\* crypto.CommandNonce: the address of the gateway is fixed, the sno is not.
CommandNonce(x) == [seq |-> x.seq, salt |-> x.salt]

LoginSteps == {"writePair", "readPair", "install"}
SendSteps == {"nextSNO", "write"}

LoggingIn == {p \in Procs : pc[p] \in LoginSteps}

TypeOK ==
    /\ session \in [key : Keys, salt : Salts, seq : Seqs, loggedIn : BOOLEAN]
    /\ pc \in [Procs -> {"idle"} \union LoginSteps \union SendSteps]
    /\ login \in [Procs -> [randA : Nat, randB : Nat, salt : Salts]]
    /\ pkt \in [Procs -> Packets]
    /\ node \in [randA : Nat, randB : Nat]
    /\ wire \in Seq(Packets)
    /\ logins \in Nat
    /\ sends \in Nat
    /\ issued \in Nat
    /\ split \in BOOLEAN

-----------------------------------------------------------------------------
Init ==
    /\ session = [key |-> DeriveSessionKey(0, 0), salt |-> 0, seq |-> 0,
                  loggedIn |-> FALSE]
    /\ pc = [p \in Procs |-> "idle"]
    /\ login = [p \in Procs |-> [randA |-> 0, randB |-> 0, salt |-> 0]]
    /\ pkt = [p \in Procs |-> [key |-> DeriveSessionKey(0, 0), seq |-> 0,
                               salt |-> 0, era |-> 0, nth |-> 0]]
    /\ node = [randA |-> 0, randB |-> 0]
    /\ wire = << >>
    /\ logins = 0
    /\ sends = 0
    /\ issued = 0
    /\ split = FALSE

-----------------------------------------------------------------------------
(* Login                                                                   *)

\* randA and the salt are drawn before anything is sent.
LoginStart(p) ==
    /\ pc[p] = "idle"
    /\ logins < MaxLogins
    /\ logins' = logins + 1
    /\ \E s \in Salts :
          login' = [login EXCEPT ![p] =
                      [randA |-> logins + 1, randB |-> 0, salt |-> s]]
    /\ pc' = [pc EXCEPT ![p] = "writePair"]
    /\ UNCHANGED <<session, pkt, node, wire, sends, issued, split>>

\* The node takes a pairing request: it draws a randB and rekeys.
NodePair(a) == node' = [randA |-> a, randB |-> node.randB + 1]

\* crypto.BuildLoginRequest: what the node takes from it, given that both
\* know the password of the mesh.
LoginRequest(l) == l.randA

\* The write request is answered, so on success the node has rekeyed.
LoginWritePair(p) ==
    /\ pc[p] = "writePair"
    /\ NodePair(LoginRequest(login[p]))
    /\ pc' = [pc EXCEPT ![p] = "readPair"]
    /\ UNCHANGED <<session, login, pkt, wire, logins, sends, issued, split>>

\* WritePair returns an error: the node may or may not have seen the request.
LoginWriteFails(p) ==
    /\ pc[p] = "writePair"
    /\ NodePair(LoginRequest(login[p])) \/ UNCHANGED node
    /\ pc' = [pc EXCEPT ![p] = "idle"]
    /\ UNCHANGED <<session, login, pkt, wire, logins, sends, issued, split>>

LoginReadPair(p) ==
    /\ pc[p] = "readPair"
    /\ login' = [login EXCEPT ![p].randB = node.randB]
    /\ pc' = [pc EXCEPT ![p] = "install"]
    /\ UNCHANGED <<session, pkt, node, wire, logins, sends, issued, split>>

\* ReadPair fails, or ParseLoginResponse rejects what it read.
LoginReadFails(p) ==
    /\ pc[p] = "readPair"
    /\ pc' = [pc EXCEPT ![p] = "idle"]
    /\ UNCHANGED <<session, login, pkt, node, wire, logins, sends, issued, split>>

\* Variant for the mutants: the key is derived without the answer of the node;
\* the counter is not reset.
KeyWithoutAnswer(l) ==
    [key |-> DeriveSessionKey(l.randA, l.randA), salt |-> l.salt, seq |-> 0,
     loggedIn |-> TRUE]
KeptSeq(l) ==
    [key |-> DeriveSessionKey(l.randA, l.randB), salt |-> l.salt, seq |-> session.seq,
     loggedIn |-> TRUE]

\* The session Login writes under session.mu.
InstalledSession(l) ==
    [key |-> DeriveSessionKey(l.randA, l.randB), salt |-> l.salt, seq |-> 0,
     loggedIn |-> TRUE]

LoginInstall(p) ==
    /\ pc[p] = "install"
    /\ session' = InstalledSession(login[p])
    /\ issued' = 0
    /\ split' = (split \/ \E q \in Procs : pc[q] = "nextSNO")
    /\ pc' = [pc EXCEPT ![p] = "idle"]
    /\ UNCHANGED <<login, pkt, node, wire, logins, sends>>

-----------------------------------------------------------------------------
(* Send                                                                    *)

\* ErrNotLoggedIn: nothing happens.
SendRefused(p) ==
    /\ pc[p] = "idle"
    /\ sends < MaxSends
    /\ sends' = sends + 1
    /\ ~session.loggedIn
    /\ UNCHANGED <<session, pc, login, pkt, node, wire, logins, issued, split>>

\* First critical section: check loggedIn, capture the key.
SendCaptureKey(p) ==
    /\ pc[p] = "idle"
    /\ sends < MaxSends
    /\ sends' = sends + 1
    /\ session.loggedIn
    /\ pkt' = [pkt EXCEPT ![p].key = session.key]
    /\ pc' = [pc EXCEPT ![p] = "nextSNO"]
    /\ UNCHANGED <<session, login, node, wire, logins, issued, split>>

\* The packet Encrypt builds from the captured key and the sno of nextSNO.
Encrypt(k) ==
    [key |-> k, seq |-> session.seq, salt |-> session.salt,
     era |-> session.key.randA, nth |-> issued]

\* Second critical section: nextSNO takes a serial number.
SendNextSNO(p) ==
    /\ pc[p] = "nextSNO"
    /\ pkt' = [pkt EXCEPT ![p] = Encrypt(pkt[p].key)]
    /\ session' = [session EXCEPT !.seq = NextSeq(session.seq)]
    /\ issued' = issued + 1
    /\ pc' = [pc EXCEPT ![p] = "write"]
    /\ UNCHANGED <<login, node, wire, logins, sends, split>>

SendWrite(p) ==
    /\ pc[p] = "write"
    /\ wire' = Append(wire, pkt[p])
    /\ pc' = [pc EXCEPT ![p] = "idle"]
    /\ UNCHANGED <<session, login, pkt, node, logins, sends, issued, split>>

\* WriteCommand returns an error and the packet is not on the air.
SendWriteFails(p) ==
    /\ pc[p] = "write"
    /\ pc' = [pc EXCEPT ![p] = "idle"]
    /\ UNCHANGED <<session, login, pkt, node, wire, logins, sends, issued, split>>

-----------------------------------------------------------------------------
Login(p) ==
    \/ LoginStart(p)
    \/ LoginWritePair(p)
    \/ LoginWriteFails(p)
    \/ LoginReadPair(p)
    \/ LoginReadFails(p)
    \/ LoginInstall(p)

Send(p) ==
    \/ SendRefused(p)
    \/ SendCaptureKey(p)
    \/ SendNextSNO(p)
    \/ SendWrite(p)
    \/ SendWriteFails(p)

Next == \E p \in Procs : Login(p) \/ Send(p)

Spec == Init /\ [][Next]_vars

-----------------------------------------------------------------------------
(* Properties                                                              *)

\* The issue numbers of two packets are a full wrap of the counter apart.
WrapApart(x, y) == x.nth - y.nth >= SeqMod \/ y.nth - x.nth >= SeqMod

\* No two packets carry a serial number of the same session unless the
\* counter of nextSNO wrapped between them, however many goroutines send,
\* in whatever order their writes reach the air.
SnoReusedOnlyAfterWrap ==
    \A i, j \in DOMAIN wire :
        /\ i # j
        /\ wire[i].era = wire[j].era
        /\ wire[i].seq = wire[j].seq
        => WrapApart(wire[i], wire[j])

\* The AES-CCM requirement behind the serial number (crypto.Encrypt): the
\* pair of key and nonce is not used again before the counter wraps, across
\* every Login of the Client, crossing ones too, and even where two sessions
\* draw the same salt.  The one overlap excepted is the one that breaks
\* SendUsesOneSession.
NonceReusedOnlyAfterWrap ==
    ~split =>
        \A i, j \in DOMAIN wire :
            /\ i # j
            /\ wire[i].key = wire[j].key
            /\ CommandNonce(wire[i]) = CommandNonce(wire[j])
            => WrapApart(wire[i], wire[j])

\* While the last pairing request the node took is the one of the installed
\* session, Client and node hold the same key (Login, DeriveSessionKey):
\* whichever Logins cross it, fail before their request reaches the node or
\* read an answer that was meant for another.
KeysAgree ==
    session.loggedIn /\ session.key.randA = node.randA => session.key = NodeKey

\* A command is encrypted under the node's key (Send: "encrypts cmd under the
\* session key") when it is written while the node is still paired with the
\* Login it captured its key of, though Logins crossed that one, and others
\* failed or installed their session after the command was built.
NodeCanDecrypt ==
    [][ Len(wire') > Len(wire) /\ wire'[Len(wire')].key.randA = node.randA
          => wire'[Len(wire')].key = NodeKey ]_vars

\* A Send uses one session: the key that encrypts a packet and the sno in
\* its nonce belong to the same Login (Send, session).
SendUsesOneSession ==
    \A i \in DOMAIN wire : wire[i].key.randA = wire[i].era

-----------------------------------------------------------------------------
(* Why SnoReusedOnlyAfterWrap holds                                        *)

InFlight == {p \in Procs : pc[p] = "write"}

\* A sealed packet: its sequence byte counts its issue number, which is
\* below the counter if the session is still installed, and no Login in
\* progress is going to install its session again.
SealedInSession(x) ==
    /\ x.seq = x.nth % SeqMod
    /\ x.era <= logins
    /\ x.era = session.key.randA => x.nth < issued
    /\ \A p \in LoggingIn : x.era # login[p].randA

SameIssue(x, y) == x.era = y.era /\ x.nth = y.nth

\* A Login in progress has a randA of its own, not the installed one.
LoginsFresh ==
    /\ session.key.randA <= logins
    /\ \A p \in LoggingIn :
          /\ login[p].randA <= logins
          /\ login[p].randA # session.key.randA
          /\ \A q \in LoggingIn \ {p} : login[q].randA # login[p].randA

SnoCounted == session.seq = issued % SeqMod

PacketsSealed ==
    /\ \A i \in DOMAIN wire : SealedInSession(wire[i])
    /\ \A p \in InFlight : SealedInSession(pkt[p])

\* Every issue number is spent once: on the air or by one goroutine.
IssuedOnce ==
    /\ \A i, j \in DOMAIN wire : i # j => ~SameIssue(wire[i], wire[j])
    /\ \A p, q \in InFlight : p # q => ~SameIssue(pkt[p], pkt[q])
    /\ \A i \in DOMAIN wire, p \in InFlight : ~SameIssue(wire[i], pkt[p])

\* The inductive invariant: the lock makes nextSNO count, so every issue
\* number is spent once, by whichever goroutine took it.
SnoInv ==
    /\ LoginsFresh
    /\ SnoCounted
    /\ PacketsSealed
    /\ IssuedOnce

-----------------------------------------------------------------------------
(* Why the keys match, however Logins cross                                *)

\* The answer a Login read is the node's answer to its own request, if no
\* other request came between.
AnswersMatch ==
    \A p \in Procs :
        pc[p] = "install" /\ node.randA = login[p].randA
            => login[p].randB = node.randB

\* What a Send captured comes from a Login that is over, and is the node's key
\* if that Login's request is the last the node took.
CapturedKeys ==
    \A p \in Procs : pc[p] \in SendSteps =>
        /\ pkt[p].key.randA <= logins
        /\ \A q \in LoggingIn : login[q].randA # pkt[p].key.randA
        /\ pkt[p].key.randA = node.randA => pkt[p].key = NodeKey

\* The inductive invariant of the handshake.
HandshakeInv ==
    /\ KeysAgree
    /\ AnswersMatch
    /\ CapturedKeys

-----------------------------------------------------------------------------
(* Why key and sno belong together while no Login split a Send             *)

\* A session is installed by a Login, and a Send under way has found one.
LoggedInByLogin ==
    /\ session.loggedIn => session.key.randA > 0
    /\ \A p \in LoggingIn : login[p].randA > 0
    /\ \A p \in Procs : pc[p] = "nextSNO" => session.loggedIn

\* The key a Send captured is still the installed one when it takes its sno,
\* and belongs to that sno from then on.
SealedInOneSession ==
    /\ \A p \in Procs : pc[p] = "nextSNO" => pkt[p].key = session.key
    /\ \A p \in Procs : pc[p] = "write" => pkt[p].key.randA = pkt[p].era
    /\ SendUsesOneSession

\* The inductive invariant of the seal.
SealInv == LoggedInByLogin /\ (~split => SealedInOneSession)

-----------------------------------------------------------------------------
(* What Send promises is CommandChannel: a session is replaced at once and *)
(* a command is sealed at once.                                            *)

Sealed(x) == [key |-> x.key.randA, seq |-> x.seq, salt |-> x.salt, nth |-> x.nth]

Flying == {Sealed(pkt[p]) : p \in InFlight}
OnAir == [i \in DOMAIN wire |-> Sealed(wire[i])]

CC == INSTANCE CommandChannel WITH
        gen <- session.key.randA,
        genSalt <- session.salt,
        count <- issued,
        inFlight <- Flying,
        sent <- OnAir

\* Login and Send of the Client implement the atomic command channel: each
\* step of the code, in whatever order Logins and Sends overlap, is a step of
\* CommandChannel or leaves it unchanged, until a Login installs its session
\* between the two critical sections of a Send.
ImplementsCommandChannel ==
    CC!Init /\ [][~split' => CC!Next]_(CC!ccVars)

=============================================================================
