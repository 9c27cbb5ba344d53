--------------------------- MODULE CommandChannel ---------------------------
(***************************************************************************)
(* What a Client promises of its commands, with no lock, no goroutine and  *)
(* no handshake: pairing starts a new generation of the channel at once,   *)
(* and a command is sealed at once, under the key of the current           *)
(* generation and with the next serial number of that generation.  Sealed  *)
(* commands leave in any order, and some never leave.                      *)
(*                                                                         *)
(* Session implements this module (Session!ImplementsCommandChannel).      *)
(***************************************************************************)
EXTENDS Integers, Sequences

CONSTANTS
    SeqMod,     \* number of values of the sequence byte
    Salts       \* values of the salt

VARIABLES
    gen,        \* current generation, 0 before the first pairing
    genSalt,    \* its salt
    count,      \* commands sealed in it
    inFlight,   \* sealed commands that have not left
    sent        \* commands that left, in order

ccVars == <<gen, genSalt, count, inFlight, sent>>

Init ==
    /\ gen = 0
    /\ genSalt = 0
    /\ count = 0
    /\ inFlight = {}
    /\ sent = << >>

\* The generations commands were sealed in, as far as anyone can still tell.
Used == {c.key : c \in inFlight} \union {sent[i].key : i \in DOMAIN sent}

\* A pairing may fail and waste a generation, and two that cross may end in
\* either order; a generation never comes back.
Pair ==
    /\ gen' \in Nat \ (Used \union {0, gen})
    /\ genSalt' \in Salts
    /\ count' = 0
    /\ UNCHANGED <<inFlight, sent>>

Seal ==
    /\ gen > 0
    /\ count' = count + 1
    /\ inFlight' = inFlight \union
         {[key |-> gen, seq |-> count % SeqMod, salt |-> genSalt, nth |-> count]}
    /\ UNCHANGED <<gen, genSalt, sent>>

Leave(c) ==
    /\ c \in inFlight
    /\ inFlight' = inFlight \ {c}
    /\ sent' = Append(sent, c)
    /\ UNCHANGED <<gen, genSalt, count>>

Lose(c) ==
    /\ c \in inFlight
    /\ inFlight' = inFlight \ {c}
    /\ UNCHANGED <<gen, genSalt, count, sent>>

Next ==
    \/ Pair
    \/ Seal
    \/ \E c \in inFlight : Leave(c) \/ Lose(c)

Spec == Init /\ [][Next]_ccVars

=============================================================================
