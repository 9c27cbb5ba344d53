------------------------------- MODULE Groups -------------------------------
(***************************************************************************)
(* The groups of a device.  SetGroupMembership of command/group.go replaces*)
(* the whole list, so a program that adds or removes one group asks for the*)
(* list (QueryGroupMembership, ParseGroupMembership), changes it and writes*)
(* it back; another program may write a list of its own in between.        *)
(*                                                                         *)
(* The device is external: it answers with its groups in an order of its   *)
(* own, of which ascending and descending are two, and becomes a member of *)
(* the groups in the list it is sent.                                      *)
(***************************************************************************)
EXTENDS Integers, SequencesExt

CONSTANTS
    Wanted,     \* the low bytes of the groups the program adds and removes
    OtherLists  \* bound: the memberships another program sets

ASSUME GroupsAssumption ==
    /\ Wanted \subseteq 0 .. 255
    /\ OtherLists \subseteq SUBSET (0 .. 255)

VARIABLES
    groups,     \* the groups the device is a member of
    list,       \* the list the program has read, NotRead before
    fresh       \* history: the groups are still those that were read

groupVars == <<groups, list, fresh>>

-----------------------------------------------------------------------------
PlaintextLen == 15
HeaderLen == 5
PayloadLen == 10
Terminators == {0, 255}

\* The groups there is room for, behind the count and gwMAC5.
Room == PlaintextLen - HeaderLen - 2

NotRead == <<-1>>

GroupsTypeOK ==
    /\ groups \subseteq 0 .. 255
    /\ list = NotRead \/ list \in Seq(0 .. 255)
    /\ fresh \in BOOLEAN

\* A device nobody has put into a group yet.
GroupsInit ==
    /\ groups = {}
    /\ list = NotRead
    /\ fresh = FALSE

-----------------------------------------------------------------------------
\* The payload of a 0xD4 notification.
Answer(order) ==
    [i \in 1 .. PayloadLen |-> IF i <= Len(order) THEN order[i] ELSE 0]

ParseGroupMembership(payload) ==
    LET stops == {i \in 1 .. PayloadLen : payload[i] \in Terminators}
    IN IF stops = {} THEN payload ELSE SubSeq(payload, 1, Min(stops) - 1)

Ascending(S) ==
    [i \in 1 .. Cardinality(S) |-> CHOOSE g \in S : Cardinality({h \in S : h < g}) = i - 1]

QueryGroupMembership ==
    /\ LET order == Ascending(groups)
       IN \E o \in {order, Reverse(order)} : list' = ParseGroupMembership(Answer(o))
    /\ fresh' = TRUE
    /\ UNCHANGED groups

\* Variant for the mutants: the list is copied over gwMAC5 and what follows.
SetGroupMembershipMisplaced(l) ==
    [count |-> Len(l) % 256, groups |-> SubSeq(l, 2, Len(l))]

\* The count is that of the list passed in.
SetGroupMembership(l) == [count |-> Len(l) % 256, groups |-> l]

\* What of it reaches the device: Encode cuts the data off.
Encoded(command) == [command EXCEPT !.groups = SubSeq(@, 1, Min({Len(@), Room}))]

\* The groups the device finds: as many as counted, if they are there.
Received(command) ==
    {command.groups[i] : i \in {j \in DOMAIN command.groups : j <= command.count}}

\* A command may be lost.
Rewrite(l) ==
    /\ groups' \in {Received(Encoded(SetGroupMembership(l))), groups}
    /\ list' = NotRead
    /\ fresh' = FALSE

AddGroup(g) ==
    /\ list # NotRead
    /\ Rewrite(Append(list, g))

\* A group is in the list once at most.
RemoveGroup(g) ==
    /\ list # NotRead
    /\ Rewrite(RemoveFirst(list, g))

OtherProgramSets(gs) ==
    /\ groups' = gs
    /\ fresh' = FALSE
    /\ UNCHANGED list

-----------------------------------------------------------------------------
GroupsNext ==
    \/ QueryGroupMembership
    \/ \E g \in Wanted : AddGroup(g) \/ RemoveGroup(g)
    \/ \E gs \in OtherLists : OtherProgramSets(gs)

GroupsSpec == GroupsInit /\ [][GroupsNext]_groupVars

-----------------------------------------------------------------------------
(* Properties                                                              *)

\* A rewrite changes the group it is about and no other, if the list was read
\* whole (no group is a terminator), is still true and leaves room
\* (SetGroupMembership "sets the complete group membership list").
RewriteKeepsOthers ==
    [][\A g \in Wanted :
          (AddGroup(g) \/ RemoveGroup(g)) /\ fresh /\ groups \intersect Terminators = {}
          /\ Len(list) < Room
              => groups' \ {g} = groups \ {g}]_groupVars

=============================================================================
