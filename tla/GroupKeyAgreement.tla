------------------------- MODULE GroupKeyAgreement -------------------------
(***************************************************************************)
(* What a contributory group key agreement promises, without messages.     *)
(*                                                                         *)
(* A group (one per service) is a sequence of members that only grows at   *)
(* its end, its founder first.  The group key is the sequence itself: the  *)
(* i-th member's secret is mixed in at position i.  Each member knows a    *)
(* key, which is empty or the key of the first members of the group up to  *)
(* one at least as late as the member itself.  A member is done only when  *)
(* it knows the key of a complete group.                                   *)
(*                                                                         *)
(* StrDh implements this specification (StrDh!ImplementsGroupKeyAgreement) *)
(***************************************************************************)
EXTENDS Naturals, Sequences, FiniteSets

CONSTANTS
    Members,                \* every process
    Services,               \* one group is agreed on per service
    service_of_interest,    \* service_of_interest[m]: the group m is to join
    founder,                \* founder[s]: the first member of the group of s
    member_count            \* member_count[s]: the size of a complete group

VARIABLES
    group,                  \* group[s]: who is in, in the order of assignment
    key,                    \* key[m]: the group key as far as m knows it
    done                    \* the members that finished with their group key

vars == <<group, key, done>>

Service(m) == service_of_interest[m]

InGroup(g) == {g[i] : i \in DOMAIN g}

Init ==
    /\ group = [s \in Services |-> <<>>]
    /\ key = [m \in Members |-> <<>>]
    /\ done = {}

(***************************************************************************)
(* The groups that s may have next: the same, or one more member at its    *)
(* end.  Nobody is ever admitted twice.                                    *)
(***************************************************************************)
Grown(s) ==
    {group[s]} \cup
    {Append(group[s], e) :
        e \in {m \in Members :
                /\ Service(m) = s
                /\ m \notin InGroup(group[s])
                /\ (group[s] = <<>>) <=> (m = founder[s])}}

(***************************************************************************)
(* The keys member m may know when its group is g: nothing, or the key of  *)
(* an initial part of g that m belongs to.  It never forgets.              *)
(***************************************************************************)
Learnable(m, g) ==
    {k \in {SubSeq(g, 1, n) : n \in Len(key[m]) .. Len(g)} :
        k # <<>> => m \in InGroup(k)}

(***************************************************************************)
(* One step of a member: it may admit one more member, learn more of the   *)
(* group key, and finish if what it then knows is the whole of it.         *)
(***************************************************************************)
Step(m) ==
    /\ m \notin done
    /\ \E g \in Grown(Service(m)) :
          /\ group' = [group EXCEPT ![Service(m)] = g]
          /\ \E k \in Learnable(m, g) :
                /\ key' = [key EXCEPT ![m] = k]
                /\ \/ done' = done
                   \/ /\ Len(k) = member_count[Service(m)]
                      /\ done' = done \cup {m}

Next == \E m \in Members : Step(m)

Spec == Init /\ [][Next]_vars
=============================================================================
