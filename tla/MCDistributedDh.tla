-------------------------- MODULE MCDistributedDh --------------------------
(***************************************************************************)
(* Instances of DistributedDh.  The members of MembersOfS are in the group *)
(* of s, founded by f; the others, if any, in the group of t, founded by g.*)
(***************************************************************************)
EXTENDS DistributedDh, TLC

CONSTANTS f, g, s, t, MembersOfS

MCServiceOfInterest == [m \in Members |-> IF m \in MembersOfS THEN s ELSE t]
MCFounder == [x \in Services |-> IF x = s THEN f ELSE g]
MCMemberCount ==
    [x \in Services |-> Cardinality({m \in Members : Service(m) = x})]

\* The subscribers of s are interchangeable.
SubscribersOfS == Permutations(MembersOfS \ {f})
=============================================================================
