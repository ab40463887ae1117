-------------------------- MODULE MCStrDhTwoGroups --------------------------
(***************************************************************************)
(* An instance of StrDh with two groups on one multicast address: f founds *)
(* the group of s, g the group of t.                                       *)
(***************************************************************************)
EXTENDS StrDh, TLC

CONSTANTS f, g, s, t, MembersOfS

MCServiceOfInterest == [m \in Members |-> IF m \in MembersOfS THEN s ELSE t]
MCFounder == s :> f @@ t :> g
MCMemberCount ==
    [x \in Services |-> Cardinality({m \in Members : Service(m) = x})]
=============================================================================
