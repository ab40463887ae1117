----------------------------- MODULE MCStrDhRtx -----------------------------
(***************************************************************************)
(* Instances of StrDhRtx with one group, of which f is the founder.        *)
(***************************************************************************)
EXTENDS StrDhRtx, TLC

CONSTANTS f, s

MCServiceOfInterest == [m \in Members |-> s]
MCFounder == [x \in Services |-> f]
MCMemberCount == [x \in Services |-> Cardinality(Members)]

\* The subscribers are interchangeable.
Subscribers == Permutations(Members \ {f})
=============================================================================
