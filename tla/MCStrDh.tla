------------------------------ MODULE MCStrDh ------------------------------
(***************************************************************************)
(* Instances of StrDh with one group, of which f is the founder.           *)
(***************************************************************************)
EXTENDS StrDh, TLC

CONSTANTS f, s

MCServiceOfInterest == [m \in Members |-> s]
MCFounder == [x \in Services |-> f]
MCMemberCount == [x \in Services |-> Cardinality(Members)]

\* One subscriber more than there are places.
MCOneTooMany == [x \in Services |-> Cardinality(Members) - 1]

\* The subscribers are interchangeable.
Subscribers == Permutations(Members \ {f})
=============================================================================
