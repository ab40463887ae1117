---------------------------- MODULE PortBinding ----------------------------
(***************************************************************************)
(* How the processes on one machine get a unicast port each: the           *)
(* constructor of src/multicast_channel/multicast_channel.cpp.             *)
(*                                                                         *)
(* A process asks the kernel for any port.  With reuse_address the kernel  *)
(* may give it one that is in use, so the process then looks with ss how   *)
(* many sockets are bound to its port.  If it is not exactly one, it       *)
(* sleeps, closes the socket and tries again.  A process that is through   *)
(* the constructor keeps its port.                                         *)
(*                                                                         *)
(* ss does not see all the sockets at one moment: others bind and close    *)
(* theirs while it runs.                                                   *)
(***************************************************************************)
EXTENDS Integers, FiniteSets

CONSTANTS
    Processes,      \* the processes on the machine
    Ports           \* the ports the kernel chooses from

UNINITIALIZED_PORT == 0

ASSUME PortsAssumption ==
    /\ IsFiniteSet(Processes)
    /\ UNINITIALIZED_PORT \notin Ports

VARIABLES
    phase,          \* phase[p]: where p is in the constructor
    port,           \* port[p]: the port its unicast socket is bound to
    seen,           \* seen[p]: the processes whose socket ss has come to
    found           \* found[p]: those of them bound to the port of p

vars == <<phase, port, seen, found>>

Phases == {"down", "unbound", "looking", "sleeping", "open"}

Init ==
    /\ phase = [p \in Processes |-> "down"]
    /\ port = [p \in Processes |-> UNINITIALIZED_PORT]
    /\ seen = [p \in Processes |-> {}]
    /\ found = [p \in Processes |-> {}]

\* The multicast socket is bound and has joined the multicast group.
Join(p) ==
    /\ phase[p] = "down"
    /\ phase' = [phase EXCEPT ![p] = "unbound"]
    /\ UNCHANGED <<port, seen, found>>

\* Mutant of Bind: the process goes on with what it found out before.
BindUnseen(p) ==
    /\ phase[p] = "unbound"
    /\ \E x \in Ports : port' = [port EXCEPT ![p] = x]
    /\ phase' = [phase EXCEPT ![p] = "looking"]
    /\ seen' = [seen EXCEPT ![p] = Processes]
    /\ found' = [found EXCEPT ![p] = {p}]

\* The kernel gives p any port, also one that is in use.
Bind(p) ==
    /\ phase[p] = "unbound"
    /\ \E x \in Ports : port' = [port EXCEPT ![p] = x]
    /\ phase' = [phase EXCEPT ![p] = "looking"]
    /\ seen' = [seen EXCEPT ![p] = {}]
    /\ found' = [found EXCEPT ![p] = {}]

\* ss, run by p, comes to the socket of q.
See(p, q) ==
    /\ phase[p] = "looking"
    /\ q \notin seen[p]
    /\ seen' = [seen EXCEPT ![p] = @ \cup {q}]
    /\ found' = [found EXCEPT ![p] = IF port[q] = port[p] THEN @ \cup {q} ELSE @]
    /\ UNCHANGED <<phase, port>>

\* Mutant of PortBoundOnce: nobody else is bound to the port, or one other.
PortBoundTwice(p) == seen[p] = Processes /\ Cardinality(found[p]) <= 2

PortBoundOnce(p) == seen[p] = Processes /\ Cardinality(found[p]) = 1

Accept(p) ==
    /\ phase[p] = "looking"
    /\ PortBoundOnce(p)
    /\ phase' = [phase EXCEPT ![p] = "open"]
    /\ UNCHANGED <<port, seen, found>>

\* is_port_bound_once returns false also if the command cannot be run, and
\* if grep finds the digits of the port in another one.  The port stays
\* bound while the process sleeps.
Reject(p) ==
    /\ phase[p] = "looking"
    /\ phase' = [phase EXCEPT ![p] = "sleeping"]
    /\ UNCHANGED <<port, seen, found>>

Close(p) ==
    /\ phase[p] = "sleeping"
    /\ phase' = [phase EXCEPT ![p] = "unbound"]
    /\ port' = [port EXCEPT ![p] = UNINITIALIZED_PORT]
    /\ UNCHANGED <<seen, found>>

Bindings(p) ==
    \/ Bind(p)
    \/ \E q \in Processes : See(p, q)
    \/ Accept(p)
    \/ Reject(p)
    \/ Close(p)

Next == \E p \in Processes : Join(p) \/ Bindings(p)

Spec == Init /\ [][Next]_vars

-----------------------------------------------------------------------------
TypeOK ==
    /\ phase \in [Processes -> Phases]
    /\ port \in [Processes -> Ports \cup {UNINITIALIZED_PORT}]
    /\ seen \in [Processes -> SUBSET Processes]
    /\ found \in [Processes -> SUBSET Processes]

(***************************************************************************)
(* No two processes go on with the same port, although each of them looks  *)
(* at the others at its own time and the kernel gives ports out twice.     *)
(* The protocols take the endpoint for the identity of a member.           *)
(***************************************************************************)
PortsDistinct ==
    \A p, q \in Processes :
        phase[p] = "open" /\ phase[q] = "open" /\ port[p] = port[q] => p = q

(***************************************************************************)
(* Why: when two processes have the same port and each has looked at the  *)
(* other, the one that looked last found the other.                        *)
(***************************************************************************)
Bound(p) == phase[p] \in {"looking", "sleeping", "open"}

OneNoticed ==
    \A p, q \in Processes :
        /\ Bound(p) /\ Bound(q) /\ p # q /\ port[p] = port[q]
        /\ q \in seen[p] /\ p \in seen[q]
        => q \in found[p] \/ p \in found[q]

\* A process that looks finds its own socket.
OwnFound ==
    \A p \in Processes :
        /\ Bound(p) /\ p \in seen[p] => p \in found[p]
        /\ phase[p] = "open" => PortBoundOnce(p)

IInv == TypeOK /\ OneNoticed /\ OwnFound

(***************************************************************************)
(* A process that has not gone on may still release its port.              *)
(***************************************************************************)
Stage(p) ==
    IF phase[p] \in {"looking", "sleeping"} THEN "bound"
    ELSE IF phase[p] = "unbound" THEN "joined"
    ELSE phase[p]

Choice == INSTANCE PortChoice WITH stage <- [p \in Processes |-> Stage(p)]

ImplementsPortChoice == Choice!Spec
=============================================================================
