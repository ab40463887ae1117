----------------------------- MODULE PortChoice -----------------------------
(***************************************************************************)
(* What src/multicast_channel/multicast_channel.cpp promises of the        *)
(* unicast ports: a process may try any port, and it goes on with one that *)
(* nobody who went on before has.                                          *)
(***************************************************************************)
EXTENDS Integers

CONSTANTS
    Processes,      \* the processes on the machine
    Ports           \* the ports the kernel chooses from

UNINITIALIZED_PORT == 0

VARIABLES
    stage,          \* stage[p]: how far the sockets of p are
    port            \* port[p]: the port its unicast socket is bound to

Init ==
    /\ stage = [p \in Processes |-> "down"]
    /\ port = [p \in Processes |-> UNINITIALIZED_PORT]

\* The multicast socket is bound and has joined the multicast group.
Join(p) ==
    /\ stage[p] = "down"
    /\ stage' = [stage EXCEPT ![p] = "joined"]
    /\ UNCHANGED port

Bind(p) ==
    /\ stage[p] = "joined"
    /\ stage' = [stage EXCEPT ![p] = "bound"]
    /\ \E x \in Ports : port' = [port EXCEPT ![p] = x]

Release(p) ==
    /\ stage[p] = "bound"
    /\ stage' = [stage EXCEPT ![p] = "joined"]
    /\ port' = [port EXCEPT ![p] = UNINITIALIZED_PORT]

Open(p) ==
    /\ stage[p] = "bound"
    /\ \A q \in Processes : stage[q] = "open" => port[q] # port[p]
    /\ stage' = [stage EXCEPT ![p] = "open"]
    /\ UNCHANGED port

Bindings(p) == Bind(p) \/ Release(p) \/ Open(p)

Next == \E p \in Processes : Join(p) \/ Bindings(p)

Spec == Init /\ [][Next]_<<stage, port>>
=============================================================================
