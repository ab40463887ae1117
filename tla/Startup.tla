------------------------------ MODULE Startup ------------------------------
(***************************************************************************)
(* How src/eval_automization_scripts/start_evaluation.bash launches the    *)
(* processes of a group.                                                   *)
(*                                                                         *)
(* The script launches the subscribers, waits until as many ports are      *)
(* bound as there are subscribers and launches the founder, which will     *)
(* offer its service once.  The processes bind their ports meanwhile, as   *)
(* in PortBinding.                                                         *)
(***************************************************************************)
EXTENDS PortBinding, Sequences

CONSTANT MemberCount    \* the second argument of the script

\* The processes in the order of their launch; the last is the founder.
ASSUME StartupAssumption ==
    /\ MemberCount \in Nat
    /\ MemberCount >= 2
    /\ Processes = 1 .. MemberCount

get_subscriber_count == MemberCount - 1
Subscribers == 1 .. get_subscriber_count
founder == MemberCount

VARIABLES
    script,         \* the step the script is at
    launched        \* the processes it has launched

\* The decimal digits of n.
Digits(n) ==
    LET length == CHOOSE d \in 1 .. 9 : n < 10^d /\ (d > 1 => n >= 10^(d - 1))
    IN  [i \in 1 .. length |-> (n \div 10^(length - i)) % 10]

\* The string s comes before t in [[ s < t ]].
StringLess(s, t) ==
    \E i \in 1 .. Len(t) :
        /\ \A j \in 1 .. i - 1 : j \in DOMAIN s /\ s[j] = t[j]
        /\ i \in DOMAIN s => s[i] < t[i]

get_process_count == Cardinality(launched)

get_members_up_count_by_unique_ports ==
    Cardinality({port[p] : p \in launched} \ {UNINITIALIZED_PORT})

LaunchSubscriber ==
    /\ script = "subscribers"
    /\ get_process_count < get_subscriber_count
    /\ launched' = launched \cup {get_process_count + 1}
    /\ UNCHANGED <<script, vars>>

SubscribersStarted ==
    /\ script = "subscribers"
    /\ get_process_count = get_subscriber_count
    /\ script' = "ports"
    /\ UNCHANGED <<launched, vars>>

\* Mutant of PortsMissing: one port may be missing.
OnePortMissing ==
    StringLess(Digits(get_members_up_count_by_unique_ports + 1), Digits(get_subscriber_count))

PortsMissing ==
    StringLess(Digits(get_members_up_count_by_unique_ports), Digits(get_subscriber_count))

LaunchFounder ==
    /\ script = "ports"
    /\ ~ PortsMissing
    /\ script' = "wait"
    /\ launched' = launched \cup {founder}
    /\ UNCHANGED vars

\* A process that was launched goes on in the constructor of its channel.
Construct(p) ==
    /\ p \in launched
    /\ Join(p) \/ Bindings(p)
    /\ UNCHANGED <<script, launched>>

StartupInit ==
    /\ script = "subscribers"
    /\ launched = {}
    /\ Init

StartupNext ==
    \/ LaunchSubscriber
    \/ SubscribersStarted
    \/ LaunchFounder
    \/ \E p \in Processes : Construct(p)

StartupSpec == StartupInit /\ [][StartupNext]_<<script, launched, vars>>

-----------------------------------------------------------------------------
(***************************************************************************)
(* The founder is launched when every subscriber has joined the multicast  *)
(* address, so that none misses the one offer that the founder makes in    *)
(* the build without RETRANSMISSIONS.  The script cannot see that: it      *)
(* counts ports, some of which are bound twice or given up again.  It      *)
(* compares the numbers as strings, "2" is not less than "10", so this is  *)
(* claimed for less than ten subscribers.                                  *)
(***************************************************************************)
FounderLast ==
    get_subscriber_count < 10 /\ founder \in launched =>
        \A p \in Subscribers : phase[p] # "down"
=============================================================================
