---------------------------- MODULE StartupProofs ----------------------------
(***************************************************************************)
(* Proofs about PortBinding, for any number of processes and any set of    *)
(* ports, however small: no two processes go on with the same port.  And   *)
(* about Startup: launching the processes by the script changes nothing of *)
(* this, and with less than ten subscribers the founder is launched last.  *)
(***************************************************************************)
EXTENDS Startup, FiniteSetTheorems, TLAPS

(***************************************************************************)
(* A set with one element has no other.                                    *)
(***************************************************************************)
LEMMA OnlyOne ==
    ASSUME NEW S, Cardinality(S) = 1, IsFiniteSet(S), NEW a \in S, NEW b \in S
    PROVE  a = b
<1>1. PICK x : S = {x}
    BY FS_Singleton
<1> QED
    BY <1>1

(***************************************************************************)
(* Initially nobody is bound.                                              *)
(***************************************************************************)
LEMMA InitIInv == Init => IInv
BY PortsAssumption DEF Init, IInv, TypeOK, OneNoticed, OwnFound, Bound, Phases

(***************************************************************************)
(* The types are kept by every step.                                       *)
(***************************************************************************)
LEMMA NextTypeOK == TypeOK /\ Next => TypeOK'
<1> SUFFICES ASSUME TypeOK, NEW p \in Processes, Join(p) \/ Bindings(p)
             PROVE  TypeOK'
    BY DEF Next
<1> USE DEF TypeOK, Phases
<1>1. CASE Join(p)
    BY <1>1 DEF Join
<1>2. CASE Bind(p)
    BY <1>2 DEF Bind
<1>3. ASSUME NEW q \in Processes, See(p, q) PROVE TypeOK'
    BY <1>3 DEF See
<1>4. CASE Accept(p)
    BY <1>4 DEF Accept
<1>5. CASE Reject(p)
    BY <1>5 DEF Reject
<1>6. CASE Close(p)
    BY <1>6 DEF Close
<1> QED
    BY <1>1, <1>2, <1>3, <1>4, <1>5, <1>6 DEF Bindings

(***************************************************************************)
(* A process that binds forgets whom it saw; one that looks finds who has  *)
(* its port; nobody else changes what counts.                              *)
(***************************************************************************)
LEMMA NextOneNoticed == TypeOK /\ OneNoticed /\ Next => OneNoticed'
<1> SUFFICES ASSUME TypeOK, OneNoticed, NEW p \in Processes, Join(p) \/ Bindings(p)
             PROVE  OneNoticed'
    BY DEF Next
<1> USE DEF TypeOK, OneNoticed, Bound
<1>1. CASE Join(p)
    BY <1>1 DEF Join
<1>2. CASE Bind(p)
    BY <1>2 DEF Bind
<1>3. ASSUME NEW q \in Processes, See(p, q) PROVE OneNoticed'
    BY <1>3 DEF See
<1>4. CASE Accept(p)
    BY <1>4 DEF Accept
<1>5. CASE Reject(p)
    BY <1>5 DEF Reject
<1>6. CASE Close(p)
    BY <1>6 DEF Close
<1> QED
    BY <1>1, <1>2, <1>3, <1>4, <1>5, <1>6 DEF Bindings

(***************************************************************************)
(* A process finds its own socket, and goes on only if it found one.       *)
(***************************************************************************)
LEMMA NextOwnFound == TypeOK /\ OwnFound /\ Next => OwnFound'
<1> SUFFICES ASSUME TypeOK, OwnFound, NEW p \in Processes, Join(p) \/ Bindings(p)
             PROVE  OwnFound'
    BY DEF Next
<1> USE DEF TypeOK, OwnFound, Bound, PortBoundOnce
<1>1. CASE Join(p)
    BY <1>1 DEF Join
<1>2. CASE Bind(p)
    BY <1>2 DEF Bind
<1>3. ASSUME NEW q \in Processes, See(p, q) PROVE OwnFound'
    BY <1>3 DEF See
<1>4. CASE Accept(p)
    BY <1>4 DEF Accept
<1>5. CASE Reject(p)
    BY <1>5 DEF Reject
<1>6. CASE Close(p)
    BY <1>6 DEF Close
<1> QED
    BY <1>1, <1>2, <1>3, <1>4, <1>5, <1>6 DEF Bindings

(***************************************************************************)
(* The inductive invariant holds in every reachable state.                 *)
(***************************************************************************)
THEOREM PortBindingInvariant == Spec => []IInv
<1>1. IInv /\ UNCHANGED vars => IInv'
    BY DEF IInv, vars, TypeOK, OneNoticed, OwnFound, Bound, PortBoundOnce
<1>2. IInv /\ [Next]_vars => IInv'
    BY <1>1, NextTypeOK, NextOneNoticed, NextOwnFound DEF IInv
<1> QED
    BY InitIInv, <1>2, PTL DEF Spec

(***************************************************************************)
(* No two processes ever go on with the same port: both found only         *)
(* themselves, but one of them would have found the other.                 *)
(***************************************************************************)
THEOREM PortsAreDistinct == Spec => []PortsDistinct
<1>1. IInv => PortsDistinct
    <2> SUFFICES ASSUME IInv, NEW p \in Processes, NEW q \in Processes,
                        phase[p] = "open", phase[q] = "open", port[p] = port[q],
                        p # q
                 PROVE  FALSE
        BY DEF PortsDistinct
    <2>1. PortBoundOnce(p) /\ PortBoundOnce(q) /\ p \in found[p] /\ q \in found[q]
        BY DEF IInv, OwnFound, Bound, PortBoundOnce
    <2>2. q \in found[p] \/ p \in found[q]
        BY <2>1 DEF IInv, OneNoticed, Bound, PortBoundOnce
    <2>3. IsFiniteSet(found[p]) /\ IsFiniteSet(found[q])
        BY PortsAssumption, FS_Subset DEF IInv, TypeOK
    <2> QED
        BY <2>1, <2>2, <2>3, OnlyOne DEF PortBoundOnce
<1> QED
    BY <1>1, PortBindingInvariant, PTL

(***************************************************************************)
(* The processes take ports as PortChoice says: looking and sleeping are   *)
(* not visible, closing releases the port, accepting opens it, and nobody  *)
(* who went on has it then.                                                *)
(***************************************************************************)
THEOREM PortBindingImplementsPortChoice == Spec => ImplementsPortChoice
<1> DEFINE visible == <<[p \in Processes |-> Stage(p)], port>>
<1>1. Init => Choice!Init
    BY DEF Init, Choice!Init, Stage, UNINITIALIZED_PORT, Choice!UNINITIALIZED_PORT
<1>2. ASSUME TypeOK, PortsDistinct', [Next]_vars
      PROVE  [Choice!Next]_visible
    <2> USE <1>2 DEF TypeOK, Stage
    <2>1. CASE UNCHANGED vars
        BY <2>1 DEF vars
    <2>2. ASSUME NEW p \in Processes, Join(p) PROVE Choice!Next
        BY <2>2 DEF Join, Choice!Next, Choice!Join
    <2>3. ASSUME NEW p \in Processes, Bind(p) PROVE Choice!Next
        <3>1. Choice!Bind(p)
            BY <2>3 DEF Bind, Choice!Bind
        <3> QED
            BY <3>1 DEF Choice!Next, Choice!Bindings
    <2>4. ASSUME NEW p \in Processes, NEW q \in Processes, See(p, q)
          PROVE  UNCHANGED visible
        BY <2>4 DEF See
    <2>5. ASSUME NEW p \in Processes, Accept(p) PROVE Choice!Next
        <3>1. \A q \in Processes : phase[q] = "open" => port[q] # port[p]
            BY <2>5 DEF Accept, PortsDistinct
        <3>2. Choice!Open(p)
            BY <2>5, <3>1 DEF Accept, Choice!Open, Phases
        <3> QED
            BY <3>2 DEF Choice!Next, Choice!Bindings
    <2>6. ASSUME NEW p \in Processes, Reject(p) PROVE UNCHANGED visible
        BY <2>6 DEF Reject
    <2>7. ASSUME NEW p \in Processes, Close(p) PROVE Choice!Next
        <3>1. Choice!Release(p)
            BY <2>7 DEF Close, Choice!Release, Choice!UNINITIALIZED_PORT, UNINITIALIZED_PORT
        <3> QED
            BY <3>1 DEF Choice!Next, Choice!Bindings
    <2> QED
        BY <2>1, <2>2, <2>3, <2>4, <2>5, <2>6, <2>7 DEF Next, Bindings
<1>3. IInv => TypeOK
    BY DEF IInv
<1> QED
    BY <1>1, <1>2, <1>3, PortBindingInvariant, PortsAreDistinct, PTL
       DEF Spec, ImplementsPortChoice, Choice!Spec

-----------------------------------------------------------------------------
(***************************************************************************)
(* The processes launched by the script.                                   *)
(***************************************************************************)
startup == <<script, launched, vars>>

LEMMA StartupStep == [StartupNext]_startup => [Next]_vars
BY DEF StartupNext, LaunchSubscriber, SubscribersStarted, LaunchFounder, Construct, Next,
       startup

LEMMA StartupIsSpec == StartupSpec => Spec
BY StartupStep, PTL DEF StartupSpec, StartupInit, Spec, startup

(***************************************************************************)
(* PortsDistinct: launched by the script, too, the processes go on with a  *)
(* port each.                                                              *)
(***************************************************************************)
THEOREM StartupKeepsPortsDistinct == StartupSpec => []PortsDistinct
BY StartupIsSpec, PortsAreDistinct, PTL

(***************************************************************************)
(* ImplementsPortChoice: the script only restricts when a process is in    *)
(* its constructor, so what it launches does what PortChoice promises.     *)
(***************************************************************************)
THEOREM StartupImplementsPortChoice == StartupSpec => ImplementsPortChoice
BY StartupIsSpec, PortBindingImplementsPortChoice

-----------------------------------------------------------------------------
(***************************************************************************)
(* The script compares numbers as strings.  Numbers of one digit it        *)
(* compares right.                                                         *)
(***************************************************************************)
LEMMA OneDigit == ASSUME NEW n \in 0 .. 9 PROVE Digits(n) = <<n>>
<1> DEFINE length == CHOOSE d \in 1 .. 9 : n < 10^d /\ (d > 1 => n >= 10^(d - 1))
<1>1. n < 10^1
  OBVIOUS
<1>2. ASSUME NEW k \in 1 .. 8 PROVE n < 10^k
  <2>1. CASE k = 1
    BY <2>1
  <2>2. CASE k = 2
    BY <2>2
  <2>3. CASE k = 3
    BY <2>3
  <2>4. CASE k = 4
    BY <2>4
  <2>5. CASE k = 5
    BY <2>5
  <2>6. CASE k = 6
    BY <2>6
  <2>7. CASE k = 7
    BY <2>7
  <2>8. CASE k = 8
    BY <2>8
  <2> QED
    BY <2>1, <2>2, <2>3, <2>4, <2>5, <2>6, <2>7, <2>8
<1>3. length = 1
  <2>1. \E d \in 1 .. 9 : n < 10^d /\ (d > 1 => n >= 10^(d - 1))
    BY <1>1
  <2>2. length \in 1 .. 9 /\ (length > 1 => n >= 10^(length - 1))
    BY <2>1
  <2> HIDE DEF length
  <2>3. ASSUME length # 1 PROVE FALSE
    <3>1. length \in 2 .. 9 /\ n >= 10^(length - 1)
      BY <2>2, <2>3
    <3>2. length - 1 \in 1 .. 8
      BY <3>1
    <3>3. n < 10^(length - 1)
      BY <1>2, <3>2
    <3>4. 10^(length - 1) \in Int
      BY <3>2
    <3> QED
      BY <3>1, <3>3, <3>4
  <2> QED
    BY <2>3
<1>4. Digits(n) = [i \in 1 .. length |-> (n \div 10^(length - i)) % 10]
  BY DEF Digits
<1> HIDE DEF length
<1>5. (n \div 10^(1 - 1)) % 10 = n
  OBVIOUS
<1>6. Digits(n) = [i \in 1 .. 1 |-> n]
  BY <1>3, <1>4, <1>5
<1> QED
  BY <1>6

LEMMA DigitLess ==
    ASSUME NEW a \in 0 .. 9, NEW b \in 0 .. 9, ~ StringLess(Digits(a), Digits(b))
    PROVE  b <= a
<1>1. Digits(a) = <<a>> /\ Digits(b) = <<b>>
  BY OneDigit
<1>2. ~ StringLess(<<a>>, <<b>>)
  BY <1>1
<1> QED
  BY <1>2 DEF StringLess

-----------------------------------------------------------------------------
(***************************************************************************)
(* What the script has launched, step by step, and what a process is that  *)
(* was not launched: down, without a port.                                 *)
(***************************************************************************)
Launched ==
    \/ script = "subscribers" /\ \E k \in 0 .. get_subscriber_count : launched = 1 .. k
    \/ script = "ports" /\ launched = Subscribers
    \/ script = "wait" /\ launched = Processes

PortsBound ==
    \A p \in Processes : phase[p] = "down" => port[p] = UNINITIALIZED_PORT

SubscribersUp ==
    get_subscriber_count < 10 /\ script = "wait" =>
        \A p \in Subscribers : phase[p] # "down"

StartupInv == TypeOK /\ Launched /\ PortsBound /\ SubscribersUp

LEMMA StartupSets ==
    /\ get_subscriber_count \in Nat \ {0}
    /\ Subscribers \subseteq Processes
    /\ Processes = Subscribers \cup {founder}
    /\ founder \notin Subscribers
    /\ IsFiniteSet(Subscribers)
    /\ Cardinality(Subscribers) = get_subscriber_count
<1>1. MemberCount \in Nat /\ MemberCount >= 2 /\ Processes = 1 .. MemberCount
  BY StartupAssumption
<1>2. /\ IsFiniteSet(1 .. MemberCount - 1)
      /\ Cardinality(1 .. MemberCount - 1) = MemberCount - 1
  BY <1>1, FS_Interval
<1> QED
  BY <1>1, <1>2 DEF get_subscriber_count, Subscribers, founder

\* There are less ports than subscribers while one of them is down.
LEMMA PortsCounted ==
    ASSUME TypeOK, PortsBound, launched = Subscribers,
           NEW p \in Subscribers, phase[p] = "down"
    PROVE  /\ get_members_up_count_by_unique_ports \in Nat
           /\ get_members_up_count_by_unique_ports < get_subscriber_count
<1> DEFINE others == Subscribers \ {p}
           used == {port[q] : q \in others}
           ports == {port[q] : q \in launched} \ {UNINITIALIZED_PORT}
<1>1. /\ IsFiniteSet(others)
      /\ Cardinality(others) = get_subscriber_count - 1
  BY StartupSets, FS_RemoveElement
<1>2. [q \in others |-> port[q]] \in Surjection(others, used)
  BY DEF Surjection
<1> HIDE DEF others
<1>3. /\ IsFiniteSet(used)
      /\ Cardinality(used) <= Cardinality(others)
  BY <1>1, <1>2, FS_Surjection
<1>4. ports \subseteq used
  BY StartupSets DEF PortsBound, others
<1>5. /\ IsFiniteSet(ports)
      /\ Cardinality(ports) <= Cardinality(used)
  BY <1>3, <1>4, FS_Subset
<1>6. Cardinality(ports) \in Nat /\ Cardinality(used) \in Nat
  BY <1>3, <1>5, FS_CardinalityType
<1>7. get_members_up_count_by_unique_ports = Cardinality(ports)
  BY DEF get_members_up_count_by_unique_ports
<1> HIDE DEF ports, used
<1> QED
  BY <1>1, <1>3, <1>5, <1>6, <1>7, StartupSets

LEMMA FounderWaits ==
    ASSUME TypeOK, PortsBound, launched = Subscribers, get_subscriber_count < 10,
           ~ PortsMissing
    PROVE  \A p \in Subscribers : phase[p] # "down"
<1> SUFFICES ASSUME NEW p \in Subscribers, phase[p] = "down" PROVE FALSE
  OBVIOUS
<1>1. /\ get_members_up_count_by_unique_ports \in Nat
      /\ get_members_up_count_by_unique_ports < get_subscriber_count
  BY PortsCounted
<1>2. /\ get_members_up_count_by_unique_ports \in 0 .. 9
      /\ get_subscriber_count \in 0 .. 9
  BY <1>1, StartupSets
<1>3. get_subscriber_count <= get_members_up_count_by_unique_ports
  BY <1>2, DigitLess DEF PortsMissing
<1> QED
  BY <1>1, <1>2, <1>3

LEMMA InitStartupInv == StartupInit => StartupInv
<1> SUFFICES ASSUME StartupInit PROVE StartupInv
  OBVIOUS
<1>1. TypeOK
  BY InitIInv DEF StartupInit, IInv
<1>2. 0 \in 0 .. get_subscriber_count /\ launched = 1 .. 0
  BY StartupSets DEF StartupInit
<1> QED
  BY <1>1, <1>2 DEF StartupInit, StartupInv, Launched, PortsBound, SubscribersUp, Init

LEMMA NextStartupInv == StartupInv /\ [StartupNext]_startup => StartupInv'
<1> SUFFICES ASSUME StartupInv, [StartupNext]_startup PROVE StartupInv'
  OBVIOUS
<1> USE DEF StartupInv
<1>1. TypeOK'
  <2>1. [Next]_vars
    BY StartupStep
  <2>2. UNCHANGED vars => TypeOK'
    BY DEF vars, TypeOK
  <2> QED
    BY <2>1, <2>2, NextTypeOK
<1>2. CASE UNCHANGED startup
  BY <1>1, <1>2 DEF startup, vars, Launched, PortsBound, SubscribersUp
<1>3. CASE LaunchSubscriber
  <2>1. PICK k \in 0 .. get_subscriber_count : launched = 1 .. k
    BY <1>3 DEF LaunchSubscriber, Launched
  <2>2. get_process_count = k
    BY <2>1, FS_Interval, StartupSets DEF get_process_count
  <2>3. k + 1 \in 0 .. get_subscriber_count /\ launched' = 1 .. k + 1
    BY <1>3, <2>1, <2>2, StartupSets DEF LaunchSubscriber
  <2> QED
    BY <1>1, <1>3, <2>3 DEF LaunchSubscriber, vars, Launched, PortsBound, SubscribersUp
<1>4. CASE SubscribersStarted
  <2>1. PICK k \in 0 .. get_subscriber_count : launched = 1 .. k
    BY <1>4 DEF SubscribersStarted, Launched
  <2>2. get_process_count = k
    BY <2>1, FS_Interval, StartupSets DEF get_process_count
  <2>3. launched = Subscribers
    BY <1>4, <2>1, <2>2 DEF SubscribersStarted, Subscribers
  <2> QED
    BY <1>1, <1>4, <2>3 DEF SubscribersStarted, vars, Launched, PortsBound, SubscribersUp
<1>5. CASE LaunchFounder
  <2>1. launched = Subscribers /\ script' = "wait" /\ launched' = Processes
    BY <1>5, StartupSets DEF LaunchFounder, Launched
  <2>2. get_subscriber_count < 10 => \A p \in Subscribers : phase[p] # "down"
    BY <1>5, <2>1, FounderWaits DEF LaunchFounder
  <2> QED
    BY <1>1, <1>5, <2>1, <2>2 DEF LaunchFounder, vars, Launched, PortsBound, SubscribersUp
<1>6. ASSUME NEW p \in Processes, Construct(p) PROVE StartupInv'
  <2>1. \A q \in Processes : phase'[q] = "down" => phase[q] = "down" /\ port'[q] = port[q]
    BY <1>6, Zenon DEF Construct, Join, Bindings, Bind, See, Accept, Reject, Close, TypeOK
  <2>2. PortsBound'
    BY <2>1 DEF PortsBound
  <2>3. SubscribersUp'
    BY <1>6, <2>1, StartupSets DEF SubscribersUp, Construct
  <2>4. Launched'
    BY <1>6 DEF Launched, Construct
  <2> QED
    BY <1>1, <2>2, <2>3, <2>4
<1> QED
  BY <1>2, <1>3, <1>4, <1>5, <1>6 DEF StartupNext

(***************************************************************************)
(* FounderLast: a subscriber that has not joined the multicast address has *)
(* no port, so the script counts less ports than there are subscribers and *)
(* does not launch the founder.                                            *)
(***************************************************************************)
THEOREM FounderLaunchedLast == StartupSpec => []FounderLast
<1>1. ASSUME StartupInv PROVE FounderLast
  <2>1. founder = get_subscriber_count + 1 /\ get_subscriber_count \in Nat
    BY StartupAssumption DEF founder, get_subscriber_count
  <2>2. \A k \in 0 .. get_subscriber_count : founder \notin 1 .. k
    BY <2>1
  <2>3. founder \in launched => script = "wait"
    BY <1>1, <2>2, StartupSets DEF StartupInv, Launched
  <2> QED
    BY <1>1, <2>3 DEF StartupInv, SubscribersUp, FounderLast
<1> QED
  BY <1>1, InitStartupInv, NextStartupInv, PTL DEF StartupSpec, startup
=============================================================================
