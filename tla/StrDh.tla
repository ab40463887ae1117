------------------------------- MODULE StrDh -------------------------------
(***************************************************************************)
(* The contributory group key agreement of src/str_dh/str_dh.cpp as the    *)
(* repository builds it by default (CMakeLists.txt: ECC_DH PROTO_STR_DH,   *)
(* no RETRANSMISSIONS).                                                    *)
(*                                                                         *)
(* One member founds the group and is its sponsor.  It offers the service; *)
(* every unassigned subscriber answers with a request that carries its     *)
(* blinded secret.  The sponsor picks one requester, tells everybody in a  *)
(* response that this one is the next member, with the next id, and hands  *)
(* it the sponsor role.  Every member extends its group secret with the    *)
(* blinded secrets of the later members, in the order of their ids.        *)
(*                                                                         *)
(* All messages are multicast.  They are kept in the sequence log and a    *)
(* member takes each from it; one that is never taken is lost.  The        *)
(* handlers run under receive_mutex_ on one thread, so one handler, with   *)
(* all the calls it makes, is one step.                                    *)
(***************************************************************************)
EXTENDS StrDhMember

CONSTANTS
    InOrder,                \* TRUE: all members receive all messages in one order
    Scripted,               \* TRUE: founders are launched last, by the script
    MaxDuplicates           \* bound: how many messages the network duplicates

ASSUME NetworkAssumption ==
    /\ InOrder \in BOOLEAN
    /\ Scripted \in BOOLEAN
    /\ MaxDuplicates \in Nat

VARIABLES
    log,            \* every message sent so far, in the order of sending
    taken,          \* taken[m]: the messages (places in log) m took, or missed
    duplicates      \* how many messages were duplicated so far

vars == <<log, taken, duplicates, member>>

(***************************************************************************)
(* process_pending_request, followed by the contribute_statistics both its *)
(* callers end with.  A sponsor that finds no unassigned requester forgets *)
(* all the requests.                                                       *)
(***************************************************************************)
ProcessPendingRequest(m, self) ==
    \/ /\ ~ self.is_sponsor
       /\ member' = [member EXCEPT ![m] = ContributeStatistics(m, self)]
       /\ log' = log
    \/ /\ self.is_sponsor
       /\ Unassigned(self) = {}
       /\ member' = [member EXCEPT ![m] =
                        ContributeStatistics(m, [self EXCEPT !.pending_requests = {}])]
       /\ log' = log
    \/ /\ self.is_sponsor
       /\ \E e \in Unassigned(self) :
             /\ member' = [member EXCEPT ![m] =
                              ContributeStatistics(m, HandOver(self, e))]
             /\ log' = Append(log, Response(m, self, e))

(***************************************************************************)
(* The network.  A member filters its own messages by their source port.   *)
(* On one host the loopback delivers all messages to everybody in one      *)
(* order; otherwise a message may be taken in any order, or never.         *)
(***************************************************************************)
Deliverable(m, i) ==
    /\ member[m].status = "running"
    /\ log[i].from # m
    /\ i \notin taken[m]
    /\ InOrder => \A j \in 1 .. i - 1 : j \in taken[m] \/ log[j].from = m

Take(m, i) == taken' = [taken EXCEPT ![m] = @ \cup {i}] /\ UNCHANGED duplicates

\* The network delivers a copy of a message that m took or missed.
Duplicate(m, i) ==
    /\ duplicates < MaxDuplicates
    /\ i \in taken[m]
    /\ duplicates' = duplicates + 1
    /\ taken' = [taken EXCEPT ![m] = @ \ {i}]
    /\ UNCHANGED <<log, member>>

-----------------------------------------------------------------------------
(***************************************************************************)
(* The constructor and start().  The founder is assigned the first id,     *)
(* owns the group secret of one member and offers the service.  What was   *)
(* sent before the socket joined the multicast group is missed.            *)
(***************************************************************************)
Launch(m) ==
    /\ member[m].status = "down"
    /\ Scripted /\ IsFounder(m) =>
         \A n \in Members : IsFounder(n) \/ member[n].status # "down"
    /\ IF IsFounder(m)
       THEN /\ member' = [member EXCEPT
                    ![m].status = "running",
                    ![m].is_sponsor = TRUE,
                    ![m].member_id = INITIAL_SPONSOR_ID,
                    ![m].group_secret = <<m>>,
                    ![m].blinded_group_secret = <<m>>,
                    ![m].keys_computed_count = 1]
            /\ log' = Append(log, Offer(m))
       ELSE /\ member' = [member EXCEPT ![m].status = "running"]
            /\ log' = log
    /\ taken' = [taken EXCEPT ![m] = DOMAIN log]
    /\ UNCHANGED duplicates

(***************************************************************************)
(* process_offer: an unassigned member asks to join.                       *)
(***************************************************************************)
ProcessOffer(m, i) ==
    /\ log[i].type = "offer"
    /\ IF ~ IsAssigned(member[m]) /\ log[i].service = Service(m)
       THEN log' = Append(log, Request(m))
       ELSE log' = log
    /\ UNCHANGED member

(***************************************************************************)
(* process_request.  The founder, as long as it is the sponsor, records    *)
(* the start of the key agreement at every request of any service;         *)
(* statistics_recorder::record_timestamp throws when that was recorded     *)
(* before, and nothing catches it: the process ends.                       *)
(***************************************************************************)
ProcessRequest(m, i) ==
    LET self == NoteRequest(m, member[m], log[i])
        founding == self.member_id = INITIAL_SPONSOR_ID /\ self.is_sponsor
    IN  /\ log[i].type = "request"
        /\ \/ /\ ~ founding
              /\ ProcessPendingRequest(m, self)
           \/ /\ founding /\ ~ self.key_agreement_start
              /\ ProcessPendingRequest(m, [self EXCEPT !.key_agreement_start = TRUE])
           \/ /\ founding /\ self.key_agreement_start
              /\ member' = [member EXCEPT ![m] = [self EXCEPT !.status = "crashed"]]
              /\ log' = log

(***************************************************************************)
(* process_response: every receiver notes who was assigned which id, the   *)
(* addressee becomes the sponsor, and everybody but the last member goes   *)
(* on with the keys and the requests it has.                               *)
(***************************************************************************)
ProcessResponse(m, i) ==
    LET self == AfterResponse(m, member[m], log[i])
    IN  /\ log[i].type = "response"
        /\ \/ /\ IsLastMember(m, self)
              /\ member' = [member EXCEPT ![m] = ContributeStatistics(m, self)]
              /\ log' = log
           \/ /\ ~ IsLastMember(m, self)
              /\ \E next \in CheckAndAddNextBlindedKeys(self) :
                    ProcessPendingRequest(m, next)

\* received_data and deserialize_and_callback: one message, one handler.
Receive(m) ==
    \E i \in DOMAIN log :
        /\ Deliverable(m, i)
        /\ Take(m, i)
        /\ \/ ProcessOffer(m, i)
           \/ ProcessRequest(m, i)
           \/ ProcessResponse(m, i)

InitialMember ==
    [status |-> "down",
     is_sponsor |-> FALSE,
     member_id |-> DEFAULT_MEMBER_ID,
     group_secret |-> <<>>,
     blinded_group_secret |-> DEFAULT_SECRET,
     keys_computed_count |-> 0,
     pending_requests |-> {},
     assigned_keys |-> <<>>,
     assigned_endpoints |-> <<>>,
     key_agreement_start |-> FALSE]

Init ==
    /\ log = <<>>
    /\ taken = [m \in Members |-> {}]
    /\ duplicates = 0
    /\ member = [m \in Members |-> InitialMember]

Next ==
    \E m \in Members :
        \/ Launch(m)
        \/ Receive(m)
        \/ \E i \in taken[m] : Duplicate(m, i)

Spec == Init /\ [][Next]_vars

(***************************************************************************)
(* The evaluation launches every process, and io_service::run calls the    *)
(* handler of every datagram of a socket whose receive buffer is large     *)
(* enough (README.md, Large Send and Receive Buffers).                     *)
(***************************************************************************)
Fairness == \A m \in Members : WF_vars(Launch(m)) /\ WF_vars(Receive(m))

FairSpec == Spec /\ Fairness

-----------------------------------------------------------------------------
(***************************************************************************)
(* Properties.                                                             *)
(***************************************************************************)
Messages ==
    [type : {"offer", "request"}, from : Members, service : Services]
    \cup [type : {"response"}, from : Members, service : Services,
          blinded_group_secret : Seq(Members), new_sponsor : Members,
          assigned_id : MemberIds]

\* The fields of a str_dh object with the given maps.
MemberRecords(keys, endpoints) ==
    [status : {"down", "running", "stopped", "crashed"},
     is_sponsor : BOOLEAN,
     member_id : Nat,
     group_secret : Seq(Members),
     blinded_group_secret : Seq(Members),
     keys_computed_count : Nat,
     pending_requests : SUBSET Members,
     assigned_keys : {keys},
     assigned_endpoints : {endpoints},
     key_agreement_start : BOOLEAN]

\* self is the state of one str_dh object.  The maps have any finite set of
\* keys, so they are typed by themselves.
MemberState(self) ==
    /\ self \in MemberRecords(self.assigned_keys, self.assigned_endpoints)
    /\ self.assigned_keys \in [DOMAIN self.assigned_keys -> Members]
    /\ DOMAIN self.assigned_keys \subseteq MemberIds
    /\ self.assigned_endpoints \in [DOMAIN self.assigned_endpoints -> MemberIds]
    /\ DOMAIN self.assigned_endpoints \subseteq Members

\* The types of the variables, as the code declares them.
TypeOK ==
    /\ log \in Seq(Messages)
    /\ taken \in [Members -> SUBSET (DOMAIN log)]
    /\ duplicates \in 0 .. MaxDuplicates
    /\ member \in [Members -> {member[m] : m \in Members}]
    /\ \A m \in Members : MemberState(member[m])

Responses(s) ==
    {i \in DOMAIN log : log[i].type = "response" /\ log[i].service = s}

(***************************************************************************)
(* The sponsor role is a baton: the sponsor gives it up in the response    *)
(* that hands it on, and its addressee alone takes it.  A service never    *)
(* has two sponsors, and while the role travels in a response that its     *)
(* unassigned addressee can still take, nobody holds it.                   *)
(***************************************************************************)
InTransit(s) ==
    {log[i].new_sponsor : i \in {j \in Responses(s) :
                                   ~ IsAssigned(member[log[j].new_sponsor])}}

OneBaton == \A s \in Services : Cardinality(Sponsors(s) \cup InTransit(s)) <= 1

(***************************************************************************)
(* When everybody receives everything in one order, the sponsor role is    *)
(* never handed to a member that has an id already (it would be lost).     *)
(***************************************************************************)
NoReassignment ==
    InOrder => \A s \in Services : \A i, j \in Responses(s) :
                  /\ log[i].new_sponsor = log[j].new_sponsor => i = j
                  /\ log[i].new_sponsor # founder[s]

(***************************************************************************)
(* When there are more subscribers than places, nobody is assigned an id   *)
(* beyond member_count, although the last member becomes the sponsor too   *)
(* and only stops when it finishes.                                        *)
(***************************************************************************)
GroupNotOverfull ==
    InOrder => \A s \in Services : \A i \in Responses(s) :
                  log[i].assigned_id <= member_count[s]

(***************************************************************************)
(* A member keeps its id, its group secret only ever grows at the end, and *)
(* the role is given up only together with a response that hands it on.    *)
(***************************************************************************)
KeysGrow ==
    [][\A m \in Members :
        /\ IsAssigned(member[m]) => member'[m].member_id = member[m].member_id
        /\ Prefix(member[m].group_secret, member'[m].group_secret)
        /\ member[m].is_sponsor /\ ~ member'[m].is_sponsor =>
              /\ Len(log') = Len(log) + 1
              /\ log'[Len(log')].type = "response"
              /\ log'[Len(log')].from = m]_vars

(***************************************************************************)
(* When nothing is lost or reordered and the founder starts last, every    *)
(* member finishes, with a key of all the members of its group.            *)
(***************************************************************************)
Complete(m) ==
    /\ member[m].status = "stopped"
    /\ {member[m].group_secret[i] : i \in DOMAIN member[m].group_secret}
         = {n \in Members : Service(n) = Service(m)}

AllContribute == \A m \in Members : <>Complete(m)

(***************************************************************************)
(* The group of s: its founder, and whom the responses so far assigned, in *)
(* the order of their ids.  With it the protocol implements                *)
(* GroupKeyAgreement when all messages are received in one order.          *)
(***************************************************************************)
Holder(s, id) ==
    IF id = INITIAL_SPONSOR_ID
    THEN founder[s]
    ELSE log[CHOOSE i \in Responses(s) : log[i].assigned_id = id].new_sponsor

Group(s) ==
    IF member[founder[s]].status = "down"
    THEN <<>>
    ELSE [id \in 1 .. Cardinality(Responses(s)) + 1 |-> Holder(s, id)]

Agreement == INSTANCE GroupKeyAgreement
    WITH group <- [s \in Services |-> Group(s)],
         key <- [m \in Members |-> member[m].group_secret],
         done <- {m \in Members : member[m].status = "stopped"}

ImplementsGroupKeyAgreement == Agreement!Spec
=============================================================================
