--------------------------- MODULE DistributedDh ---------------------------
(***************************************************************************)
(* The distributed group key agreement of                                  *)
(* src/distributed_dh/distributed_dh.cpp (PROTO_DST_DH), without and with  *)
(* RETRANSMISSIONS.                                                        *)
(*                                                                         *)
(* The sponsor generates the group secret and offers it.  Each subscriber  *)
(* asks the sponsor for it, gets it encrypted for itself and acknowledges  *)
(* it.  Without retransmissions a subscriber then ends, and the sponsor    *)
(* ends with the last acknowledgement.  With them the sponsor repeats, by  *)
(* scatter_timer_, the offer and the responses that are not acknowledged,  *)
(* then "finish", at which the others end; it ends by timeout_timer_.      *)
(*                                                                         *)
(* Offers and finishes are multicast, all else is unicast.  A message of   *)
(* net has one receiver; a copy that is sent again before the first is     *)
(* received is the same element.  Handlers of messages and timers run on   *)
(* one thread, one at a time.  A group secret is known by its generator,   *)
(* and is only ever decrypted by the member it was encrypted for, since a  *)
(* response goes to the sender of the blinded secret.                      *)
(***************************************************************************)
EXTENDS Integers, FiniteSets

CONSTANTS
    Members,                \* the processes; a member stands for its endpoint too
    Services,               \* the services offered on the multicast address
    service_of_interest,    \* service_of_interest[m]: the service m was started for
    founder,                \* founder[s]: the one member of s started as sponsor
    member_count,           \* member_count[s]: the group size all of s were given
    NoSecret,               \* the empty group secret
    RETRANSMISSIONS,        \* TRUE: compiled with that definition
    Unreliable,             \* TRUE: the network loses and duplicates messages
    Scripted                \* TRUE: founders are launched last, by the script

ASSUME ConfigurationAssumption ==
    /\ service_of_interest \in [Members -> Services]
    /\ founder \in [Services -> Members]
    /\ \A s \in Services : service_of_interest[founder[s]] = s
    /\ member_count \in [Services -> Nat \ {0}]
    /\ NoSecret \notin Members
    /\ RETRANSMISSIONS \in BOOLEAN
    /\ Unreliable \in BOOLEAN
    /\ Scripted \in BOOLEAN

VARIABLES
    net,        \* the messages on their way, each to one receiver
    member      \* member[m]: the state of the distributed_dh object of m

vars == <<net, member>>

Service(m) == service_of_interest[m]
IsFounder(m) == m = founder[Service(m)]
Subscribers(m) == member_count[Service(m)] - 1

Offer(m, n) == [type |-> "offer", from |-> m, to |-> n, service |-> Service(m)]

Request(m, n) == [type |-> "request", from |-> m, to |-> n, service |-> Service(m)]

DistributedResponse(m, n, self) ==
    [type |-> "distributed_response", from |-> m, to |-> n, service |-> Service(m),
     group_secret |-> self.group_secret]

Finish(m, n) == [type |-> "finish", from |-> m, to |-> n]

FinishAck(m, n) == [type |-> "finish_ack", from |-> m, to |-> n]

\* send_multicast: one copy for everybody else.
Offers(m) == {Offer(m, n) : n \in Members \ {m}}
Finishes(m) == {Finish(m, n) : n \in Members \ {m}}

(***************************************************************************)
(* The end of a handler of m: its new state is self, out is what it sent   *)
(* and rest what is still on its way.  Who is not running has no socket,   *)
(* so nothing is on its way to it.                                         *)
(***************************************************************************)
Ends(m, self, rest, out) ==
    /\ member' = [member EXCEPT ![m] = self]
    /\ net' = {msg \in rest \cup out : member'[msg.to].status = "running"}

\* record_timestamp: the second one of a metric is an uncaught exception.
RecordTimestamp(self, metric) ==
    IF metric \in self.time_statistics
    THEN [self EXCEPT !.status = "crashed"]
    ELSE [self EXCEPT !.time_statistics = @ \cup {metric}]

group_secret_rcvd(self) == self.group_secret # NoSecret

contribute_statistics(self) ==
    IF group_secret_rcvd(self) THEN [self EXCEPT !.status = "stopped"] ELSE self

(***************************************************************************)
(* scatter_timer_.  Waiting anew cancels the wait before, unless it        *)
(* expired already and its handler is queued.  Only the sponsor waits.     *)
(***************************************************************************)
Await(self, handler) == [self EXCEPT !.scatter_wait = handler]

ScatterExpires(m) ==
    /\ member[m].status = "running"
    /\ member[m].scatter_wait # "none"
    /\ member' = [member EXCEPT
            ![m].scatter_wait = "none",
            ![m].scatter_queue = @ \cup {member[m].scatter_wait}]
    /\ UNCHANGED net

Queued(m, handler) ==
    /\ member[m].status = "running"
    /\ handler \in member[m].scatter_queue

Dequeued(m, handler) == [member[m] EXCEPT !.scatter_queue = @ \ {handler}]

(***************************************************************************)
(* The handler of send_cyclic_messages.                                    *)
(***************************************************************************)
Answered(self) ==
    Cardinality(self.non_acked_responses) + Cardinality(self.endpoints_acks_rcvd_from)

SendCyclicMessages(m) ==
    LET self == Dequeued(m, "cyclic")
        more == Cardinality(self.endpoints_acks_rcvd_from) # Subscribers(m)
    IN  /\ Queued(m, "cyclic")
        /\ Ends(m,
                IF more THEN Await(self, "cyclic") ELSE self,
                net,
                (IF Answered(self) # Subscribers(m) THEN Offers(m) ELSE {})
                \cup {DistributedResponse(m, n, self) : n \in self.non_acked_responses})

\* The handler that repeats finish (process_finish for the sponsor itself).
SendFinish(m) ==
    /\ Queued(m, "finish")
    /\ Ends(m, Await(Dequeued(m, "finish"), "finish"), net, Finishes(m))

\* The handler of timeout_timer_ cancels scatter_timer_ and ends the sponsor.
Timeout(m) ==
    /\ member[m].status = "running"
    /\ member[m].timeout_wait
    /\ Ends(m, contribute_statistics([Await(member[m], "none") EXCEPT !.timeout_wait = FALSE]),
            net, {})

-----------------------------------------------------------------------------
NotGenerated(m) == NoSecret    \* mutant of Generated: nothing is generated
Generated(m) == m              \* the group secret that m generates

\* The constructor and start().
Launch(m) ==
    /\ member[m].status = "down"
    /\ Scripted /\ IsFounder(m) =>
         \A n \in Members : IsFounder(n) \/ member[n].status # "down"
    /\ IF IsFounder(m)
       THEN Ends(m,
                 [member[m] EXCEPT
                    !.status = "running",
                    !.is_sponsor = TRUE,
                    !.group_secret = Generated(m),
                    !.scatter_wait = IF RETRANSMISSIONS THEN "cyclic" ELSE "none"],
                 net, Offers(m))
       ELSE Ends(m, [member[m] EXCEPT !.status = "running"], net, {})

\* process_offer: who has no group secret asks the sponsor for it.
ProcessOffer(m, msg, rest) ==
    /\ msg.type = "offer"
    /\ Ends(m, member[m], rest,
            IF ~ group_secret_rcvd(member[m]) /\ msg.service = Service(m)
            THEN {Request(m, msg.from)} ELSE {})

(***************************************************************************)
(* process_request: the group secret is sent to the requester and noted as *)
(* not acknowledged.  The first request starts the key agreement.          *)
(***************************************************************************)
\* Mutant of Respond: the requester counts as acknowledged at once.
RespondAcked(m, self, n) ==
    [self EXCEPT !.endpoints_acks_rcvd_from = @ \cup {n}]

Respond(m, self, n) ==
    [self EXCEPT !.non_acked_responses = @ \cup {n}]

ProcessRequest(m, msg, rest) ==
    LET self == IF Answered(member[m]) = 0
                THEN RecordTimestamp(member[m], "KEY_AGREEMENT_START_")
                ELSE member[m]
    IN  /\ msg.type = "request"
        /\ IF /\ self.status = "running"
              /\ msg.from \notin self.non_acked_responses
              /\ msg.service = Service(m)
           THEN Ends(m, Respond(m, self, msg.from), rest,
                     {DistributedResponse(m, msg.from, self)})
           ELSE Ends(m, self, rest, {})

(***************************************************************************)
(* process_distributed_response: the first one brings the group secret,    *)
(* each one is acknowledged; without retransmissions the subscriber ends.  *)
(***************************************************************************)
ProcessDistributedResponse(m, msg, rest) ==
    LET self == IF group_secret_rcvd(member[m])
                THEN member[m]
                ELSE [member[m] EXCEPT !.group_secret = msg.group_secret]
    IN  /\ msg.type = "distributed_response"
        /\ IF msg.service = Service(m)
           THEN Ends(m,
                     IF RETRANSMISSIONS THEN self ELSE contribute_statistics(self),
                     rest,
                     IF group_secret_rcvd(self) THEN {FinishAck(m, msg.from)} ELSE {})
           ELSE Ends(m, member[m], rest, {})

\* process_finish, received: it carries no service.
ProcessFinish(m, msg, rest) ==
    /\ msg.type = "finish"
    /\ Ends(m, contribute_statistics(member[m]), rest, {})

(***************************************************************************)
(* process_finish_ack: with the last one the sponsor ends the agreement.   *)
(***************************************************************************)
\* Mutants of Acknowledge: the response stays not acknowledged; the
\* acknowledgement is not counted.
AcknowledgeKept(self, n) ==
    [self EXCEPT !.endpoints_acks_rcvd_from = @ \cup {n}]
AcknowledgeUncounted(self, n) ==
    [self EXCEPT !.non_acked_responses = @ \ {n}]

Acknowledge(self, n) ==
    [self EXCEPT !.endpoints_acks_rcvd_from = @ \cup {n},
                 !.non_acked_responses = @ \ {n}]

\* Mutant of AllAcknowledged: whoever was answered counts.
AllAnswered(m, self) == self.is_sponsor /\ Answered(self) = Subscribers(m)

\* Mutant of AllAcknowledged: whoever acknowledged last is the last.
AnyAcknowledged(m, self) == self.is_sponsor

AllAcknowledged(m, self) ==
    /\ self.is_sponsor
    /\ Cardinality(self.endpoints_acks_rcvd_from) = Subscribers(m)

\* Mutant of EndAgreement: the sponsor goes on as a sponsor.
EndAgreementAsSponsor(m, self) ==
    LET done == RecordTimestamp(self, "DURATION_END_")
    IN  IF RETRANSMISSIONS
        THEN [Await(done, "finish") EXCEPT !.timeout_wait = TRUE]
        ELSE contribute_statistics(done)

EndAgreement(m, self) ==
    LET done == RecordTimestamp(self, "DURATION_END_")
    IN  IF RETRANSMISSIONS
        THEN [Await(done, "finish") EXCEPT !.is_sponsor = FALSE, !.timeout_wait = TRUE]
        ELSE contribute_statistics(done)

ProcessFinishAck(m, msg, rest) ==
    LET self == Acknowledge(member[m], msg.from)
    IN  /\ msg.type = "finish_ack"
        /\ IF AllAcknowledged(m, self)
           THEN Ends(m, EndAgreement(m, self), rest,
                     IF RETRANSMISSIONS THEN Finishes(m) ELSE {})
           ELSE Ends(m, self, rest, {})

-----------------------------------------------------------------------------
Process(m, msg, rest) ==
    \/ ProcessOffer(m, msg, rest)
    \/ ProcessRequest(m, msg, rest)
    \/ ProcessDistributedResponse(m, msg, rest)
    \/ ProcessFinish(m, msg, rest)
    \/ ProcessFinishAck(m, msg, rest)

\* received_data and deserialize_and_callback: one message, one handler.
Receive(m, type) ==
    /\ member[m].status = "running"
    /\ \E msg \in net :
          /\ msg.to = m /\ msg.type = type
          /\ Process(m, msg, net \ {msg})

\* The same, while the network keeps a copy of the message.
ReceiveCopy(m) ==
    /\ Unreliable
    /\ member[m].status = "running"
    /\ \E msg \in net : msg.to = m /\ Process(m, msg, net)

Lose(msg) ==
    /\ Unreliable
    /\ net' = net \ {msg}
    /\ UNCHANGED member

InitialMember ==
    [status |-> "down",
     is_sponsor |-> FALSE,
     group_secret |-> NoSecret,
     non_acked_responses |-> {},
     endpoints_acks_rcvd_from |-> {},
     time_statistics |-> {},
     scatter_wait |-> "none",
     scatter_queue |-> {},
     timeout_wait |-> FALSE]

Init ==
    /\ net = {}
    /\ member = [m \in Members |-> InitialMember]

MessageTypes == {"offer", "request", "distributed_response", "finish", "finish_ack"}

Next ==
    \/ \E m \in Members :
          \/ Launch(m)
          \/ \E type \in MessageTypes : Receive(m, type)
          \/ ReceiveCopy(m)
          \/ ScatterExpires(m)
          \/ SendCyclicMessages(m)
          \/ SendFinish(m)
          \/ Timeout(m)
    \/ \E msg \in net : Lose(msg)

Spec == Init /\ [][Next]_vars

(***************************************************************************)
(* Every process is launched, io_service::run gets round to every expired  *)
(* timer of a sponsor, and a message that is sent again and again is       *)
(* received at last: offers and responses by the subscribers, requests and *)
(* acknowledgements by the sponsor.  For "finish" nothing is assumed.      *)
(***************************************************************************)
Handled(m) ==
    IF IsFounder(m) THEN {"request", "finish_ack"} ELSE {"offer", "distributed_response"}

Timers(m) == ScatterExpires(m) \/ SendCyclicMessages(m) \/ SendFinish(m)

Fairness ==
    /\ \A m \in Members :
          /\ WF_vars(Launch(m))
          /\ \A type \in Handled(m) : SF_vars(Receive(m, type))
    /\ \A s \in Services : WF_vars(Timers(founder[s])) /\ WF_vars(Timeout(founder[s]))

FairSpec == Spec /\ Fairness

-----------------------------------------------------------------------------
(***************************************************************************)
(* Properties.                                                             *)
(***************************************************************************)
Timestamps == {"KEY_AGREEMENT_START_", "DURATION_END_"}

Messages ==
    [type : {"offer", "request"}, from : Members, to : Members, service : Services]
    \cup [type : {"distributed_response"}, from : Members, to : Members,
          service : Services, group_secret : Members]
    \cup [type : {"finish", "finish_ack"}, from : Members, to : Members]

\* The types of the variables, as the code declares them.
TypeOK ==
    /\ net \subseteq Messages
    /\ member \in [Members ->
         [status : {"down", "running", "stopped", "crashed"},
          is_sponsor : BOOLEAN,
          group_secret : Members \cup {NoSecret},
          non_acked_responses : SUBSET Members,
          endpoints_acks_rcvd_from : SUBSET Members,
          time_statistics : SUBSET Timestamps,
          scatter_wait : {"none", "cyclic", "finish"},
          scatter_queue : SUBSET {"cyclic", "finish"},
          timeout_wait : BOOLEAN]]

\* The other members that have the group secret of m.
Holders(m) == {n \in Members \ {m} : member[n].group_secret = m}

(***************************************************************************)
(* The sponsor's two lists are right: an acknowledgement it counts is of a *)
(* member that has its group secret, and a member that has it is on one of *)
(* the lists, so its acknowledgement is waited for or counted.             *)
(***************************************************************************)
AcknowledgedHold ==
    \A m \in Members : member[m].endpoints_acks_rcvd_from \subseteq Holders(m)

HoldersKnown ==
    \A m \in Members :
        Holders(m) \subseteq member[m].non_acked_responses
                             \cup member[m].endpoints_acks_rcvd_from

(***************************************************************************)
(* When the sponsor takes the key agreement for finished, as many          *)
(* different members as it was started for have its group secret, although *)
(* a late request puts a member that acknowledged on the other list again. *)
(***************************************************************************)
FinishedMeansAgreed ==
    \A m \in Members :
        "DURATION_END_" \in member[m].time_statistics =>
            Cardinality(Holders(m)) >= Subscribers(m)

(***************************************************************************)
(* No timestamp is recorded twice, which statistics_recorder::             *)
(* record_timestamp answers with an exception: the lists never get empty   *)
(* again, and the sponsor ends the agreement once.                         *)
(***************************************************************************)
TimestampsRecordedOnce == \A m \in Members : member[m].status # "crashed"

(***************************************************************************)
(* "finish" is for the members of a group that agreed: a sponsor does not  *)
(* stop before its own group has the key.                                  *)
(***************************************************************************)
SponsorStopsAgreed ==
    \A s \in Services :
        LET m == founder[s]
        IN  member[m].status = "stopped" => Cardinality(Holders(m)) >= Subscribers(m)

(***************************************************************************)
(* A group secret is never replaced, and once the sponsor has ended the    *)
(* agreement nobody becomes a holder of its secret any more.               *)
(***************************************************************************)
AgreementFinal ==
    [][\A m \in Members :
        /\ group_secret_rcvd(member[m]) => member'[m].group_secret = member[m].group_secret
        /\ "DURATION_END_" \in member[m].time_statistics => Holders(m)' = Holders(m)]_vars

\* Everybody gets the group secret, in spite of lost messages when they are
\* sent again, and the sponsor gets to know it and ends.
AllAgree ==
    \A m \in Members : <>(member[m].group_secret = founder[Service(m)])

SponsorsStop == \A s \in Services : <>(member[founder[s]].status = "stopped")

\* Without loss everybody ends.
AllStop == \A m \in Members : <>(member[m].status = "stopped")
=============================================================================
