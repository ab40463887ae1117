------------------------------ MODULE StrDhRtx ------------------------------
(***************************************************************************)
(* The contributory group key agreement of src/str_dh/str_dh.cpp built     *)
(* with RETRANSMISSIONS.                                                   *)
(*                                                                         *)
(* Ids are handed on as in StrDh, but every step is repeated, each time    *)
(* scatter_timer_ expires, until a message of a later member shows that it *)
(* was received.  A sponsor asks its predecessors for what it missed       *)
(* before it admits the next member.  The last member starts a token that  *)
(* visits the members in the order of their ids; each asks its successors  *)
(* for what it missed before it passes the token on.  When the token is    *)
(* back at the last member it says finish; the founder repeats the finish  *)
(* for TIMEOUT seconds and everybody who receives it stops.                *)
(*                                                                         *)
(* Timers have no duration here: an armed timer may expire at any moment,  *)
(* so what is shown holds for every scatter delay and every TIMEOUT.       *)
(***************************************************************************)
EXTENDS StrDhMember

CONSTANTS
    Network,    \* when a message can no longer be received: "any": never,
                \* "ordered": when its sender sends again
    Vanish,     \* TRUE: a message may also vanish before that
    MaxQueued   \* bound: how many expired timers wait for their handler; with
                \* 0 the handler runs as soon as the timer expires

ASSUME NetworkAssumption ==
    /\ Network \in {"any", "ordered"}
    /\ Vanish \in BOOLEAN
    /\ MaxQueued \in Nat

VARIABLE net            \* net[m]: the messages of m that may still be received,
                        \* by anybody and any number of times

vars == <<net, member>>

(***************************************************************************)
(* Messages.  A blinded secret is named by its owner, "from".  The token,  *)
(* finish and finish_ack say nothing about the service.                    *)
(***************************************************************************)
InfoRequest(m, ids) ==
    [type |-> "info_request", from |-> m, service |-> Service(m), requested |-> ids]

InfoResponse(m, self) ==
    [type |-> "info_response", from |-> m, service |-> Service(m),
     member_id |-> self.member_id]

SynchRequest(m, ids) ==
    [type |-> "synch_request", from |-> m, service |-> Service(m), requested |-> ids]

SynchResponse(m, self) ==
    [type |-> "synch_response", from |-> m, service |-> Service(m),
     member_id |-> self.member_id]

SynchToken(m, self) ==
    [type |-> "synch_token", from |-> m,
     member_id |-> IF self.member_id # member_count[Service(m)]
                   THEN self.member_id + 1
                   ELSE 1]

Finish(m) == [type |-> "finish", from |-> m]

FinishAck(m) == [type |-> "finish_ack", from |-> m]

(***************************************************************************)
(* What a member knows of the others.                                      *)
(***************************************************************************)
\* Mutant of AllPredecessorsKnown: the sponsor counts itself.
AllPredecessorsCounted(self) ==
    Cardinality(DOMAIN self.assigned_endpoints) >= self.member_id

AllPredecessorsKnown(self) ==
    Cardinality(DOMAIN self.assigned_endpoints)
        >= self.member_id - (IF IsAssigned(self) THEN 1 ELSE 0)

\* Mutant of AllSuccessorsKnown: one successor is enough.
AnySuccessorKnown(m, self) ==
    Cardinality(DOMAIN self.assigned_endpoints) >= self.member_id

AllSuccessorsKnown(m, self) ==
    Cardinality(DOMAIN self.assigned_endpoints)
        = member_count[Service(m)] - (IF IsAssigned(self) THEN 1 ELSE 0)

UnknownPredecessors(self) == (1 .. self.member_id - 1) \ DOMAIN self.assigned_keys

UnknownSuccessors(m, self) ==
    (self.member_id + 1 .. member_count[Service(m)]) \ DOMAIN self.assigned_keys

\* The id that the ids of later members are compared with: everybody is
\* later than the last member.
Rank(m, self) == self.member_id % member_count[Service(m)]

KnownLater(m, self, n) ==
    n \in DOMAIN self.assigned_endpoints /\ self.assigned_endpoints[n] > Rank(m, self)

\* check_if_higher_member_id_assigned: n is known to be later, or not known.
CheckIfHigherMemberIdAssigned(m, self, n) ==
    [self EXCEPT !.higher_member_id_assigned =
        \/ @
        \/ IsAssigned(self) /\ (n \in DOMAIN self.assigned_endpoints => KnownLater(m, self, n))]

(***************************************************************************)
(* scatter_timer_.  Arming it cancels what it was armed for.  A handler    *)
(* that is queued already is not cancelled; a cancelled handler is queued  *)
(* with an error, which matters for those that reset a flag only.          *)
(***************************************************************************)
\* Mutant of Aborted: a cancelled handler does nothing.
AbortedUnnoticed(self) == <<>>

Aborted(self) ==
    CASE self.scatter_wait = "request" -> <<"request_aborted">>
      [] self.scatter_wait \in {"info", "synch_info"} -> <<"info_aborted">>
      [] OTHER -> <<>>

Await(self, handler) ==
    [self EXCEPT !.scatter_wait = handler, !.scatter_queue = @ \o Aborted(self)]

Cancel(self) == Await(self, "none")

(***************************************************************************)
(* The network and the effect of a handler: m is now self, and sent msgs.  *)
(***************************************************************************)
Sent(m, msgs) ==
    CASE Network = "any" -> [net EXCEPT ![m] = @ \cup msgs]
      [] Network = "ordered" -> [net EXCEPT ![m] = msgs]

Become(m, self, msgs) ==
    /\ member' = [member EXCEPT ![m] = self]
    /\ net' = IF msgs = {} THEN net ELSE Sent(m, msgs)

Lose(m) ==
    /\ Vanish
    /\ net[m] # {}
    /\ net' = [net EXCEPT ![m] = {}]
    /\ UNCHANGED member

RecordTimestamp(self, metric) ==
    IF metric \in self.time_statistics
    THEN [self EXCEPT !.status = "crashed"]
    ELSE [self EXCEPT !.time_statistics = @ \cup {metric}]

-----------------------------------------------------------------------------
(***************************************************************************)
(* process_pending_request.                                                *)
(***************************************************************************)
\* Mutant of Admit: the response is not repeated.
AdmitOnce(m, self, e) ==
    Become(m, [HandOver(self, e) EXCEPT !.response_message_cache = {Response(m, self, e)}],
           {Response(m, self, e)})

Admit(m, self, e) ==
    Become(m, Await([HandOver(self, e) EXCEPT
                        !.response_message_cache = {Response(m, self, e)}], "response"),
           {Response(m, self, e)})

ProcessPendingRequest(m, self) ==
    \/ /\ ~ self.is_sponsor
       /\ Become(m, self, {})
    \/ /\ self.is_sponsor
       /\ ~ AllPredecessorsKnown(self)
       /\ Become(m, Await(self, "predecessors"), {InfoRequest(m, UnknownPredecessors(self))})
    \/ /\ self.is_sponsor
       /\ AllPredecessorsKnown(self)
       /\ Unassigned(self) = {}
       /\ Become(m, Await([self EXCEPT !.pending_requests = {}], "offer"), {Offer(m)})
    \/ /\ self.is_sponsor
       /\ AllPredecessorsKnown(self)
       /\ \E e \in Unassigned(self) : Admit(m, self, e)

(***************************************************************************)
(* The constructor and start().                                            *)
(***************************************************************************)
Founded(m) ==
    Await([member[m] EXCEPT
              !.status = "running",
              !.is_sponsor = TRUE,
              !.member_id = INITIAL_SPONSOR_ID,
              !.group_secret = <<m>>,
              !.blinded_group_secret = <<m>>,
              !.keys_computed_count = 1], "offer")

Launch(m) ==
    /\ member[m].status = "down"
    /\ IF IsFounder(m)
       THEN Become(m, Founded(m), {Offer(m)})
       ELSE Become(m, [member[m] EXCEPT !.status = "running"], {})

(***************************************************************************)
(* The handlers of messages.                                               *)
(***************************************************************************)
ProcessOffer(m, msg) ==
    LET self == CheckIfHigherMemberIdAssigned(m, member[m], msg.from)
    IN  /\ msg.type = "offer"
        /\ IF ~ IsAssigned(self) /\ msg.service = Service(m) /\ ~ self.request_scheduled
           THEN Become(m, Await([self EXCEPT !.request_scheduled = TRUE], "request"), {})
           ELSE Become(m, self, {})

\* The founder, as long as it is the sponsor, records the start of the key
\* agreement at every request; the exception of record_timestamp ends it.
ProcessRequest(m, msg) ==
    LET noted == NoteRequest(m, member[m], msg)
        self == IF noted.member_id = INITIAL_SPONSOR_ID /\ noted.is_sponsor
                THEN RecordTimestamp(noted, "KEY_AGREEMENT_START")
                ELSE noted
    IN  /\ msg.type = "request"
        /\ IF self.status = "crashed"
           THEN Become(m, self, {})
           ELSE ProcessPendingRequest(m, self)

\* The last member gives up the role and starts the synch token.
StartSynchToken(m, self) ==
    Await([self EXCEPT
              !.last_member_synch_token_sending_triggered = TRUE,
              !.is_sponsor = FALSE,
              !.synch_finished = TRUE,
              !.higher_member_id_assigned = TRUE], "token")

ProcessResponse(m, msg) ==
    LET self == AfterResponse(m, member[m], msg)
    IN  /\ msg.type = "response"
        /\ \/ /\ IsLastMember(m, self)
              /\ IF self.last_member_synch_token_sending_triggered
                 THEN Become(m, self, {})
                 ELSE Become(m, StartSynchToken(m, self), {SynchToken(m, self)})
           \/ /\ ~ IsLastMember(m, self)
              /\ \E next \in CheckAndAddNextBlindedKeys(self) :
                    ProcessPendingRequest(m, next)

\* process_member_info_request_, with the handler that sends the answer.
ScheduleResponse(m, self, msg, handler) ==
    IF /\ IsAssigned(self)
       /\ ~ self.response_scheduled
       /\ msg.service = Service(m)
       /\ self.member_id \in msg.requested
    THEN Await([self EXCEPT !.response_scheduled = TRUE], handler)
    ELSE self

ProcessMemberInfoRequest(m, msg) ==
    LET self == CheckIfHigherMemberIdAssigned(m, member[m], msg.from)
    IN  /\ msg.type = "info_request"
        /\ Become(m, ScheduleResponse(m, self, msg, "info"), {})

ProcessMemberInfoSynchRequest(m, msg) ==
    LET self == [member[m] EXCEPT
                    !.higher_member_id_assigned = TRUE,
                    !.higher_member_id_synching = @ \/ KnownLater(m, member[m], msg.from)]
    IN  /\ msg.type = "synch_request"
        /\ Become(m, ScheduleResponse(m, self, msg, "synch_info"), {})

\* Mutant of LearnInfo: the key is noted, but not added to the group secret.
LearnInfoOnly(m, self, msg) ==
    IF msg.service = Service(m) /\ msg.from \notin DOMAIN self.assigned_endpoints
    THEN {[Note(m, self, msg.from, msg.member_id) EXCEPT !.pending_requests = @ \ {msg.from}]}
    ELSE {self}

\* process_member_info_response_: what it may make of self.
LearnInfo(m, self, msg) ==
    IF msg.service = Service(m) /\ msg.from \notin DOMAIN self.assigned_endpoints
    THEN CheckAndAddNextBlindedKeys(
             [Note(m, self, msg.from, msg.member_id) EXCEPT !.pending_requests = @ \ {msg.from}])
    ELSE {self}

ProcessMemberInfoResponse(m, msg) ==
    /\ msg.type = "info_response"
    /\ \E self \in LearnInfo(m, member[m], msg) :
          IF self.is_sponsor /\ AllPredecessorsKnown(self)
          THEN ProcessPendingRequest(m, self)
          ELSE Become(m, self, {})

\* The member is complete and passes the token on.
PassSynchToken(m, self) ==
    Become(m, Await([self EXCEPT !.synch_finished = TRUE], "token"), {SynchToken(m, self)})

ProcessMemberInfoSynchResponse(m, msg) ==
    /\ msg.type = "synch_response"
    /\ \E next \in LearnInfo(m, member[m], msg) :
          LET self == [next EXCEPT !.higher_member_id_assigned = TRUE]
          IN  IF /\ AllSuccessorsKnown(m, self)
                 /\ ~ self.synch_finished
                 /\ self.synch_token_rcvd
              THEN PassSynchToken(m, self)
              ELSE Become(m, self, {})

\* The token is for m, for the first time; the last member gets it last.
ForMe(m, self, msg) == msg.member_id = self.member_id /\ ~ self.synch_token_rcvd

TakeSynchToken(m, self) ==
    LET synching == [self EXCEPT !.synch_token_rcvd = TRUE]
    IN  \/ /\ IsLastMember(m, self)
           /\ Become(m, Await(synching, "finish"), {Finish(m)})
        \/ /\ ~ IsLastMember(m, self)
           /\ AllSuccessorsKnown(m, self)
           /\ PassSynchToken(m, synching)
        \/ /\ ~ IsLastMember(m, self)
           /\ ~ AllSuccessorsKnown(m, self)
           /\ Become(m, Await(synching, "successors"),
                     {SynchRequest(m, UnknownSuccessors(m, self))})

ProcessSynchToken(m, msg) ==
    LET self == [member[m] EXCEPT
                    !.higher_member_id_assigned = TRUE,
                    !.higher_member_id_synching = @ \/ msg.member_id > Rank(m, member[m])]
    IN  /\ msg.type = "synch_token"
        /\ IF ForMe(m, self, msg) THEN TakeSynchToken(m, self) ELSE Become(m, self, {})

(***************************************************************************)
(* process_finish.  Everybody but the founder is done if it is complete.   *)
(* The founder answers the last member and keeps telling the others until  *)
(* the timeout, which each finish of the last member starts anew.          *)
(***************************************************************************)
FromLastMember(m, self, n) ==
    /\ n \in DOMAIN self.assigned_endpoints
    /\ self.assigned_endpoints[n] = member_count[Service(m)]

Finishing(self) ==
    [self EXCEPT !.higher_member_id_assigned = TRUE, !.higher_member_id_synching = TRUE]

Done(m, self) == ContributeStatistics(m, Cancel(self))

ProcessFinish(m, msg) ==
    LET old == member[m]
        rcvd == [Finishing(old) EXCEPT !.finish_message_rcvd = TRUE]
        self == IF old.finish_message_rcvd THEN rcvd ELSE RecordTimestamp(rcvd, "DURATION_END")
    IN  /\ msg.type = "finish"
        /\ \/ /\ old.member_id # INITIAL_SPONSOR_ID
              /\ Become(m, Done(m, rcvd), {})
           \/ /\ old.member_id = INITIAL_SPONSOR_ID
              /\ ~ FromLastMember(m, self, msg.from)
              /\ Become(m, self, {})
           \/ /\ old.member_id = INITIAL_SPONSOR_ID
              /\ FromLastMember(m, self, msg.from)
              /\ Become(m, [Await(self, "founder_finish") EXCEPT !.timeout_wait = TRUE],
                        {FinishAck(m), Finish(m)})

ProcessFinishAck(m, msg) ==
    LET self == Finishing(member[m])
    IN  /\ msg.type = "finish_ack"
        /\ Become(m, IF self.member_id # INITIAL_SPONSOR_ID THEN Done(m, self) ELSE self, {})

Process(m, msg) ==
    \/ ProcessOffer(m, msg)
    \/ ProcessRequest(m, msg)
    \/ ProcessResponse(m, msg)
    \/ ProcessMemberInfoRequest(m, msg)
    \/ ProcessMemberInfoResponse(m, msg)
    \/ ProcessSynchToken(m, msg)
    \/ ProcessMemberInfoSynchRequest(m, msg)
    \/ ProcessMemberInfoSynchResponse(m, msg)
    \/ ProcessFinish(m, msg)
    \/ ProcessFinishAck(m, msg)

MessageTypes ==
    {"offer", "request", "response", "info_request", "info_response", "synch_token",
     "synch_request", "synch_response", "finish", "finish_ack"}

Receive(m, type) ==
    /\ member[m].status = "running"
    /\ MaxQueued = 0 => member[m].scatter_queue = <<>>
    /\ \E n \in Members \ {m} : \E msg \in net[n] :
          msg.type = type /\ Process(m, msg)

-----------------------------------------------------------------------------
(***************************************************************************)
(* scatter_timer_ expires; its handler is queued behind those of messages. *)
(***************************************************************************)
ScatterExpires(m) ==
    /\ Len(member[m].scatter_queue) < MaxQueued
    /\ member[m].status = "running"
    /\ member[m].scatter_wait # "none"
    /\ member' = [member EXCEPT
                     ![m].scatter_wait = "none",
                     ![m].scatter_queue = Append(@, member[m].scatter_wait)]
    /\ UNCHANGED net

\* Mutant of Repeats: all is repeated, but not the synch token.
RepeatsNoToken(m, self, handler) == handler # "token"

\* The condition under which a handler sends again, and arms the timer again.
Repeats(m, self, handler) ==
    CASE handler = "offer" ->
           self.is_sponsor /\ Cardinality(DOMAIN self.assigned_keys) < self.member_id
      [] handler = "response" ->
           /\ Cardinality(DOMAIN self.assigned_keys) <= self.member_id
           /\ ~ self.higher_member_id_assigned
      [] handler = "predecessors" -> ~ AllPredecessorsKnown(self)
      [] handler = "successors" -> ~ AllSuccessorsKnown(m, self)
      [] handler = "token" -> ~ self.higher_member_id_synching
      [] OTHER -> TRUE

Repeated(m, self, handler) ==
    CASE handler = "offer" -> {Offer(m)}
      [] handler = "response" -> self.response_message_cache
      [] handler = "predecessors" -> {InfoRequest(m, UnknownPredecessors(self))}
      [] handler = "successors" -> {SynchRequest(m, UnknownSuccessors(m, self))}
      [] handler = "token" -> {SynchToken(m, self)}
      [] OTHER -> {Finish(m)}

Cyclic == {"offer", "response", "predecessors", "successors", "token", "finish", "founder_finish"}

\* The handlers that answer once, or were cancelled before they did.
AnswerOnce(m, self, handler) ==
    \/ /\ handler \in {"request", "request_aborted"}
       /\ Become(m, [self EXCEPT !.request_scheduled = ~ @],
                 IF handler = "request" THEN {Request(m)} ELSE {})
    \/ /\ handler \in {"info", "synch_info", "info_aborted"}
       /\ Become(m, [self EXCEPT !.response_scheduled = ~ @],
                 CASE handler = "info" -> {InfoResponse(m, self)}
                   [] handler = "synch_info" -> {SynchResponse(m, self)}
                   [] OTHER -> {})

RunHandler(m, self, handler) ==
    \/ AnswerOnce(m, self, handler)
    \/ /\ handler \in Cyclic
       /\ Repeats(m, self, handler)
       /\ Become(m, Await(self, handler), Repeated(m, self, handler))
    \/ /\ handler \in Cyclic
       /\ ~ Repeats(m, self, handler)
       /\ Become(m, self, {})

HandleScatter(m) ==
    LET self == member[m]
    IN  /\ self.status = "running"
        /\ \/ /\ self.scatter_queue # <<>>
              /\ RunHandler(m, [self EXCEPT !.scatter_queue = Tail(@)], Head(self.scatter_queue))
           \/ /\ MaxQueued = 0
              /\ self.scatter_queue = <<>>
              /\ RunHandler(m, [self EXCEPT !.scatter_wait = "none"], self.scatter_wait)

\* The founder told the others for long enough.
Timeout(m) ==
    /\ member[m].status = "running"
    /\ member[m].timeout_wait
    /\ Become(m, Done(m, [member[m] EXCEPT !.timeout_wait = FALSE]), {})

InitialMember ==
    [status |-> "down",
     is_sponsor |-> FALSE,
     request_scheduled |-> FALSE,
     response_scheduled |-> FALSE,
     higher_member_id_synching |-> FALSE,
     higher_member_id_assigned |-> FALSE,
     synch_token_rcvd |-> FALSE,
     synch_finished |-> FALSE,
     last_member_synch_token_sending_triggered |-> FALSE,
     finish_message_rcvd |-> FALSE,
     member_id |-> DEFAULT_MEMBER_ID,
     group_secret |-> <<>>,
     blinded_group_secret |-> DEFAULT_SECRET,
     keys_computed_count |-> 0,
     pending_requests |-> {},
     assigned_keys |-> <<>>,
     assigned_endpoints |-> <<>>,
     response_message_cache |-> {},
     time_statistics |-> {},
     scatter_wait |-> "none",
     scatter_queue |-> <<>>,
     timeout_wait |-> FALSE]

Init ==
    /\ net = [m \in Members |-> {}]
    /\ member = [m \in Members |-> InitialMember]

Next ==
    \E m \in Members :
        \/ Launch(m)
        \/ \E type \in MessageTypes : Receive(m, type)
        \/ ScatterExpires(m)
        \/ HandleScatter(m)
        \/ Timeout(m)
        \/ Lose(m)

Spec == Init /\ [][Next]_vars

(***************************************************************************)
(* The evaluation launches every process, io_service::run calls the        *)
(* handlers of expired timers, and when messages of a type are sent again  *)
(* and again to members that would act on them, one of these receives one. *)
(* Of finish that is assumed at the founder only: the last member sends it *)
(* until it is answered, the founder for TIMEOUT seconds only.             *)
(***************************************************************************)
Retransmitted == MessageTypes \ {"finish", "finish_ack"}

Fairness ==
    /\ \A m \in Members :
          /\ WF_vars(Launch(m))
          /\ WF_vars(ScatterExpires(m))
          /\ WF_vars(HandleScatter(m))
          /\ WF_vars(Timeout(m))
    /\ \A type \in Retransmitted : SF_vars(\E m \in Members : Receive(m, type))
    /\ SF_vars(\E s \in Services : Receive(founder[s], "finish"))

FairSpec == Spec /\ Fairness

-----------------------------------------------------------------------------
(***************************************************************************)
(* Properties.                                                             *)
(***************************************************************************)
\* The shape of what a member sends.
Messages ==
    [type : {"offer", "request"}, from : Members, service : Services]
    \cup [type : {"response"}, from : Members, service : Services,
          blinded_group_secret : Seq(Members), new_sponsor : Members,
          assigned_id : MemberIds]
    \cup [type : {"info_request", "synch_request"}, from : Members, service : Services,
          requested : SUBSET MemberIds]
    \cup [type : {"info_response", "synch_response"}, from : Members,
          service : Services, member_id : MemberIds]
    \cup [type : {"synch_token"}, from : Members, member_id : MemberIds]
    \cup [type : {"finish", "finish_ack"}, from : Members]

Handlers == Cyclic \cup {"request", "info", "synch_info", "request_aborted", "info_aborted"}

\* self is the state of one str_dh object; its flags are Booleans by ScheduledFlagsRight.
MemberState(self) ==
    /\ self.member_id \in Nat
    /\ self.group_secret \in Seq(Members)
    /\ self.assigned_keys \in [DOMAIN self.assigned_keys -> Members]
    /\ self.assigned_endpoints \in [DOMAIN self.assigned_endpoints -> MemberIds]
    /\ self.response_message_cache \subseteq {msg \in Messages : msg.type = "response"}
    /\ self.scatter_wait \in Handlers \cup {"none"}
    /\ self.scatter_queue \in Seq(Handlers)

TypeOK ==
    /\ net \in [Members -> SUBSET Messages]
    /\ \A m \in Members : MemberState(member[m])

\* The handlers that will run for a member.
Pending(self) ==
    {self.scatter_wait} \cup {self.scatter_queue[i] : i \in DOMAIN self.scatter_queue}

(***************************************************************************)
(* The flags that keep a member from scheduling an answer twice are        *)
(* toggled by the handler, which runs also when it is cancelled: they are  *)
(* set exactly while a handler that resets them is pending.  Otherwise a   *)
(* member would never ask, or answer, again.                               *)
(***************************************************************************)
ScheduledFlagsRight ==
    \A m \in Members :
        /\ member[m].request_scheduled
              <=> Pending(member[m]) \cap {"request", "request_aborted"} # {}
        /\ member[m].response_scheduled
              <=> Pending(member[m]) \cap {"info", "synch_info", "info_aborted"} # {}

\* The assignments of s made so far; a sponsor keeps the one it made.
Given(s) == UNION {member[m].response_message_cache : m \in {n \in Members : Service(n) = s}}

\* The responses whose addressee has no id yet, received or not.
Unanswered(s) == {msg \in Given(s) : ~ IsAssigned(member[msg.new_sponsor])}

LastMembers(s) == {m \in Assigned(s) : IsLastMember(m, member[m])}

(***************************************************************************)
(* The sponsor role is never doubled: from the founder's launch until the  *)
(* last member has it, either one member holds it or there is one response *)
(* whose addressee has no id yet, whatever is lost, late or repeated.      *)
(* That the addressee can still receive it is another matter: RoleGoesOn.  *)
(***************************************************************************)
OneBaton ==
    \A s \in Services :
        Cardinality(Sponsors(s) \cup {msg.new_sponsor : msg \in Unanswered(s)})
            = IF Assigned(s) = {} \/ LastMembers(s) # {} THEN 0 ELSE 1

(***************************************************************************)
(* all_predecessors_known and all_successors_known compare the number of   *)
(* known members with an id; whom they then ask for are the ids missing in *)
(* another map.  The two agree: a member that has to ask names somebody,   *)
(* and one that does not lacks nobody.                                     *)
(***************************************************************************)
KnownCountsRight ==
    \A s \in Services : \A m \in Assigned(s) \ LastMembers(s) :
        LET self == member[m]
        IN  /\ AllPredecessorsKnown(self) <=> UnknownPredecessors(self) = {}
            /\ AllPredecessorsKnown(self) =>
                  (AllSuccessorsKnown(m, self) <=> UnknownSuccessors(m, self) = {})

(***************************************************************************)
(* A member that is not the sponsor has added every key it can: the loop   *)
(* runs wherever a key may have been learnt.                               *)
(***************************************************************************)
NoKeyLeftOut ==
    \A m \in Members :
        ~ member[m].is_sponsor /\ IsAssigned(member[m]) =>
            CheckAndAddNextBlindedKeys(member[m]) = {member[m]}

Keyed(m) == Len(member[m].group_secret) = member_count[Service(m)]

(***************************************************************************)
(* What the token says: when the last member starts it everybody has an    *)
(* id, and when a member passed it on, this member and all before it have  *)
(* the group key and know everybody.                                       *)
(***************************************************************************)
TokenMeansSynched ==
    \A s \in Services : \A m \in Assigned(s) :
        member[m].synch_finished =>
            /\ Cardinality(Assigned(s)) = member_count[s]
            /\ m \notin LastMembers(s) =>
                  \A n \in Assigned(s) :
                      member[n].member_id <= member[m].member_id => KeyComplete(n, member[n])

(***************************************************************************)
(* What finish says: once anybody received it, or the last member has the  *)
(* token back, all members have the group key, so none is stopped early.   *)
(***************************************************************************)
Finished(m) ==
    \/ member[m].finish_message_rcvd
    \/ IsLastMember(m, member[m]) /\ member[m].synch_token_rcvd

FinishMeansKeyed ==
    \A m \in Members : Finished(m) =>
        \A n \in Members : Service(n) = Service(m) => Keyed(n)

(***************************************************************************)
(* The two properties that follow are about one group on the address, and  *)
(* hold as long as no member receives an offer, an information request or  *)
(* a synch request that its sender would not make any more: FreshSpec, on  *)
(* any network and with any handlers queued.  If messages are "ordered",   *)
(* this is so.  A late one is a sign of a later member that is none, or    *)
(* makes a member answer with the timer it needs for something else, and   *)
(* cancels what nobody repeats then.                                       *)
(***************************************************************************)
Stale(n, msg) ==
    \/ msg.type \in {"offer", "info_request"} /\ ~ member[n].is_sponsor
    \/ /\ msg.type = "synch_request"
       /\ member[n].synch_token_rcvd => member[n].synch_finished

FreshReceive(m, type) ==
    /\ member[m].status = "running"
    /\ MaxQueued = 0 => member[m].scatter_queue = <<>>
    /\ \E n \in Members \ {m} : \E msg \in net[n] :
          msg.type = type /\ ~ Stale(n, msg) /\ Process(m, msg)

FreshNext ==
    \E m \in Members :
        \/ Launch(m)
        \/ \E type \in MessageTypes : FreshReceive(m, type)
        \/ ScatterExpires(m)
        \/ HandleScatter(m)
        \/ Timeout(m)
        \/ Lose(m)

FreshSpec == Init /\ [][FreshNext]_vars

(***************************************************************************)
(* The sponsor role is never lost, whatever the network loses: a sponsor   *)
(* goes on to offer or to ask its predecessors, and a response whose       *)
(* addressee has no id yet is repeated by its sender.                      *)
(***************************************************************************)
RoleGoesOn ==
    \A s \in Services :
        /\ \A m \in Sponsors(s) : Pending(member[m]) \cap {"offer", "predecessors"} # {}
        /\ \A msg \in Unanswered(s) : "response" \in Pending(member[msg.from])

(***************************************************************************)
(* All the retransmissions of a member share one timer and stop on signs   *)
(* that others go on; once all have stopped, one lost message is the end.  *)
(* As long as its founder runs, a group in which no late request is        *)
(* received (see above) falls silent - no handler of a timer will run in   *)
(* it - for one reason only: who has the token and asks its successors     *)
(* stops asking when it knows them, but passes the token on only if it     *)
(* learnt the last of them from an answer.                                 *)
(***************************************************************************)
Silent(s) ==
    \A m \in Members : Service(m) = s /\ member[m].status = "running" =>
        Pending(member[m]) = {"none"} /\ ~ member[m].timeout_wait

TokenStuck(m) ==
    /\ member[m].synch_token_rcvd
    /\ ~ member[m].synch_finished
    /\ AllSuccessorsKnown(m, member[m])

SilentOnlyWhenTokenStuck ==
    \A s \in Services :
        member[founder[s]].status = "running" /\ Silent(s) =>
            \E m \in Assigned(s) : TokenStuck(m)

(***************************************************************************)
(* Finish is there "for triggering other members to contribute statistics  *)
(* and shut down" (str_dh.cpp:273).  The handler has three guards and      *)
(* counts keys (:276, :246, :573), yet every finish that a subscriber      *)
(* receives stops it, on any network.  The exception is a last member that *)
(* lacks a predecessor's key: it never asks for it.                        *)
(***************************************************************************)
FinishShutsDown ==
    [][\A m \in Members : Receive(m, "finish") /\ ~ IsFounder(m) =>
          \/ member'[m].status = "stopped"
          \/ IsLastMember(m, member[m]) /\ UnknownPredecessors(member'[m]) # {}]_vars

(***************************************************************************)
(* Messages may be lost at any time, yet everybody becomes a member and    *)
(* the token comes to rest only where it is stuck: the founder stops, or   *)
(* somebody is stuck with the token, which exists only when all are        *)
(* members (TokenMeansSynched).                                            *)
(***************************************************************************)
TokenReturns ==
    \A s \in Services :
        <>(member[founder[s]].status = "stopped" \/ \E m \in Assigned(s) : TokenStuck(m))

(***************************************************************************)
(* The group of s: its founder, and the members the sponsors admitted.     *)
(* With it the protocol implements GroupKeyAgreement whatever the network  *)
(* loses, repeats or reorders.                                             *)
(***************************************************************************)
Group(s) ==
    IF member[founder[s]].status = "down"
    THEN <<>>
    ELSE [id \in 1 .. Cardinality(Given(s)) + 1 |->
            IF id = INITIAL_SPONSOR_ID
            THEN founder[s]
            ELSE (CHOOSE msg \in Given(s) : msg.assigned_id = id).new_sponsor]

Agreement == INSTANCE GroupKeyAgreement
    WITH group <- [s \in Services |-> Group(s)],
         key <- [m \in Members |-> member[m].group_secret],
         done <- {m \in Members : member[m].status = "stopped"}

ImplementsGroupKeyAgreement == Agreement!Spec
=============================================================================
