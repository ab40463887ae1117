------------------------ MODULE DistributedDhProofs ------------------------
(***************************************************************************)
(* Proofs about DistributedDh for all values of its constants: any number  *)
(* of members and groups, both builds, messages lost, duplicated and       *)
(* reordered at will, timers that expire at any moment.                    *)
(***************************************************************************)
EXTENDS DistributedDh, FiniteSetTheorems, TLAPS

MemberRecords ==
    [status : {"down", "running", "stopped", "crashed"},
     is_sponsor : BOOLEAN,
     group_secret : Members \cup {NoSecret},
     non_acked_responses : SUBSET Members,
     endpoints_acks_rcvd_from : SUBSET Members,
     time_statistics : SUBSET Timestamps,
     scatter_wait : {"none", "cyclic", "finish"},
     scatter_queue : SUBSET {"cyclic", "finish"},
     timeout_wait : BOOLEAN]

\* Whom a sponsor answered, acknowledged or not.
Responded(self) == self.non_acked_responses \cup self.endpoints_acks_rcvd_from

Ended(self) == "DURATION_END_" \in self.time_statistics

(***************************************************************************)
(* What a message says: an offer and what answers it is between the        *)
(* founder of a group and another member of it, and what the message says  *)
(* of the sender is true, also when it is received late.                   *)
(***************************************************************************)
OfGroup(sponsor, n) ==
    /\ IsFounder(sponsor)
    /\ n # sponsor
    /\ Service(n) = Service(sponsor)

MessageOK(mem, msg) ==
    /\ msg.type = "offer" =>
          IsFounder(msg.from) /\ msg.service = Service(msg.from) /\ msg.to # msg.from
    /\ msg.type = "request" => OfGroup(msg.to, msg.from) /\ msg.service = Service(msg.to)
    /\ msg.type = "distributed_response" =>
          /\ OfGroup(msg.from, msg.to)
          /\ msg.service = Service(msg.to)
          /\ msg.group_secret = msg.from
          /\ msg.to \in Responded(mem[msg.from])
    /\ msg.type = "finish" => IsFounder(msg.from) /\ msg.to # msg.from
    /\ msg.type = "finish_ack" =>
          OfGroup(msg.to, msg.from) /\ mem[msg.from].group_secret = msg.to

(***************************************************************************)
(* What holds of the state of one member by itself.                        *)
(***************************************************************************)
SecretOK(m, self) ==
    /\ self.status # "crashed"
    /\ self.status = "down" => self = InitialMember
    /\ self.group_secret \in {NoSecret, founder[Service(m)]}
    /\ IsFounder(m) /\ self.status # "down" => self.group_secret = m

\* Only a founder is ever a sponsor, and answers only its subscribers.
AnsweredOK(m, self) == \A n \in Responded(self) : OfGroup(m, n)

SubscriberOK(m, self) ==
    ~ IsFounder(m) =>
        /\ ~ self.is_sponsor
        /\ self.time_statistics = {}
        /\ self.scatter_wait = "none"
        /\ self.scatter_queue = {}
        /\ ~ self.timeout_wait

\* The timestamps fit the lists.
CountOK(m, self) ==
    /\ IsFiniteSet(self.non_acked_responses)
    /\ IsFiniteSet(self.endpoints_acks_rcvd_from)
    /\ "KEY_AGREEMENT_START_" \in self.time_statistics => Responded(self) # {}
    /\ Ended(self) =>
          /\ Cardinality(self.endpoints_acks_rcvd_from) >= Subscribers(m)
          /\ ~ self.is_sponsor \/ self.status = "stopped"
    /\ self.timeout_wait => Ended(self)

MemberOK(m, self) ==
    /\ self \in MemberRecords
    /\ SecretOK(m, self)
    /\ AnsweredOK(m, self)
    /\ SubscriberOK(m, self)
    /\ CountOK(m, self)

(***************************************************************************)
(* The inductive invariant.                                                *)
(***************************************************************************)
NetOK ==
    /\ net \subseteq Messages
    /\ \A msg \in net : MessageOK(member, msg) /\ member[msg.to].status = "running"

IInv ==
    /\ NetOK
    /\ member \in [Members -> MemberRecords]
    /\ \A m \in Members : MemberOK(m, member[m])
    /\ AcknowledgedHold
    /\ HoldersKnown

\* What no step takes back: an answer that was noted, a group secret.
Kept ==
    \A m \in Members :
        /\ Responded(member[m]) \subseteq Responded(member'[m])
        /\ member[m].group_secret \in Members
              => member'[m].group_secret = member[m].group_secret

-----------------------------------------------------------------------------
(***************************************************************************)
(* Lemmas about one member and about the end of a handler.                 *)
(***************************************************************************)

\* A founder is in the group it founded.
LEMMA ServiceTypes ==
    /\ \A m \in Members : Service(m) \in Services /\ Subscribers(m) \in Nat
    /\ \A s \in Services : founder[s] \in Members /\ Service(founder[s]) = s
    /\ \A s \in Services : IsFounder(founder[s])
    /\ NoSecret \notin Members
BY ConfigurationAssumption DEF Service, Subscribers, IsFounder

\* What is true of a message stays true when lists grow and secrets stay.
LEMMA MessageStays ==
    ASSUME NEW mem, NEW new, NEW msg \in Messages,
           MessageOK(mem, msg),
           \A m \in Members : Responded(mem[m]) \subseteq Responded(new[m]),
           \A m \in Members : mem[m].group_secret \in Members
                => new[m].group_secret = mem[m].group_secret
    PROVE  MessageOK(new, msg)
<1>1. msg.from \in Members /\ msg.to \in Members
  BY DEF Messages
<1> QED
  BY <1>1 DEF MessageOK

(***************************************************************************)
(* The end of a handler of m keeps the invariant if the new state of m is  *)
(* right by itself, its lists have grown, it got the group secret only     *)
(* from a sponsor that noted the response, it counts acknowledgements only *)
(* of holders, and what it sent is true.                                   *)
(***************************************************************************)
LEMMA EndsInv ==
    ASSUME IInv, NEW m \in Members, NEW self, NEW rest, NEW out,
           rest \subseteq net,
           Ends(m, self, rest, out),
           MemberOK(m, self),
           Responded(member[m]) \subseteq Responded(self),
           \/ self.group_secret = member[m].group_secret
           \/ /\ member[m].group_secret = NoSecret
              /\ \/ self.group_secret = m
                 \/ /\ self.group_secret \in Members \ {m}
                    /\ m \in Responded(member[self.group_secret]),
           \A n \in self.endpoints_acks_rcvd_from :
                n # m /\ member[n].group_secret = m,
           \A msg \in out : msg \in Messages /\ MessageOK(member', msg)
    PROVE  IInv' /\ Kept
<1>1. /\ member \in [Members -> MemberRecords]
      /\ member' = [member EXCEPT ![m] = self]
      /\ self \in MemberRecords
  BY DEF IInv, Ends, MemberOK
<1>2. member' \in [Members -> MemberRecords]
  BY <1>1
<1>3. /\ member'[m] = self
      /\ \A n \in Members \ {m} : member'[n] = member[n]
  BY <1>1
<1>4. \A n \in Members : MemberOK(n, member'[n])
  BY <1>3 DEF IInv
<1>5. \A n \in Members : Responded(member[n]) \subseteq Responded(member'[n])
  BY <1>3
<1>6. \A n \in Members : member[n].group_secret \in Members
          => member'[n].group_secret = member[n].group_secret
  BY <1>3, ServiceTypes
<1>7. NetOK'
  <2>1. net' \subseteq rest \cup out
        /\ \A msg \in net' : member'[msg.to].status = "running"
    BY DEF Ends
  <2>2. \A msg \in net : msg \in Messages /\ MessageOK(member', msg)
    <3> SUFFICES ASSUME NEW msg \in net
                 PROVE  msg \in Messages /\ MessageOK(member', msg)
      OBVIOUS
    <3>1. msg \in Messages /\ MessageOK(member, msg)
      BY DEF IInv, NetOK
    <3> QED
      BY <3>1, <1>5, <1>6, MessageStays
  <2> QED
    BY <2>1, <2>2 DEF NetOK
<1>8. AcknowledgedHold'
  <2> SUFFICES ASSUME NEW k \in Members, NEW n \in member'[k].endpoints_acks_rcvd_from
               PROVE  n \in Members \ {k} /\ member'[n].group_secret = k
    BY DEF AcknowledgedHold, Holders
  <2>1. n \in Members
    BY <1>2 DEF MemberRecords
  <2>2. CASE k = m
    BY <2>1, <2>2, <1>3
  <2>3. CASE k # m
    <3>1. n \in Holders(k)
      BY <2>3, <1>3 DEF IInv, AcknowledgedHold
    <3> QED
      BY <3>1, <1>6 DEF Holders
  <2> QED
    BY <2>2, <2>3
<1>9. HoldersKnown'
  <2> SUFFICES ASSUME NEW k \in Members, NEW n \in Members \ {k},
                      member'[n].group_secret = k
               PROVE  n \in Responded(member'[k])
    BY DEF HoldersKnown, Holders, Responded
  <2>1. CASE member[n].group_secret = k
    <3>1. n \in Responded(member[k])
      BY <2>1 DEF IInv, HoldersKnown, Holders, Responded
    <3> QED
      BY <3>1, <1>5
  <2>2. CASE member[n].group_secret # k
    <3>1. n = m /\ self.group_secret = k
      BY <2>2, <1>3
    <3> QED
      BY <3>1, <2>2, <1>3
  <2> QED
    BY <2>1, <2>2
<1> QED
  BY <1>2, <1>4, <1>5, <1>6, <1>7, <1>8, <1>9 DEF IInv, Kept

\* What the steps below need of a member, in one place.
LEMMA MemberFacts ==
    ASSUME IInv, NEW m \in Members
    PROVE  /\ member[m] \in MemberRecords
           /\ MemberOK(m, member[m])
           /\ \A n \in member[m].endpoints_acks_rcvd_from :
                 n \in Members /\ n # m /\ member[n].group_secret = m
           /\ \A self : Ends(m, self, net, {}) => member'[m] = self
BY DEF IInv, MemberOK, AcknowledgedHold, Holders, Ends

-----------------------------------------------------------------------------
(***************************************************************************)
(* The steps: each action keeps the invariant.                             *)
(***************************************************************************)
LEMMA InitInv == ASSUME Init PROVE IInv
<1>1. InitialMember \in MemberRecords
  BY DEF InitialMember, MemberRecords
<1>2. \A m \in Members : member[m] = InitialMember
  BY DEF Init
<1>3. ASSUME NEW m \in Members PROVE MemberOK(m, InitialMember)
  <2>1. IsFiniteSet({})
    BY FS_EmptySet
  <2> QED
    BY <1>1, <2>1 DEF MemberOK, SecretOK, AnsweredOK, SubscriberOK, CountOK, InitialMember,
                      Responded, Ended
<1>4. AcknowledgedHold
  BY <1>2 DEF AcknowledgedHold, InitialMember
<1>5. HoldersKnown
  BY <1>2, ServiceTypes DEF HoldersKnown, Holders, InitialMember
<1> QED
  BY <1>1, <1>2, <1>3, <1>4, <1>5 DEF IInv, NetOK, Init

LEMMA LaunchInv == ASSUME IInv, NEW m \in Members, Launch(m) PROVE IInv' /\ Kept
<1>1. /\ member[m] = InitialMember
      /\ member[m] \in MemberRecords
      /\ MemberOK(m, member[m])
  BY MemberFacts DEF Launch, MemberOK, SecretOK
<1>2. IsFiniteSet({})
  BY FS_EmptySet
<1>0. /\ member[m] \in MemberRecords
      /\ ~ member[m].is_sponsor
      /\ member[m].group_secret = NoSecret
      /\ member[m].non_acked_responses = {}
      /\ member[m].endpoints_acks_rcvd_from = {}
      /\ member[m].time_statistics = {}
      /\ member[m].scatter_wait = "none"
      /\ member[m].scatter_queue = {}
      /\ ~ member[m].timeout_wait
  BY <1>1 DEF InitialMember
<1>3. CASE IsFounder(m)
  <2> DEFINE self == [member[m] EXCEPT
                         !.status = "running",
                         !.is_sponsor = TRUE,
                         !.group_secret = Generated(m),
                         !.scatter_wait = IF RETRANSMISSIONS THEN "cyclic" ELSE "none"]
  <2>1. Ends(m, self, net, Offers(m))
    BY <1>3 DEF Launch
  <2>2. /\ self \in MemberRecords
        /\ self.status = "running" /\ self.is_sponsor /\ self.group_secret = m
        /\ self.non_acked_responses = {} /\ self.endpoints_acks_rcvd_from = {}
        /\ self.time_statistics = {} /\ ~ self.timeout_wait
    BY <1>0 DEF MemberRecords, Generated
  <2>3. MemberOK(m, self)
    BY <1>2, <1>3, <2>2, ServiceTypes
       DEF MemberOK, SecretOK, AnsweredOK, SubscriberOK, CountOK, Responded, Ended, IsFounder
  <2>4. \A msg \in Offers(m) : msg \in Messages /\ MessageOK(member', msg)
    BY <1>3, ServiceTypes DEF Offers, Offer, Messages, MessageOK
  <2>5. /\ Responded(member[m]) \subseteq Responded(self)
        /\ member[m].group_secret = NoSecret
    BY <1>1 DEF Responded, InitialMember
  <2> HIDE DEF self
  <2> QED
    BY <2>1, <2>2, <2>3, <2>4, <2>5, EndsInv
<1>4. CASE ~ IsFounder(m)
  <2> DEFINE self == [member[m] EXCEPT !.status = "running"]
  <2>1. Ends(m, self, net, {})
    BY <1>4 DEF Launch
  <2>2. /\ self \in MemberRecords
        /\ self.status = "running" /\ ~ self.is_sponsor
        /\ self.group_secret = NoSecret /\ member[m].group_secret = NoSecret
        /\ self.non_acked_responses = {} /\ self.endpoints_acks_rcvd_from = {}
        /\ self.time_statistics = {} /\ ~ self.timeout_wait
        /\ self.scatter_wait = "none" /\ self.scatter_queue = {}
        /\ Responded(member[m]) = {}
    BY <1>0 DEF MemberRecords, Responded
  <2>3. MemberOK(m, self)
    BY <1>2, <1>4, <2>2
       DEF MemberOK, SecretOK, AnsweredOK, SubscriberOK, CountOK, Responded, Ended
  <2> HIDE DEF self
  <2> QED
    BY <2>1, <2>2, <2>3, EndsInv
<1> QED
  BY <1>3, <1>4

LEMMA ScatterExpiresInv ==
    ASSUME IInv, NEW m \in Members, ScatterExpires(m) PROVE IInv' /\ Kept
<1> DEFINE self == [member[m] EXCEPT
                       !.scatter_wait = "none",
                       !.scatter_queue = @ \cup {member[m].scatter_wait}]
<1>1. /\ member[m] \in MemberRecords
      /\ MemberOK(m, member[m])
      /\ member[m].status = "running"
      /\ member[m].scatter_wait \in {"cyclic", "finish"}
  BY MemberFacts DEF ScatterExpires, MemberRecords
<1>2. member' = [member EXCEPT ![m] = self]
  BY <1>1 DEF ScatterExpires, IInv, MemberRecords
<1>3. self \in MemberRecords
  BY <1>1 DEF MemberRecords
<1>4. /\ self.status = member[m].status
      /\ self.is_sponsor = member[m].is_sponsor
      /\ self.group_secret = member[m].group_secret
      /\ self.non_acked_responses = member[m].non_acked_responses
      /\ self.endpoints_acks_rcvd_from = member[m].endpoints_acks_rcvd_from
      /\ self.time_statistics = member[m].time_statistics
      /\ self.timeout_wait = member[m].timeout_wait
  BY <1>1 DEF MemberRecords
<1>5. IsFounder(m)
  BY <1>1 DEF MemberOK, SubscriberOK
<1>6. MemberOK(m, self)
  BY <1>1, <1>3, <1>4, <1>5
     DEF MemberOK, SecretOK, AnsweredOK, SubscriberOK, CountOK, Responded, Ended
<1>7. Ends(m, self, net, {})
  <2>1. member'[m] = self /\ \A n \in Members \ {m} : member'[n] = member[n]
    BY <1>2 DEF IInv
  <2>2. \A msg \in net : msg.to \in Members /\ member[msg.to].status = "running"
    BY DEF IInv, NetOK, Messages
  <2>3. net' = {msg \in net : member'[msg.to].status = "running"}
    BY <1>1, <1>4, <2>1, <2>2 DEF ScatterExpires
  <2> QED
    BY <1>2, <2>3 DEF Ends
<1>8. Responded(member[m]) \subseteq Responded(self)
  BY <1>4 DEF Responded
<1> HIDE DEF self
<1> QED
  BY <1>4, <1>6, <1>7, <1>8, MemberFacts, EndsInv

-----------------------------------------------------------------------------
(***************************************************************************)
(* The timers of a sponsor.                                                *)
(***************************************************************************)

\* What ends a process leaves the rest of its state alone.
LEMMA Contribute ==
    ASSUME NEW m \in Members, NEW self, MemberOK(m, self), self.status = "running"
    PROVE  LET done == contribute_statistics(self)
           IN  /\ MemberOK(m, done)
               /\ done.group_secret = self.group_secret
               /\ done.endpoints_acks_rcvd_from = self.endpoints_acks_rcvd_from
               /\ Responded(done) = Responded(self)
<1> DEFINE done == contribute_statistics(self)
<1>1. self \in MemberRecords
  BY DEF MemberOK
<1>2. CASE group_secret_rcvd(self)
  <2>1. done = [self EXCEPT !.status = "stopped"]
    BY <1>2 DEF contribute_statistics
  <2>2. /\ done \in MemberRecords
        /\ done.status = "stopped"
        /\ done.is_sponsor = self.is_sponsor
        /\ done.group_secret = self.group_secret
        /\ done.non_acked_responses = self.non_acked_responses
        /\ done.endpoints_acks_rcvd_from = self.endpoints_acks_rcvd_from
        /\ done.time_statistics = self.time_statistics
        /\ done.scatter_wait = self.scatter_wait
        /\ done.scatter_queue = self.scatter_queue
        /\ done.timeout_wait = self.timeout_wait
    BY <1>1, <2>1 DEF MemberRecords
  <2>3. Responded(done) = Responded(self)
    BY <2>2 DEF Responded
  <2> HIDE DEF done
  <2>4. MemberOK(m, done)
    BY <2>2, <2>3
       DEF MemberOK, SecretOK, AnsweredOK, SubscriberOK, CountOK, Ended
  <2> QED
    BY <2>2, <2>3, <2>4 DEF done
<1>3. CASE ~ group_secret_rcvd(self)
  BY <1>3 DEF contribute_statistics
<1> QED
  BY <1>2, <1>3

\* A founder's response to a subscriber it noted is true.
LEMMA ResponseOK ==
    ASSUME IInv, NEW m \in Members, NEW self, NEW n \in Responded(self),
           MemberOK(m, self), self.status = "running", member'[m] = self,
           NEW old, old.group_secret = self.group_secret
    PROVE  /\ DistributedResponse(m, n, old) \in Messages
           /\ MessageOK(member', DistributedResponse(m, n, old))
<1>1. n \in Members /\ OfGroup(m, n)
  BY DEF MemberOK, AnsweredOK, MemberRecords, Responded
<1>2. self.group_secret = m
  BY <1>1 DEF MemberOK, SecretOK, OfGroup
<1> QED
  BY <1>1, <1>2, ServiceTypes
     DEF DistributedResponse, Messages, MessageOK, OfGroup

LEMMA OffersOK ==
    ASSUME IInv, NEW m \in Members, IsFounder(m)
    PROVE  /\ \A msg \in Offers(m) : msg \in Messages /\ MessageOK(member', msg)
           /\ \A msg \in Finishes(m) : msg \in Messages /\ MessageOK(member', msg)
BY ServiceTypes DEF Offers, Offer, Finishes, Finish, Messages, MessageOK

\* Taking a handler off the queue and waiting anew concern the timer only.
LEMMA WaitOK ==
    ASSUME IInv, NEW m \in Members, NEW handler \in {"cyclic", "finish"},
           NEW wait \in {"none", "cyclic", "finish"}, Queued(m, handler)
    PROVE  /\ IsFounder(m)
           /\ \A self \in {Dequeued(m, handler), Await(Dequeued(m, handler), wait)} :
                /\ MemberOK(m, self)
                /\ self.status = "running"
                /\ self.group_secret = member[m].group_secret
                /\ self.non_acked_responses = member[m].non_acked_responses
                /\ self.endpoints_acks_rcvd_from = member[m].endpoints_acks_rcvd_from
                /\ Responded(self) = Responded(member[m])
<1>1. /\ member[m] \in MemberRecords
      /\ MemberOK(m, member[m])
      /\ member[m].status = "running"
      /\ handler \in member[m].scatter_queue
  BY MemberFacts DEF Queued
<1>2. IsFounder(m)
  BY <1>1 DEF MemberOK, SubscriberOK
<1>3. ASSUME NEW self \in {Dequeued(m, handler), Await(Dequeued(m, handler), wait)}
      PROVE  /\ self \in MemberRecords
             /\ self.status = member[m].status
             /\ self.is_sponsor = member[m].is_sponsor
             /\ self.group_secret = member[m].group_secret
             /\ self.non_acked_responses = member[m].non_acked_responses
             /\ self.endpoints_acks_rcvd_from = member[m].endpoints_acks_rcvd_from
             /\ self.time_statistics = member[m].time_statistics
             /\ self.timeout_wait = member[m].timeout_wait
  <2>1. CASE self = Dequeued(m, handler)
    BY <1>1, <2>1 DEF Dequeued, MemberRecords
  <2>2. CASE self = Await(Dequeued(m, handler), wait)
    BY <1>1, <2>2 DEF Dequeued, Await, MemberRecords
  <2> QED
    BY <2>1, <2>2
<1>4. ASSUME NEW self \in {Dequeued(m, handler), Await(Dequeued(m, handler), wait)}
      PROVE  MemberOK(m, self) /\ Responded(self) = Responded(member[m])
  BY <1>1, <1>2, <1>3
     DEF MemberOK, SecretOK, AnsweredOK, SubscriberOK, CountOK, Responded, Ended
<1> QED
  BY <1>1, <1>2, <1>3, <1>4

LEMMA SendCyclicMessagesInv ==
    ASSUME IInv, NEW m \in Members, SendCyclicMessages(m) PROVE IInv' /\ Kept
<1> DEFINE old == Dequeued(m, "cyclic")
           self == IF Cardinality(old.endpoints_acks_rcvd_from) # Subscribers(m)
                   THEN Await(old, "cyclic") ELSE old
           out == (IF Answered(old) # Subscribers(m) THEN Offers(m) ELSE {})
                  \cup {DistributedResponse(m, n, old) : n \in old.non_acked_responses}
<1>1. Queued(m, "cyclic") /\ Ends(m, self, net, out)
  BY DEF SendCyclicMessages
<1>2. self \in {old, Await(old, "cyclic")}
  OBVIOUS
<1>3. /\ IsFounder(m)
      /\ old.group_secret = member[m].group_secret
      /\ old.non_acked_responses = member[m].non_acked_responses
  BY <1>1, WaitOK
<1>4. /\ MemberOK(m, self)
      /\ self.status = "running"
      /\ self.group_secret = member[m].group_secret
      /\ self.non_acked_responses = member[m].non_acked_responses
      /\ self.endpoints_acks_rcvd_from = member[m].endpoints_acks_rcvd_from
      /\ Responded(self) = Responded(member[m])
  BY <1>1, <1>2, WaitOK
<1> HIDE DEF self
<1>5. member'[m] = self
  BY <1>1 DEF Ends, IInv
<1>6. \A n \in old.non_acked_responses :
         LET msg == DistributedResponse(m, n, old)
         IN  msg \in Messages /\ MessageOK(member', msg)
  BY <1>3, <1>4, <1>5, ResponseOK DEF Responded
<1> HIDE DEF old
<1>7. \A msg \in out : msg \in Messages /\ MessageOK(member', msg)
  BY <1>3, <1>6, OffersOK
<1> HIDE DEF out
<1> QED
  BY <1>1, <1>4, <1>7, MemberFacts, EndsInv

LEMMA SendFinishInv ==
    ASSUME IInv, NEW m \in Members, SendFinish(m) PROVE IInv' /\ Kept
<1> DEFINE self == Await(Dequeued(m, "finish"), "finish")
<1>1. Queued(m, "finish") /\ Ends(m, self, net, Finishes(m))
  BY DEF SendFinish
<1>2. /\ IsFounder(m)
      /\ MemberOK(m, self)
      /\ self.group_secret = member[m].group_secret
      /\ self.endpoints_acks_rcvd_from = member[m].endpoints_acks_rcvd_from
      /\ Responded(self) = Responded(member[m])
  BY <1>1, WaitOK
<1> HIDE DEF self
<1> QED
  BY <1>1, <1>2, OffersOK, MemberFacts, EndsInv

LEMMA TimeoutInv ==
    ASSUME IInv, NEW m \in Members, Timeout(m) PROVE IInv' /\ Kept
<1> DEFINE self == [Await(member[m], "none") EXCEPT !.timeout_wait = FALSE]
           done == contribute_statistics(self)
<1>1. /\ member[m] \in MemberRecords
      /\ MemberOK(m, member[m])
      /\ member[m].status = "running"
      /\ Ends(m, done, net, {})
  BY MemberFacts DEF Timeout
<1>2. /\ self \in MemberRecords
      /\ self.status = "running"
      /\ self.is_sponsor = member[m].is_sponsor
      /\ self.group_secret = member[m].group_secret
      /\ self.non_acked_responses = member[m].non_acked_responses
      /\ self.endpoints_acks_rcvd_from = member[m].endpoints_acks_rcvd_from
      /\ self.time_statistics = member[m].time_statistics
      /\ self.scatter_wait = "none"
      /\ self.scatter_queue = member[m].scatter_queue
      /\ ~ self.timeout_wait
  BY <1>1 DEF Await, MemberRecords
<1> HIDE DEF self
<1>3. MemberOK(m, self) /\ Responded(self) = Responded(member[m])
  BY <1>1, <1>2
     DEF MemberOK, SecretOK, AnsweredOK, SubscriberOK, CountOK, Responded, Ended
<1>4. /\ MemberOK(m, done)
      /\ done.group_secret = member[m].group_secret
      /\ done.endpoints_acks_rcvd_from = member[m].endpoints_acks_rcvd_from
      /\ Responded(done) = Responded(member[m])
  BY <1>2, <1>3, Contribute
<1> HIDE DEF done
<1> QED
  BY <1>1, <1>4, MemberFacts, EndsInv

LEMMA LoseInv ==
    ASSUME IInv, NEW msg, Lose(msg) PROVE IInv' /\ Kept
<1>1. net' \subseteq net /\ member' = member
  BY DEF Lose
<1>2. NetOK'
  BY <1>1 DEF IInv, NetOK, MessageOK
<1> QED
  BY <1>1, <1>2 DEF IInv, AcknowledgedHold, HoldersKnown, Holders, Kept

-----------------------------------------------------------------------------
(***************************************************************************)
(* The handlers of messages.                                               *)
(***************************************************************************)

\* The receiver of msg runs its handler; rest is what stays on its way.
Handles(m, msg, rest) ==
    /\ member[m].status = "running"
    /\ msg \in net
    /\ msg.to = m
    /\ rest \subseteq net

LEMMA MessageFacts ==
    ASSUME IInv, NEW m \in Members, NEW msg, NEW rest, Handles(m, msg, rest)
    PROVE  /\ msg \in Messages
           /\ MessageOK(member, msg)
           /\ msg.from \in Members
           /\ msg.to = m
           /\ member[m].status = "running"
           /\ rest \subseteq net
BY DEF Handles, IInv, NetOK, Messages

\* Nobody was answered yet if and only if nobody is on the lists.
LEMMA NobodyAnswered ==
    ASSUME NEW m, NEW self, CountOK(m, self)
    PROVE  Answered(self) = 0 <=> Responded(self) = {}
<1> DEFINE na == Cardinality(self.non_acked_responses)
           ac == Cardinality(self.endpoints_acks_rcvd_from)
<1>1. /\ na \in Nat /\ (na = 0 <=> self.non_acked_responses = {})
      /\ ac \in Nat /\ (ac = 0 <=> self.endpoints_acks_rcvd_from = {})
  BY FS_CardinalityType, FS_EmptySet DEF CountOK
<1>2. Answered(self) = na + ac
  BY DEF Answered
<1> HIDE DEF na, ac
<1>3. Answered(self) = 0 <=> na = 0 /\ ac = 0
  BY <1>1, <1>2
<1> QED
  BY <1>1, <1>3 DEF Responded

LEMMA Recorded ==
    ASSUME NEW self \in MemberRecords, NEW metric \in Timestamps,
           metric \notin self.time_statistics
    PROVE  LET done == RecordTimestamp(self, metric)
           IN  /\ done \in MemberRecords
               /\ done.status = self.status
               /\ done.is_sponsor = self.is_sponsor
               /\ done.group_secret = self.group_secret
               /\ done.non_acked_responses = self.non_acked_responses
               /\ done.endpoints_acks_rcvd_from = self.endpoints_acks_rcvd_from
               /\ done.time_statistics = self.time_statistics \cup {metric}
               /\ done.scatter_wait = self.scatter_wait
               /\ done.scatter_queue = self.scatter_queue
               /\ done.timeout_wait = self.timeout_wait
BY DEF RecordTimestamp, MemberRecords

LEMMA ProcessOfferInv ==
    ASSUME IInv, NEW m \in Members, NEW msg, NEW rest, Handles(m, msg, rest),
           ProcessOffer(m, msg, rest)
    PROVE  IInv' /\ Kept
<1> DEFINE out == IF ~ group_secret_rcvd(member[m]) /\ msg.service = Service(m)
                  THEN {Request(m, msg.from)} ELSE {}
<1>1. msg.type = "offer" /\ Ends(m, member[m], rest, out)
  BY DEF ProcessOffer
<1>2. msg.service = Service(m)
      => Request(m, msg.from) \in Messages /\ MessageOK(member', Request(m, msg.from))
  BY <1>1, MessageFacts, ServiceTypes DEF Request, Messages, MessageOK, OfGroup
<1>3. \A sent \in out : sent \in Messages /\ MessageOK(member', sent)
  BY <1>2
<1> HIDE DEF out
<1> QED
  BY <1>1, <1>3, MessageFacts, MemberFacts, EndsInv

LEMMA ProcessRequestInv ==
    ASSUME IInv, NEW m \in Members, NEW msg, NEW rest, Handles(m, msg, rest),
           ProcessRequest(m, msg, rest)
    PROVE  IInv' /\ Kept
<1> DEFINE self == IF Answered(member[m]) = 0
                   THEN RecordTimestamp(member[m], "KEY_AGREEMENT_START_")
                   ELSE member[m]
           new == Respond(m, self, msg.from)
           out == {DistributedResponse(m, msg.from, self)}
<1>1. /\ msg.type = "request"
      /\ IF /\ self.status = "running"
            /\ msg.from \notin self.non_acked_responses
            /\ msg.service = Service(m)
         THEN Ends(m, new, rest, out)
         ELSE Ends(m, self, rest, {})
  BY DEF ProcessRequest
<1>2. /\ member[m] \in MemberRecords
      /\ MemberOK(m, member[m])
      /\ member[m].status = "running"
      /\ msg.from \in Members
      /\ OfGroup(m, msg.from)
      /\ msg.service = Service(m)
  BY <1>1, MessageFacts, MemberFacts DEF MessageOK
<1>3. Answered(member[m]) = 0 <=> Responded(member[m]) = {}
  BY <1>2, NobodyAnswered DEF MemberOK
<1>4. Answered(member[m]) = 0 => "KEY_AGREEMENT_START_" \notin member[m].time_statistics
  BY <1>2, <1>3 DEF MemberOK, CountOK
<1>5. /\ self \in MemberRecords
      /\ self.status = "running"
      /\ self.is_sponsor = member[m].is_sponsor
      /\ self.group_secret = member[m].group_secret
      /\ self.non_acked_responses = member[m].non_acked_responses
      /\ self.endpoints_acks_rcvd_from = member[m].endpoints_acks_rcvd_from
      /\ Ended(self) <=> Ended(member[m])
      /\ self.timeout_wait = member[m].timeout_wait
  BY <1>2, <1>4, Recorded DEF Timestamps, Ended
<1>6. CASE msg.from \notin member[m].non_acked_responses
  <2>1. Ends(m, new, rest, out)
    BY <1>1, <1>2, <1>5, <1>6
  <2> HIDE DEF self
  <2>2. /\ new \in MemberRecords
        /\ new.status = "running"
        /\ new.is_sponsor = self.is_sponsor
        /\ new.group_secret = self.group_secret
        /\ new.non_acked_responses = self.non_acked_responses \cup {msg.from}
        /\ new.endpoints_acks_rcvd_from = self.endpoints_acks_rcvd_from
        /\ new.time_statistics = self.time_statistics
        /\ new.timeout_wait = self.timeout_wait
    BY <1>2, <1>5 DEF Respond, MemberRecords
  <2>3. Responded(new) = Responded(member[m]) \cup {msg.from}
    BY <1>5, <2>2 DEF Responded
  <2>4. IsFiniteSet(new.non_acked_responses)
    <3>1. IsFiniteSet(member[m].non_acked_responses)
      BY <1>2 DEF MemberOK, CountOK
    <3> QED
      BY <3>1, <1>5, <2>2, FS_AddElement
  <2> HIDE DEF new
  <2>5. MemberOK(m, new)
    <3>1. IsFounder(m)
      BY <1>2 DEF OfGroup
    <3>2. SecretOK(m, new) /\ AnsweredOK(m, new) /\ SubscriberOK(m, new)
      BY <1>2, <1>5, <2>2, <2>3, <3>1
         DEF MemberOK, SecretOK, AnsweredOK, SubscriberOK
    <3>3. CountOK(m, new)
      BY <1>2, <1>5, <2>2, <2>3, <2>4 DEF MemberOK, CountOK, Ended
    <3> QED
      BY <2>2, <3>2, <3>3 DEF MemberOK
  <2>6. member'[m] = new
    BY <2>1 DEF Ends, IInv
  <2>7. \A sent \in out : sent \in Messages /\ MessageOK(member', sent)
    BY <2>2, <2>3, <2>5, <2>6, ResponseOK
  <2>8. /\ new.group_secret = member[m].group_secret
        /\ new.endpoints_acks_rcvd_from = member[m].endpoints_acks_rcvd_from
    BY <1>5, <2>2
  <2> HIDE DEF out
  <2> QED
    BY <2>1, <2>3, <2>5, <2>7, <2>8, MessageFacts, MemberFacts, EndsInv
<1>7. CASE msg.from \in member[m].non_acked_responses
  <2>1. self = member[m]
    BY <1>3, <1>7 DEF Responded
  <2>2. Ends(m, member[m], rest, {})
    BY <1>1, <1>7, <2>1
  <2> QED
    BY <2>2, MessageFacts, MemberFacts, EndsInv
<1> QED
  BY <1>6, <1>7

LEMMA ProcessDistributedResponseInv ==
    ASSUME IInv, NEW m \in Members, NEW msg, NEW rest, Handles(m, msg, rest),
           ProcessDistributedResponse(m, msg, rest)
    PROVE  IInv' /\ Kept
<1> DEFINE self == IF group_secret_rcvd(member[m])
                   THEN member[m]
                   ELSE [member[m] EXCEPT !.group_secret = msg.group_secret]
           done == IF RETRANSMISSIONS THEN self ELSE contribute_statistics(self)
           out == IF group_secret_rcvd(self) THEN {FinishAck(m, msg.from)} ELSE {}
<1>1. /\ msg.type = "distributed_response"
      /\ msg.service = Service(m) => Ends(m, done, rest, out)
  BY DEF ProcessDistributedResponse
<1>2. /\ member[m] \in MemberRecords
      /\ MemberOK(m, member[m])
      /\ member[m].status = "running"
      /\ msg.from \in Members
      /\ OfGroup(msg.from, m)
      /\ msg.service = Service(m)
      /\ msg.group_secret = msg.from
      /\ m \in Responded(member[msg.from])
  BY <1>1, MessageFacts, MemberFacts DEF MessageOK
<1>3. msg.from = founder[Service(m)] /\ msg.from # m /\ ~ IsFounder(m)
  BY <1>2 DEF OfGroup, IsFounder
<1>4. self.group_secret = msg.from
  BY <1>2, <1>3 DEF MemberOK, SecretOK, group_secret_rcvd, MemberRecords
<1>5. /\ self \in MemberRecords
      /\ self.status = "running"
      /\ self.is_sponsor = member[m].is_sponsor
      /\ self.non_acked_responses = member[m].non_acked_responses
      /\ self.endpoints_acks_rcvd_from = member[m].endpoints_acks_rcvd_from
      /\ self.time_statistics = member[m].time_statistics
      /\ self.scatter_wait = member[m].scatter_wait
      /\ self.scatter_queue = member[m].scatter_queue
      /\ self.timeout_wait = member[m].timeout_wait
  BY <1>2 DEF MemberRecords
<1> HIDE DEF self
<1>6. MemberOK(m, self) /\ Responded(self) = Responded(member[m])
  BY <1>2, <1>3, <1>4, <1>5
     DEF MemberOK, SecretOK, AnsweredOK, SubscriberOK, CountOK, Responded, Ended
<1>7. /\ MemberOK(m, done)
      /\ done.group_secret = msg.from
      /\ done.endpoints_acks_rcvd_from = member[m].endpoints_acks_rcvd_from
      /\ Responded(done) = Responded(member[m])
  BY <1>4, <1>5, <1>6, Contribute
<1> HIDE DEF done
<1>8. member[m].group_secret \in {NoSecret, msg.from}
  BY <1>2, <1>3 DEF MemberOK, SecretOK
<1>9. \A sent \in out : sent \in Messages /\ MessageOK(member', sent)
  <2>1. Ends(m, done, rest, out)
    BY <1>1, <1>2
  <2>2. member'[m] = done
    BY <2>1 DEF Ends, IInv
  <2> QED
    BY <1>2, <1>7, <2>2 DEF FinishAck, Messages, MessageOK
<1> HIDE DEF out
<1> QED
  BY <1>1, <1>2, <1>3, <1>7, <1>8, <1>9, MessageFacts, MemberFacts, EndsInv

LEMMA ProcessFinishInv ==
    ASSUME IInv, NEW m \in Members, NEW msg, NEW rest, Handles(m, msg, rest),
           ProcessFinish(m, msg, rest)
    PROVE  IInv' /\ Kept
<1> DEFINE done == contribute_statistics(member[m])
<1>1. Ends(m, done, rest, {})
  BY DEF ProcessFinish
<1>2. /\ MemberOK(m, done)
      /\ done.group_secret = member[m].group_secret
      /\ done.endpoints_acks_rcvd_from = member[m].endpoints_acks_rcvd_from
      /\ Responded(done) = Responded(member[m])
  BY MessageFacts, MemberFacts, Contribute
<1> HIDE DEF done
<1> QED
  BY <1>1, <1>2, MessageFacts, MemberFacts, EndsInv

\* The sponsor counts an acknowledgement it was sent: it was by a holder.
LEMMA AcknowledgeOK ==
    ASSUME IInv, NEW m \in Members, NEW n \in Members, OfGroup(m, n),
           member[n].group_secret = m, member[m].status = "running"
    PROVE  LET self == Acknowledge(member[m], n)
           IN  /\ MemberOK(m, self)
               /\ self.status = "running"
               /\ self.is_sponsor = member[m].is_sponsor
               /\ self.group_secret = m
               /\ self.endpoints_acks_rcvd_from
                    = member[m].endpoints_acks_rcvd_from \cup {n}
               /\ Responded(self) = Responded(member[m])
<1> DEFINE self == Acknowledge(member[m], n)
<1>1. member[m] \in MemberRecords /\ MemberOK(m, member[m])
  BY MemberFacts
<1>2. IsFounder(m) /\ n # m
  BY DEF OfGroup
<1>3. n \in Responded(member[m])
  BY <1>2 DEF IInv, HoldersKnown, Holders, Responded
<1>4. /\ self \in MemberRecords
      /\ self.status = member[m].status
      /\ self.is_sponsor = member[m].is_sponsor
      /\ self.group_secret = member[m].group_secret
      /\ self.non_acked_responses = member[m].non_acked_responses \ {n}
      /\ self.endpoints_acks_rcvd_from = member[m].endpoints_acks_rcvd_from \cup {n}
      /\ self.time_statistics = member[m].time_statistics
      /\ self.timeout_wait = member[m].timeout_wait
  BY <1>1 DEF Acknowledge, MemberRecords
<1>5. Responded(self) = Responded(member[m])
  BY <1>3, <1>4 DEF Responded
<1> HIDE DEF self
<1>6. SecretOK(m, self) /\ AnsweredOK(m, self) /\ SubscriberOK(m, self)
  BY <1>1, <1>2, <1>4, <1>5 DEF MemberOK, SecretOK, AnsweredOK, SubscriberOK
<1>7. CountOK(m, self)
  <2>1. /\ IsFiniteSet(member[m].non_acked_responses)
        /\ IsFiniteSet(member[m].endpoints_acks_rcvd_from)
    BY <1>1 DEF MemberOK, CountOK
  <2>2. /\ IsFiniteSet(self.non_acked_responses)
        /\ IsFiniteSet(self.endpoints_acks_rcvd_from)
    BY <1>4, <2>1, FS_AddElement, FS_Subset
  <2>3. /\ Cardinality(member[m].endpoints_acks_rcvd_from)
             <= Cardinality(self.endpoints_acks_rcvd_from)
        /\ Cardinality(member[m].endpoints_acks_rcvd_from) \in Nat
        /\ Cardinality(self.endpoints_acks_rcvd_from) \in Nat
        /\ Subscribers(m) \in Nat
    BY <1>4, <2>1, <2>2, FS_Subset, FS_CardinalityType, ServiceTypes
  <2> QED
    BY <1>1, <1>4, <1>5, <2>2, <2>3 DEF MemberOK, CountOK, Ended
<1>8. self.group_secret = m
  BY <1>1, <1>2, <1>4 DEF MemberOK, SecretOK
<1> QED
  BY <1>4, <1>5, <1>6, <1>7, <1>8 DEF MemberOK, self

\* Ending the agreement, the sponsor records the second timestamp and is
\* the sponsor no more.
LEMMA EndAgreementOK ==
    ASSUME NEW m \in Members, NEW self, MemberOK(m, self), IsFounder(m),
           self.status = "running", self.group_secret = m, AllAcknowledged(m, self)
    PROVE  LET done == EndAgreement(m, self)
           IN  /\ MemberOK(m, done)
               /\ Ended(done)
               /\ done.group_secret = m
               /\ done.endpoints_acks_rcvd_from = self.endpoints_acks_rcvd_from
               /\ Responded(done) = Responded(self)
<1> DEFINE mid == RecordTimestamp(self, "DURATION_END_")
           done == EndAgreement(m, self)
<1>1. /\ self \in MemberRecords
      /\ "DURATION_END_" \notin self.time_statistics
      /\ Cardinality(self.endpoints_acks_rcvd_from) = Subscribers(m)
      /\ Subscribers(m) \in Nat
  BY ServiceTypes DEF MemberOK, CountOK, Ended, AllAcknowledged
<1>2. /\ mid \in MemberRecords
      /\ mid.status = "running"
      /\ mid.group_secret = m
      /\ mid.non_acked_responses = self.non_acked_responses
      /\ mid.endpoints_acks_rcvd_from = self.endpoints_acks_rcvd_from
      /\ mid.time_statistics = self.time_statistics \cup {"DURATION_END_"}
  BY <1>1, Recorded DEF Timestamps
<1> HIDE DEF mid
<1>3. /\ done \in MemberRecords
      /\ \/ done.status = "running" /\ ~ done.is_sponsor
         \/ done.status = "stopped"
      /\ done.group_secret = m
      /\ done.non_acked_responses = self.non_acked_responses
      /\ done.endpoints_acks_rcvd_from = self.endpoints_acks_rcvd_from
      /\ done.time_statistics = self.time_statistics \cup {"DURATION_END_"}
  <2>1. CASE RETRANSMISSIONS
    <3>1. done = [Await(mid, "finish") EXCEPT !.is_sponsor = FALSE, !.timeout_wait = TRUE]
      BY <2>1 DEF EndAgreement, mid
    <3> QED
      BY <1>2, <3>1 DEF Await, MemberRecords
  <2>2. CASE ~ RETRANSMISSIONS
    <3>1. done = [mid EXCEPT !.status = "stopped"]
      BY <1>2, <2>2, ServiceTypes
         DEF EndAgreement, mid, contribute_statistics, group_secret_rcvd
    <3> QED
      BY <1>2, <3>1 DEF MemberRecords
  <2> QED
    BY <2>1, <2>2
<1>4. Responded(done) = Responded(self)
  BY <1>3 DEF Responded
<1> HIDE DEF done
<1>5. SecretOK(m, done) /\ AnsweredOK(m, done) /\ SubscriberOK(m, done)
  BY <1>3, <1>4 DEF MemberOK, SecretOK, AnsweredOK, SubscriberOK, IsFounder
<1>6. CountOK(m, done) /\ Ended(done)
  BY <1>1, <1>3, <1>4 DEF MemberOK, CountOK, Ended
<1> QED
  BY <1>3, <1>4, <1>5, <1>6 DEF MemberOK, done

LEMMA ProcessFinishAckInv ==
    ASSUME IInv, NEW m \in Members, NEW msg, NEW rest, Handles(m, msg, rest),
           ProcessFinishAck(m, msg, rest)
    PROVE  IInv' /\ Kept
<1> DEFINE self == Acknowledge(member[m], msg.from)
           out == IF RETRANSMISSIONS THEN Finishes(m) ELSE {}
<1>1. /\ msg.type = "finish_ack"
      /\ IF AllAcknowledged(m, self)
         THEN Ends(m, EndAgreement(m, self), rest, out)
         ELSE Ends(m, self, rest, {})
  BY DEF ProcessFinishAck
<1>2. /\ msg.from \in Members
      /\ OfGroup(m, msg.from)
      /\ member[msg.from].group_secret = m
      /\ member[m].status = "running"
      /\ rest \subseteq net
  BY <1>1, MessageFacts DEF MessageOK
<1>3. /\ MemberOK(m, self)
      /\ self.status = "running"
      /\ self.group_secret = m
      /\ self.endpoints_acks_rcvd_from
           = member[m].endpoints_acks_rcvd_from \cup {msg.from}
      /\ Responded(self) = Responded(member[m])
  BY <1>2, AcknowledgeOK
<1> HIDE DEF self
<1>4. IsFounder(m) /\ m # msg.from /\ member[m].group_secret = m
  BY <1>2, MemberFacts DEF OfGroup, MemberOK, SecretOK
<1>5. \A n \in self.endpoints_acks_rcvd_from : n # m /\ member[n].group_secret = m
  BY <1>2, <1>3, <1>4, MemberFacts
<1>6. CASE AllAcknowledged(m, self)
  <2> DEFINE done == EndAgreement(m, self)
  <2>1. /\ MemberOK(m, done)
        /\ done.group_secret = m
        /\ done.endpoints_acks_rcvd_from = self.endpoints_acks_rcvd_from
        /\ Responded(done) = Responded(self)
    BY <1>3, <1>4, <1>6, EndAgreementOK
  <2>2. Ends(m, done, rest, out)
    BY <1>1, <1>6
  <2>3. \A sent \in out : sent \in Messages /\ MessageOK(member', sent)
    BY <1>4, OffersOK
  <2> HIDE DEF done, out
  <2> QED
    BY <1>2, <1>3, <1>4, <1>5, <2>1, <2>2, <2>3, EndsInv
<1>7. CASE ~ AllAcknowledged(m, self)
  BY <1>1, <1>2, <1>3, <1>4, <1>5, <1>7, EndsInv
<1> QED
  BY <1>6, <1>7

LEMMA ProcessInv ==
    ASSUME IInv, NEW m \in Members, NEW msg, NEW rest, Handles(m, msg, rest),
           Process(m, msg, rest)
    PROVE  IInv' /\ Kept
BY ProcessOfferInv, ProcessRequestInv, ProcessDistributedResponseInv,
   ProcessFinishInv, ProcessFinishAckInv DEF Process

LEMMA ReceiveInv ==
    ASSUME IInv, NEW m \in Members,
           (\E type \in MessageTypes : Receive(m, type)) \/ ReceiveCopy(m)
    PROVE  IInv' /\ Kept
<1>1. PICK msg \in net, rest \in SUBSET net :
         Handles(m, msg, rest) /\ Process(m, msg, rest)
  BY DEF Receive, ReceiveCopy, Handles
<1> QED
  BY <1>1, ProcessInv

LEMMA NextInv == ASSUME IInv, [Next]_vars PROVE IInv' /\ Kept
<1>1. CASE UNCHANGED vars
  BY <1>1
     DEF vars, IInv, NetOK, MessageOK, AcknowledgedHold, HoldersKnown, Holders, Kept
<1>2. ASSUME NEW m \in Members, Launch(m) PROVE IInv' /\ Kept
  BY <1>2, LaunchInv
<1>3. ASSUME NEW m \in Members,
             (\E type \in MessageTypes : Receive(m, type)) \/ ReceiveCopy(m)
      PROVE  IInv' /\ Kept
  BY <1>3, ReceiveInv
<1>4. ASSUME NEW m \in Members, ScatterExpires(m) PROVE IInv' /\ Kept
  BY <1>4, ScatterExpiresInv
<1>5. ASSUME NEW m \in Members, SendCyclicMessages(m) PROVE IInv' /\ Kept
  BY <1>5, SendCyclicMessagesInv
<1>6. ASSUME NEW m \in Members, SendFinish(m) PROVE IInv' /\ Kept
  BY <1>6, SendFinishInv
<1>7. ASSUME NEW m \in Members, Timeout(m) PROVE IInv' /\ Kept
  BY <1>7, TimeoutInv
<1>8. ASSUME NEW msg \in net, Lose(msg) PROVE IInv' /\ Kept
  BY <1>8, LoseInv
<1> QED
  BY <1>1, <1>2, <1>3, <1>4, <1>5, <1>6, <1>7, <1>8 DEF Next

(***************************************************************************)
(* The invariant holds in every behaviour, with and without                *)
(* retransmissions, for every number of members and groups.                *)
(***************************************************************************)
THEOREM DistributedInvariant == Spec => []IInv
<1>1. Init => IInv
  BY InitInv
<1>2. IInv /\ [Next]_vars => IInv'
  BY NextInv
<1> QED
  BY <1>1, <1>2, PTL DEF Spec

-----------------------------------------------------------------------------
(***************************************************************************)
(* The properties.                                                         *)
(***************************************************************************)

\* The variables have the types the code declares.
THEOREM TypesRight == Spec => []TypeOK
<1>1. IInv => TypeOK
  BY DEF IInv, NetOK, TypeOK, MemberRecords
<1> QED
  BY <1>1, DistributedInvariant, PTL

\* An acknowledgement that a sponsor counts is of a holder of its secret.
THEOREM AcknowledgementsRight == Spec => []AcknowledgedHold
<1>1. IInv => AcknowledgedHold
  BY DEF IInv
<1> QED
  BY <1>1, DistributedInvariant, PTL

\* A holder of a sponsor's secret is on one of the sponsor's lists.
THEOREM HoldersAnswered == Spec => []HoldersKnown
<1>1. IInv => HoldersKnown
  BY DEF IInv
<1> QED
  BY <1>1, DistributedInvariant, PTL

\* The recorder's exception is never thrown: each timestamp is taken once.
THEOREM TimestampsOnce == Spec => []TimestampsRecordedOnce
<1>1. IInv => TimestampsRecordedOnce
  BY DEF IInv, MemberOK, SecretOK, TimestampsRecordedOnce
<1> QED
  BY <1>1, DistributedInvariant, PTL

\* Whoever was counted is a holder, so there are at least as many holders.
LEMMA EndedHolders ==
    ASSUME IInv, NEW m \in Members, Ended(member[m])
    PROVE  Cardinality(Holders(m)) >= Subscribers(m)
<1>1. /\ Cardinality(member[m].endpoints_acks_rcvd_from) >= Subscribers(m)
      /\ IsFiniteSet(Responded(member[m]))
  BY FS_Union DEF IInv, MemberOK, CountOK, Responded
<1>2. Holders(m) \subseteq Responded(member[m])
  BY DEF IInv, HoldersKnown, Responded
<1>3. IsFiniteSet(Holders(m))
  BY <1>1, <1>2, FS_Subset
<1>4. member[m].endpoints_acks_rcvd_from \subseteq Holders(m)
  BY DEF IInv, AcknowledgedHold
<1>5. Cardinality(member[m].endpoints_acks_rcvd_from) <= Cardinality(Holders(m))
  BY <1>3, <1>4, FS_Subset
<1>6. /\ Cardinality(Holders(m)) \in Nat
      /\ Cardinality(member[m].endpoints_acks_rcvd_from) \in Nat
  BY <1>3, <1>4, FS_Subset, FS_CardinalityType
<1> QED
  BY <1>1, <1>5, <1>6, ServiceTypes

\* The sponsor ends the agreement only when as many members as it was
\* started for have its group secret.
THEOREM FinishedAgreed == Spec => []FinishedMeansAgreed
<1>1. IInv => FinishedMeansAgreed
  BY EndedHolders DEF FinishedMeansAgreed, Ended
<1> QED
  BY <1>1, DistributedInvariant, PTL

(***************************************************************************)
(* No more members are started for a group than its founder was told.      *)
(***************************************************************************)
GroupOf(s) == {m \in Members : Service(m) = s}

NoSurplusMember ==
    \A s \in Services :
        IsFiniteSet(GroupOf(s)) /\ Cardinality(GroupOf(s)) <= member_count[s]

\* Then all subscribers are holders when the agreement has ended.
LEMMA EndedComplete ==
    ASSUME NoSurplusMember, IInv, NEW m \in Members, Ended(member[m])
    PROVE  Holders(m) = GroupOf(Service(m)) \ {m}
<1> DEFINE G == GroupOf(Service(m))
<1>1. m \in G /\ IsFiniteSet(G) /\ Cardinality(G) <= member_count[Service(m)]
  BY ServiceTypes DEF NoSurplusMember, GroupOf
<1>2. /\ IsFiniteSet(G \ {m})
      /\ Cardinality(G \ {m}) = Cardinality(G) - 1
  BY <1>1, FS_RemoveElement
<1>3. Holders(m) \subseteq G \ {m}
  <2> SUFFICES ASSUME NEW n \in Holders(m) PROVE n \in G \ {m}
    OBVIOUS
  <2>1. n \in Responded(member[m])
    BY DEF IInv, HoldersKnown, Responded
  <2>2. OfGroup(m, n)
    BY <2>1 DEF IInv, MemberOK, AnsweredOK
  <2> QED
    BY <2>2 DEF OfGroup, GroupOf, Holders
<1>4. Cardinality(Holders(m)) >= Cardinality(G \ {m})
  <2>1. Cardinality(Holders(m)) >= Subscribers(m)
    BY EndedHolders
  <2>2. /\ Cardinality(G) \in Nat
        /\ Cardinality(Holders(m)) \in Nat
        /\ member_count[Service(m)] \in Nat
    BY <1>1, <1>2, <1>3, FS_Subset, FS_CardinalityType, ServiceTypes,
       ConfigurationAssumption
  <2> HIDE DEF G
  <2> QED
    BY <1>1, <1>2, <2>1, <2>2 DEF Subscribers
<1>5. /\ Cardinality(Holders(m)) \in Nat
      /\ Cardinality(G \ {m}) \in Nat
      /\ Cardinality(Holders(m)) <= Cardinality(G \ {m})
  BY <1>2, <1>3, FS_Subset, FS_CardinalityType
<1> QED
  BY <1>2, <1>3, <1>4, <1>5, FS_Subset

(***************************************************************************)
(* A group secret is never replaced.  In a group without surplus members   *)
(* the sponsor ends the agreement when all have the secret: nobody can     *)
(* become a holder later.                                                  *)
(***************************************************************************)
THEOREM FinalAgreement ==
    ASSUME NoSurplusMember PROVE Spec => AgreementFinal
<1> DEFINE Final ==
        \A m \in Members :
            /\ group_secret_rcvd(member[m])
                 => member'[m].group_secret = member[m].group_secret
            /\ "DURATION_END_" \in member[m].time_statistics
                 => Holders(m)' = Holders(m)
<1>1. ASSUME IInv, [Next]_vars PROVE Final
  <2>1. IInv' /\ Kept
    BY <1>1, NextInv
  <2> SUFFICES ASSUME NEW m \in Members
               PROVE  /\ group_secret_rcvd(member[m])
                           => member'[m].group_secret = member[m].group_secret
                      /\ "DURATION_END_" \in member[m].time_statistics
                           => Holders(m)' = Holders(m)
    OBVIOUS
  <2>2. group_secret_rcvd(member[m])
        => member'[m].group_secret = member[m].group_secret
    BY <1>1, <2>1, MemberFacts DEF Kept, group_secret_rcvd, MemberRecords
  <2>3. ASSUME Ended(member[m]) PROVE Holders(m)' = Holders(m)
    <3>1. Holders(m) \subseteq Holders(m)'
      BY <2>1 DEF Kept, Holders
    <3>2. Holders(m) = GroupOf(Service(m)) \ {m}
      BY <1>1, <2>3, EndedComplete
    <3>3. Holders(m)' \subseteq GroupOf(Service(m)) \ {m}
      <4> SUFFICES ASSUME NEW n \in Members \ {m}, member'[n].group_secret = m
                   PROVE  Service(n) = Service(m)
        BY DEF Holders, GroupOf
      <4>1. SecretOK(n, member'[n])
        BY <2>1 DEF IInv, MemberOK
      <4> QED
        BY <4>1, ServiceTypes DEF SecretOK
    <3> QED
      BY <3>1, <3>2, <3>3
  <2> QED
    BY <2>2, <2>3 DEF Ended
<1>2. IInv /\ [Next]_vars => [Final]_vars
  BY <1>1
<1> QED
  BY <1>2, DistributedInvariant, PTL DEF Spec, AgreementFinal

\* Whatever groups there are, no step takes back an answer or a secret.
THEOREM NothingTakenBack == Spec => [][Kept]_vars
<1>1. IInv /\ [Next]_vars => Kept
  BY NextInv
<1> QED
  BY <1>1, DistributedInvariant, PTL DEF Spec

(***************************************************************************)
(* "finish" carries no service, so the one of another group would stop a   *)
(* founder.  Where one group uses the multicast address, a founder stops   *)
(* only by its own timer or last acknowledgement, after the agreement.     *)
(***************************************************************************)
OneService == \A s, t \in Services : s = t

FounderEnded ==
    \A m \in Members :
        IsFounder(m) /\ member[m].status = "stopped" => Ended(member[m])

LEMMA ProcessFounderEnded ==
    ASSUME OneService, IInv, NEW m \in Members, NEW msg, NEW rest,
           Handles(m, msg, rest), Process(m, msg, rest), IsFounder(m)
    PROVE  /\ \A n \in Members \ {m} : member'[n] = member[n]
           /\ member'[m].status = "stopped" => Ended(member'[m])
<1>1. /\ member[m].status = "running"
      /\ member[m] \in MemberRecords
      /\ MemberOK(m, member[m])
      /\ msg \in Messages /\ MessageOK(member, msg)
      /\ msg.from \in Members /\ msg.to = m
  BY MessageFacts, MemberFacts
<1>2. ASSUME NEW self, NEW out, Ends(m, self, rest, out)
      PROVE  /\ \A n \in Members \ {m} : member'[n] = member[n]
             /\ member'[m] = self
  BY <1>2 DEF Ends, IInv
<1>3. CASE ProcessOffer(m, msg, rest)
  BY <1>1, <1>2, <1>3 DEF ProcessOffer
<1>4. CASE ProcessRequest(m, msg, rest)
  <2> DEFINE self == IF Answered(member[m]) = 0
                     THEN RecordTimestamp(member[m], "KEY_AGREEMENT_START_")
                     ELSE member[m]
  <2>1. \/ Ends(m, Respond(m, self, msg.from), rest,
                {DistributedResponse(m, msg.from, self)})
        \/ Ends(m, self, rest, {})
    BY <1>4 DEF ProcessRequest
  <2>2. self \in MemberRecords /\ self.status # "stopped"
    BY <1>1 DEF RecordTimestamp, MemberRecords, Timestamps
  <2> HIDE DEF self
  <2>3. Respond(m, self, msg.from).status # "stopped"
    BY <2>2 DEF Respond, MemberRecords
  <2> QED
    BY <1>2, <2>1, <2>2, <2>3
<1>5. CASE ProcessDistributedResponse(m, msg, rest)
  <2>1. OfGroup(msg.from, m)
    BY <1>1, <1>5 DEF ProcessDistributedResponse, MessageOK
  <2> QED
    BY <2>1 DEF OfGroup, IsFounder
<1>6. CASE ProcessFinish(m, msg, rest)
  <2>1. IsFounder(msg.from) /\ m # msg.from
    BY <1>1, <1>6 DEF ProcessFinish, MessageOK
  <2>2. Service(msg.from) = Service(m)
    BY <1>1, ServiceTypes DEF OneService
  <2> QED
    BY <2>1, <2>2 DEF IsFounder
<1>7. CASE ProcessFinishAck(m, msg, rest)
  <2> DEFINE self == Acknowledge(member[m], msg.from)
  <2>1. /\ OfGroup(m, msg.from)
        /\ member[msg.from].group_secret = m
        /\ \/ /\ AllAcknowledged(m, self)
              /\ \E out : Ends(m, EndAgreement(m, self), rest, out)
           \/ Ends(m, self, rest, {})
    BY <1>1, <1>7 DEF ProcessFinishAck, MessageOK
  <2>2. MemberOK(m, self) /\ self.status = "running" /\ self.group_secret = m
    BY <1>1, <2>1, AcknowledgeOK
  <2> HIDE DEF self
  <2>3. AllAcknowledged(m, self) => Ended(EndAgreement(m, self))
    BY <2>2, EndAgreementOK
  <2> QED
    BY <1>2, <2>1, <2>2, <2>3
<1> QED
  BY <1>3, <1>4, <1>5, <1>6, <1>7 DEF Process

LEMMA NextFounderEnded ==
    ASSUME OneService, IInv, FounderEnded, [Next]_vars PROVE FounderEnded'
<1> SUFFICES ASSUME NEW k \in Members, IsFounder(k), member'[k].status = "stopped"
             PROVE  Ended(member'[k])
  BY DEF FounderEnded
<1>1. /\ member[k].status = "stopped" => Ended(member[k])
      /\ member[k] \in MemberRecords
      /\ MemberOK(k, member[k])
  BY MemberFacts DEF FounderEnded
<1>2. CASE member' = member
  BY <1>1, <1>2
<1>3. ASSUME NEW m \in Members, NEW self, NEW rest, NEW out, Ends(m, self, rest, out),
             m = k /\ self.status = "stopped" => Ended(self)
      PROVE  Ended(member'[k])
  <2>1. CASE m = k
    BY <1>3, <2>1 DEF Ends, IInv
  <2>2. CASE m # k
    BY <1>1, <1>3, <2>2 DEF Ends, IInv
  <2> QED
    BY <2>1, <2>2
<1>4. ASSUME NEW m \in Members, Launch(m) PROVE Ended(member'[k])
  <2>1. /\ member[m] \in MemberRecords
        /\ member[m].status = "down"
    BY <1>4, MemberFacts DEF Launch
  <2>2. PICK self, out : Ends(m, self, net, out) /\ self.status = "running"
    <3>1. CASE IsFounder(m)
      <4> DEFINE self == [member[m] EXCEPT
                !.status = "running",
                !.is_sponsor = TRUE,
                !.group_secret = Generated(m),
                !.scatter_wait = IF RETRANSMISSIONS THEN "cyclic" ELSE "none"]
      <4>1. Ends(m, self, net, Offers(m))
        BY <1>4, <3>1 DEF Launch
      <4>2. self.status = "running"
        BY <2>1 DEF MemberRecords
      <4> HIDE DEF self
      <4> QED
        BY <4>1, <4>2
    <3>2. CASE ~ IsFounder(m)
      BY <1>4, <2>1, <3>2 DEF Launch, MemberRecords
    <3> QED
      BY <3>1, <3>2
  <2> QED
    BY <1>3, <2>2
<1>5. ASSUME NEW m \in Members,
             (\E type \in MessageTypes : Receive(m, type)) \/ ReceiveCopy(m)
      PROVE  Ended(member'[k])
  <2>1. PICK msg \in net, rest \in SUBSET net :
           Handles(m, msg, rest) /\ Process(m, msg, rest)
    BY <1>5 DEF Receive, ReceiveCopy, Handles
  <2>2. CASE m = k
    BY <2>1, <2>2, ProcessFounderEnded
  <2>3. CASE m # k
    <3>1. PICK self, out : Ends(m, self, rest, out)
      BY <2>1 DEF Process, ProcessOffer, ProcessRequest,
                  ProcessDistributedResponse, ProcessFinish, ProcessFinishAck
    <3> QED
      BY <1>3, <2>3, <3>1
  <2> QED
    BY <2>2, <2>3
<1>6. ASSUME NEW m \in Members, ScatterExpires(m) PROVE Ended(member'[k])
  <2>1. /\ member[m] \in MemberRecords
        /\ member'[k].status = member[k].status
        /\ member'[k].time_statistics = member[k].time_statistics
    BY <1>1, <1>6, MemberFacts DEF ScatterExpires, IInv, MemberRecords
  <2> QED
    BY <1>1, <2>1 DEF Ended
<1>7. ASSUME NEW m \in Members, SendCyclicMessages(m) PROVE Ended(member'[k])
  <2> DEFINE old == Dequeued(m, "cyclic")
  <2>1. PICK self \in {old, Await(old, "cyclic")} : \E out : Ends(m, self, net, out)
    BY <1>7 DEF SendCyclicMessages
  <2>2. self.status = "running"
    BY <1>7, <2>1, WaitOK DEF SendCyclicMessages
  <2> QED
    BY <1>3, <2>1, <2>2
<1>8. ASSUME NEW m \in Members, SendFinish(m) PROVE Ended(member'[k])
  <2>1. Await(Dequeued(m, "finish"), "finish").status = "running"
    BY <1>8, WaitOK DEF SendFinish
  <2> QED
    BY <1>3, <1>8, <2>1 DEF SendFinish
<1>9. ASSUME NEW m \in Members, Timeout(m) PROVE Ended(member'[k])
  <2> DEFINE self == [Await(member[m], "none") EXCEPT !.timeout_wait = FALSE]
  <2>1. /\ member[m] \in MemberRecords
        /\ Ended(member[m])
        /\ Ends(m, contribute_statistics(self), net, {})
    BY <1>9, MemberFacts DEF Timeout, MemberOK, CountOK
  <2>2. self \in MemberRecords /\ self.time_statistics = member[m].time_statistics
    BY <2>1 DEF Await, MemberRecords
  <2> HIDE DEF self
  <2>3. contribute_statistics(self).time_statistics = member[m].time_statistics
    BY <2>2 DEF contribute_statistics, MemberRecords
  <2> QED
    BY <1>3, <2>1, <2>3 DEF Ended
<1>10. ASSUME NEW msg \in net, Lose(msg) PROVE member' = member
  BY <1>10 DEF Lose
<1> QED
  BY <1>2, <1>4, <1>5, <1>6, <1>7, <1>8, <1>9, <1>10 DEF Next, vars

\* Where one group uses the address, its sponsor does not stop before the
\* group has the key.
THEOREM SponsorStopsLast ==
    ASSUME OneService PROVE Spec => []SponsorStopsAgreed
<1>1. Init => FounderEnded
  BY DEF Init, FounderEnded, InitialMember
<1>2. IInv /\ FounderEnded /\ [Next]_vars => FounderEnded'
  BY NextFounderEnded
<1>3. IInv /\ FounderEnded => SponsorStopsAgreed
  BY EndedHolders, ServiceTypes DEF FounderEnded, SponsorStopsAgreed
<1> QED
  BY <1>1, <1>2, <1>3, DistributedInvariant, PTL DEF Spec
=============================================================================
