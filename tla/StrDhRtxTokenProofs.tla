------------------------ MODULE StrDhRtxTokenProofs ------------------------
(***************************************************************************)
(* Proofs about StrDhRtx: whom a member knows, and what the synch token    *)
(* and finish say.  They build on the invariant of StrDhRtxProofs, and are *)
(* about any number of members, on both networks: what the token says does *)
(* not depend on the order in which messages are received.                 *)
(*                                                                         *)
(* A member reaches its state by handlers of several parts.  Quiet says    *)
(* that a part keeps what matters here, Goes what a whole handler of m may *)
(* make of m, Says what it may send, and Told that the step was one of     *)
(* these: all that the invariants of the token need of the handlers.       *)
(***************************************************************************)
EXTENDS StrDhRtxProofs

(***************************************************************************)
(* What a member makes of its own state.  Only the last member gave up the *)
(* role without knowing all before it, since the others admitted somebody; *)
(* who is not the sponsor has added the keys that it can.                  *)
(***************************************************************************)
PredecessorsKnown(m, self) ==
    IsAssigned(self) /\ ~ self.is_sponsor /\ ~ IsLastMember(m, self) =>
        1 .. self.member_id - 1 \subseteq DOMAIN self.assigned_keys

Settled(self) ==
    IsAssigned(self) /\ ~ self.is_sponsor =>
        LastKeyId(self) + 1 \notin DOMAIN self.assigned_keys

\* The token is taken by a member with an id, and the handlers that repeat
\* the token and finish run for those who sent them.
TimersTell(m, self) ==
    /\ self.synch_token_rcvd => IsAssigned(self)
    /\ Some(self, {"token"}) => self.synch_finished
    /\ Some(self, {"finish"}) => IsLastMember(m, self) /\ self.synch_token_rcvd
    /\ Some(self, {"founder_finish"}) => self.finish_message_rcvd

LocalOK(m, self) ==
    /\ PredecessorsKnown(m, self)
    /\ Settled(self)
    /\ TimersTell(m, self)

KnowInv == IInv /\ \A m \in Members : LocalOK(m, member[m])

(***************************************************************************)
(* What the token says: where it gets to a member with the id k, there is  *)
(* a last member, and whoever has an id before k knows everybody.          *)
(***************************************************************************)
OtherMembers(m, self) == (1 .. member_count[Service(m)]) \ {self.member_id}

KnowsEverybody(m, self) == OtherMembers(m, self) \subseteq DOMAIN self.assigned_keys

Reached(mem, k) ==
    /\ \E l \in Members : IsLastMember(l, mem[l])
    /\ \A id \in 1 .. k - 1 :
          \E n \in Members : mem[n].member_id = id /\ KnowsEverybody(n, mem[n])

LastHasToken(mem) == \E l \in Members : IsLastMember(l, mem[l]) /\ mem[l].synch_token_rcvd

FlagsTell(mem, m) ==
    /\ mem[m].synch_token_rcvd => Reached(mem, mem[m].member_id)
    /\ mem[m].synch_finished =>
          /\ IsAssigned(mem[m])
          /\ IsLastMember(m, mem[m]) \/ Reached(mem, mem[m].member_id + 1)
    /\ mem[m].finish_message_rcvd => LastHasToken(mem)

NetTells(nt, mem) ==
    \A m \in Members : \A msg \in nt[m] :
        /\ msg.type = "synch_token" => Reached(mem, msg.member_id)
        /\ msg.type = "finish" => LastHasToken(mem)

TokenInv ==
    /\ KnowInv
    /\ \A m \in Members : FlagsTell(member, m)
    /\ NetTells(net, member)

-----------------------------------------------------------------------------
(***************************************************************************)
(* Whom a member with an id knows.                                         *)
(***************************************************************************)
LEMMA OtherIds ==
    ASSUME NEW H, HistoryOK(H), NEW m \in Members, NEW self, MemberOK(H, m, self),
           IsAssigned(self)
    PROVE  /\ self.member_id \in 1 .. member_count[Service(m)]
           /\ DOMAIN self.assigned_keys \subseteq OtherMembers(m, self)
           /\ Cardinality(DOMAIN self.assigned_endpoints)
                 = Cardinality(DOMAIN self.assigned_keys)
           /\ Cardinality(DOMAIN self.assigned_keys) \in Nat
           /\ AllSuccessorsKnown(m, self) <=> KnowsEverybody(m, self)
           /\ KnowsEverybody(m, self) =>
                 Cardinality(DOMAIN self.assigned_keys) = member_count[Service(m)] - 1
<1> DEFINE s == Service(m)
           id == self.member_id
           top == member_count[s]
           keys == DOMAIN self.assigned_keys
           others == OtherMembers(m, self)
<1>1. s \in Services /\ top \in Nat \ {0} /\ id \in Nat \ {0} /\ Gives(H, s, id, m)
  BY ServiceTypes, OwnId
<1>2. \A i, e : Gives(H, s, i, e) => i \in 1 .. top
  BY <1>1, GivesType
<1>3. id \in 1 .. top
  BY <1>1, <1>2
<1>4. keys \subseteq others
  <2> SUFFICES ASSUME NEW i \in keys PROVE i \in others
    OBVIOUS
  <2>1. Gives(H, s, i, self.assigned_keys[i]) /\ self.assigned_keys[i] # m
    BY DEF MemberOK, MapsOK
  <2>2. i # id
    BY <1>1, <2>1, GivesUnique
  <2> QED
    BY <1>2, <2>1, <2>2 DEF OtherMembers
<1>5. IsFiniteSet(others) /\ Cardinality(others) = top - 1
  <2>1. 1 \in Int /\ top \in Int /\ ~ 1 > top /\ top - 1 + 1 = top
    BY <1>1
  <2>2. IsFiniteSet(1 .. top) /\ Cardinality(1 .. top) = top
    BY <2>1, FS_Interval
  <2> QED
    BY <1>3, <2>2, FS_RemoveElement DEF OtherMembers
<1>6. /\ IsFiniteSet(keys)
      /\ Cardinality(keys) \in Nat
      /\ Cardinality(keys) = Cardinality(others) => keys = others
  BY <1>4, <1>5, FS_Subset, FS_CardinalityType
<1>7. Cardinality(DOMAIN self.assigned_endpoints) = Cardinality(keys)
  BY <1>6, MapsSameSize DEF MemberOK
<1>8. AllSuccessorsKnown(m, self) <=> Cardinality(keys) = top - 1
  BY <1>7 DEF AllSuccessorsKnown
<1>9. KnowsEverybody(m, self) <=> keys = others
  BY <1>4 DEF KnowsEverybody
<1> HIDE DEF keys, others
<1>10. AllSuccessorsKnown(m, self) <=> KnowsEverybody(m, self)
  BY <1>5, <1>6, <1>8, <1>9
<1>11. KnowsEverybody(m, self) => Cardinality(keys) = top - 1
  BY <1>5, <1>9
<1> QED
  BY <1>3, <1>4, <1>6, <1>7, <1>10, <1>11 DEF keys, others

\* The keys of a member end with the group.
LEMMA LastIdKnown ==
    ASSUME NEW H, HistoryOK(H), NEW m \in Members, NEW self, MemberOK(H, m, self),
           IsAssigned(self)
    PROVE  /\ LastKeyId(self) \in self.member_id .. member_count[Service(m)]
           /\ Len(self.group_secret) = LastKeyId(self)
           /\ self.keys_computed_count = LastKeyId(self) - self.member_id + 1
<1> DEFINE s == Service(m)
           last == LastKeyId(self)
           top == member_count[s]
<1>1. s \in Services /\ top \in Nat \ {0} /\ self.member_id \in Nat \ {0}
  BY ServiceTypes, OwnId
<1>2. /\ Len(self.group_secret) = last
      /\ self.keys_computed_count >= 1
      /\ self.keys_computed_count \in Nat
      /\ self.group_secret \in Seq(Members)
      /\ Backed(H, s, self.group_secret)
  BY DEF MemberOK, CountOK, CoreTypes
<1>3. last \in Nat /\ last >= self.member_id
  BY <1>1, <1>2 DEF LastKeyId
<1>4. last \in DOMAIN self.group_secret
  BY <1>1, <1>2, <1>3
<1>5. Gives(H, s, last, self.group_secret[last])
  BY <1>2, <1>4 DEF Backed
<1>6. last <= top
  BY <1>1, <1>3, <1>5, GivesType
<1>7. self.keys_computed_count = last - self.member_id + 1
  BY <1>1, <1>2 DEF LastKeyId
<1> QED
  BY <1>1, <1>2, <1>3, <1>6, <1>7

\* Who knows everybody, and has added the keys it can, has the group key.
LEMMA Complete ==
    ASSUME NEW H, HistoryOK(H), NEW m \in Members, NEW self, MemberOK(H, m, self),
           IsAssigned(self), ~ self.is_sponsor, Settled(self), KnowsEverybody(m, self)
    PROVE  KeyComplete(m, self) /\ LastKeyId(self) = member_count[Service(m)]
<1> DEFINE top == member_count[Service(m)]
           last == LastKeyId(self)
           id == self.member_id
<1>1. top \in Nat \ {0} /\ id \in 1 .. top /\ last \in id .. top
  BY ServiceTypes, OtherIds, LastIdKnown
<1>2. last + 1 \notin DOMAIN self.assigned_keys
  BY DEF Settled
<1>3. last = top
  <2>1. last + 1 \notin (1 .. top) \ {id}
    BY <1>2 DEF KnowsEverybody, OtherMembers
  <2> QED
    BY <1>1, <2>1
<1>4. /\ Cardinality(DOMAIN self.assigned_keys) = top - 1
      /\ Cardinality(DOMAIN self.assigned_endpoints)
            = Cardinality(DOMAIN self.assigned_keys)
  BY OtherIds
<1>5. self.keys_computed_count = top - id + 1
  BY <1>3, LastIdKnown
<1> HIDE DEF top, id
<1>6. top - 1 + 1 = top
  BY <1>1 DEF top
<1> QED
  BY <1>3, <1>4, <1>5, <1>6 DEF KeyComplete, top, id

LEMMA LastSettled ==
    ASSUME NEW H, HistoryOK(H), NEW m \in Members, NEW self, MemberOK(H, m, self),
           IsLastMember(m, self)
    PROVE  Settled(self) /\ PredecessorsKnown(m, self)
<1>1. IsAssigned(self) /\ self.member_id = member_count[Service(m)]
  BY DEF IsLastMember
<1>2. /\ LastKeyId(self) \in self.member_id .. member_count[Service(m)]
      /\ DOMAIN self.assigned_keys \subseteq OtherMembers(m, self)
      /\ member_count[Service(m)] \in Nat
  BY <1>1, LastIdKnown, OtherIds, ServiceTypes
<1>3. LastKeyId(self) + 1 \notin OtherMembers(m, self)
  BY <1>1, <1>2 DEF OtherMembers
<1> QED
  BY <1>2, <1>3 DEF Settled, PredecessorsKnown

-----------------------------------------------------------------------------
(***************************************************************************)
(* The parts of the handlers that say nothing of the token and finish.     *)
(***************************************************************************)
TokenHandlers == {"token", "finish", "founder_finish"}

OnlyPending(a, b) == \A h \in TokenHandlers : Some(b, {h}) => Some(a, {h})

SameSynch(a, b) ==
    /\ b.synch_token_rcvd = a.synch_token_rcvd
    /\ b.synch_finished = a.synch_finished
    /\ b.finish_message_rcvd = a.finish_message_rcvd

Keeps(a, b) ==
    /\ DOMAIN a.assigned_keys \subseteq DOMAIN b.assigned_keys
    /\ IsAssigned(a) => b.member_id = a.member_id

Quiet(m, a, b) ==
    /\ SameSynch(a, b)
    /\ OnlyPending(a, b)
    /\ Keeps(a, b)
    /\ PredecessorsKnown(m, a) => PredecessorsKnown(m, b)

LEMMA QuietTrans ==
    ASSUME NEW m, NEW a, NEW b, NEW c, Quiet(m, a, b), Quiet(m, b, c)
    PROVE  Quiet(m, a, c)
BY DEF Quiet, SameSynch, OnlyPending, Keeps, IsAssigned

LEMMA QuietSame ==
    ASSUME NEW m, NEW a, NEW b, SameKeys(a, b), b.is_sponsor = a.is_sponsor,
           SameSynch(a, b), OnlyPending(a, b)
    PROVE  Quiet(m, a, b) /\ (Settled(b) <=> Settled(a))
BY DEF Quiet, Keeps, SameKeys, Settled, PredecessorsKnown, IsAssigned, IsLastMember, LastKeyId

LEMMA SamePending ==
    ASSUME NEW a, NEW b, SameTimers(a, b)
    PROVE  OnlyPending(a, b)
BY DEF OnlyPending, SameTimers, Some, At

\* Arming the timer leaves what is queued there.
LEMMA AwaitKinds ==
    ASSUME NEW self, DOMAIN self = Fields, self.scatter_queue \in Seq(Handlers),
           NEW h, NEW k \in TokenHandlers, Some(Await(self, h), {k})
    PROVE  h = k \/ Some(self, {k})
<1> DEFINE next == Await(self, h)
           queue == self.scatter_queue
           added == Aborted(self)
<1>1. next.scatter_wait = h /\ next.scatter_queue = queue \o added
  BY DEF Await, Fields
<1>2. added \in Seq({"request_aborted", "info_aborted"})
  <2>1. added \in {<<>>, <<"request_aborted">>, <<"info_aborted">>}
    BY DEF Aborted
  <2> DEFINE S == {"request_aborted", "info_aborted"}
  <2>2. "request_aborted" \in S /\ "info_aborted" \in S
    OBVIOUS
  <2> HIDE DEF added, S
  <2>3. <<>> \in Seq(S) /\ <<"request_aborted">> \in Seq(S) /\ <<"info_aborted">> \in Seq(S)
    BY <2>2
  <2> QED
    BY <2>1, <2>3 DEF S
<1>3. PICK j \in 0 .. Len(queue \o added) : At(next, j) = k
  BY <1>1 DEF Some
<1> HIDE DEF next, added
<1>4. queue \in Seq(Handlers) /\ Len(queue \o added) = Len(queue) + Len(added)
  BY <1>2
<1>5. CASE j = 0
  BY <1>1, <1>3, <1>5 DEF At
<1>6. CASE j # 0 /\ j <= Len(queue)
  <2>1. (queue \o added)[j] = queue[j] /\ j \in 0 .. Len(queue)
    BY <1>2, <1>4, <1>6
  <2>2. At(self, j) = k
    BY <1>1, <1>3, <1>6, <2>1 DEF At
  <2> QED
    BY <2>1, <2>2 DEF Some
<1>7. CASE j > Len(queue)
  <2>1. (queue \o added)[j] = added[j - Len(queue)] /\ j - Len(queue) \in 1 .. Len(added) /\ j # 0
    BY <1>2, <1>3, <1>4, <1>7
  <2>2. added[j - Len(queue)] = k
    BY <1>1, <1>3, <2>1 DEF At
  <2>3. k \in {"request_aborted", "info_aborted"}
    BY <1>2, <2>1, <2>2
  <2> QED
    BY <2>3 DEF TokenHandlers
<1> QED
  BY <1>4, <1>5, <1>6, <1>7

LEMMA QuietArm ==
    ASSUME NEW m, NEW self, DOMAIN self = Fields, self.scatter_queue \in Seq(Handlers),
           NEW h, h \notin TokenHandlers
    PROVE  Quiet(m, self, Await(self, h)) /\ (Settled(Await(self, h)) <=> Settled(self))
<1> DEFINE next == Await(self, h)
<1>1. OnlyPending(self, next)
  BY AwaitKinds DEF OnlyPending
<1>2. SameKeys(self, next) /\ next.is_sponsor = self.is_sponsor /\ SameSynch(self, next)
  BY DEF Await, Fields, SameKeys, SameSynch
<1> HIDE DEF next
<1> QED
  BY <1>1, <1>2, QuietSame DEF next

LEMMA GoodQueue ==
    ASSUME IInv, NEW m \in Members, NEW self, Good(m, self)
    PROVE  DOMAIN self = Fields /\ self.scatter_queue \in Seq(Handlers)
BY GoodMember DEF Good, TimersOK, TimerTypes

LEMMA QuietAwait ==
    ASSUME IInv, NEW m \in Members, NEW self, Good(m, self), NEW h, h \notin TokenHandlers
    PROVE  Quiet(m, self, Await(self, h)) /\ (Settled(Await(self, h)) <=> Settled(self))
BY GoodQueue, QuietArm

\* A member that has no sponsor's role ends with no key left to add.
LEMMA QuietAddKeys ==
    ASSUME IInv, NEW m \in Members, NEW self, Good(m, self),
           NEW next \in CheckAndAddNextBlindedKeys(self)
    PROVE  Quiet(m, self, next) /\ Settled(next)
<1>1. DOMAIN self = Fields /\ self.member_id \in Nat
  BY GoodMember DEF CoreTypes
<1>2. CASE ~ (~ self.is_sponsor /\ IsAssigned(self))
  <2>1. next = self
    BY <1>2 DEF CheckAndAddNextBlindedKeys
  <2> QED
    BY <1>2, <2>1 DEF Quiet, SameSynch, OnlyPending, Keeps, Settled
<1>3. CASE ~ self.is_sponsor /\ IsAssigned(self)
  <2>1. PICK top \in LastAdded(self) : next = AddKeys(self, top)
    BY <1>3 DEF CheckAndAddNextBlindedKeys
  <2>2. /\ next.assigned_keys = self.assigned_keys
        /\ next.is_sponsor = self.is_sponsor
        /\ next.member_id = self.member_id
        /\ next.keys_computed_count = top - self.member_id + 1
        /\ SameSynch(self, next)
        /\ SameTimers(self, next)
    BY <1>1, <2>1 DEF AddKeys, Fields, SameSynch, SameTimers
  <2>3. top + 1 \notin DOMAIN self.assigned_keys /\ top \in Int
    <3>1. self.keys_computed_count \in Nat
      BY GoodMember DEF CoreTypes
    <3> QED
      BY <1>1, <2>1, <3>1 DEF LastAdded, LastKeyId
  <2>4. LastKeyId(next) = top
    BY <1>1, <2>2, <2>3 DEF LastKeyId
  <2>5. OnlyPending(self, next)
    BY <2>2, SamePending
  <2> QED
    BY <2>2, <2>3, <2>4, <2>5
    DEF Quiet, Keeps, Settled, PredecessorsKnown, IsAssigned, IsLastMember
<1> QED
  BY <1>2, <1>3

-----------------------------------------------------------------------------
(***************************************************************************)
(* What a member learns of others.                                         *)
(***************************************************************************)
Learns(a, b) ==
    /\ DOMAIN b = DOMAIN a
    /\ DOMAIN a.assigned_keys \subseteq DOMAIN b.assigned_keys
    /\ b.member_id = a.member_id
    /\ b.is_sponsor = a.is_sponsor
    /\ SameSynch(a, b)
    /\ SameTimers(a, b)

LEMMA QuietLearns ==
    ASSUME NEW m, NEW a, NEW b, Learns(a, b)
    PROVE  Quiet(m, a, b)
<1>1. OnlyPending(a, b)
  BY SamePending DEF Learns
<1> QED
  BY <1>1 DEF Learns, Quiet, Keeps, PredecessorsKnown, IsAssigned, IsLastMember

LEMMA LearnsNote ==
    ASSUME NEW m, NEW self, DOMAIN self = Fields, NEW e, NEW id
    PROVE  Learns(self, Note(m, self, e, id))
<1> DEFINE next == Note(m, self, e, id)
<1>1. CASE e = m \/ e \in DOMAIN self.assigned_endpoints
  <2>1. next = self
    BY <1>1 DEF Note
  <2> QED
    BY <2>1 DEF Learns, SameSynch, SameTimers
<1>2. CASE ~ (e = m \/ e \in DOMAIN self.assigned_endpoints)
  <2>1. /\ next.assigned_keys = Put(self.assigned_keys, id, e)
        /\ DOMAIN next = Fields
        /\ next.member_id = self.member_id
        /\ next.is_sponsor = self.is_sponsor
        /\ SameSynch(self, next)
        /\ SameTimers(self, next)
    BY <1>2 DEF Note, Fields, SameSynch, SameTimers
  <2>2. DOMAIN next.assigned_keys = DOMAIN self.assigned_keys \cup {id}
    BY <2>1 DEF Put
  <2> QED
    BY <2>1, <2>2 DEF Learns
<1> QED
  BY <1>1, <1>2

LEMMA LearnsPending ==
    ASSUME NEW self, DOMAIN self = Fields, NEW set
    PROVE  Learns(self, [self EXCEPT !.pending_requests = set])
BY DEF Learns, Fields, SameSynch, SameTimers

LEMMA LearnsTrans ==
    ASSUME NEW a, NEW b, NEW c, Learns(a, b), Learns(b, c)
    PROVE  Learns(a, c)
BY DEF Learns, SameSynch, SameTimers

LEMMA LearnsLearn ==
    ASSUME NEW m, NEW self, DOMAIN self = Fields, NEW msg
    PROVE  Learns(self, Learn(m, self, msg))
<1> DEFINE new == Note(m, self, msg.new_sponsor, msg.assigned_id)
           old == Note(m, new, msg.from, msg.assigned_id - 1)
           next == [old EXCEPT !.pending_requests = @ \ {msg.new_sponsor, msg.from}]
<1>1. Learns(self, new)
  BY LearnsNote
<1>2. DOMAIN new = Fields
  BY <1>1 DEF Learns
<1> HIDE DEF new
<1>3. Learns(new, old)
  BY <1>2, LearnsNote
<1>4. DOMAIN old = Fields
  BY <1>2, <1>3 DEF Learns
<1> HIDE DEF old
<1>5. Learns(old, next)
  BY <1>4, LearnsPending
<1>6. next = Learn(m, self, msg)
  BY DEF Learn, new, old
<1> HIDE DEF next
<1>7. Learns(self, next)
  BY <1>1, <1>3, <1>5, LearnsTrans
<1> QED
  BY <1>6, <1>7

\* A response makes a sponsor of its addressee only.
LEMMA QuietAfterResponse ==
    ASSUME NEW m, NEW self, DOMAIN self = Fields, NEW msg
    PROVE  Quiet(m, self, AfterResponse(m, self, msg))
<1> DEFINE learnt == Learn(m, self, msg)
           next == TakeOver(m, learnt, msg)
<1>1. Learns(self, learnt)
  BY LearnsLearn
<1> HIDE DEF learnt
<1>2. Quiet(m, self, learnt) /\ Quiet(m, self, self)
  BY <1>1, QuietLearns DEF Quiet, SameSynch, OnlyPending, Keeps
<1>3. CASE AfterResponse(m, self, msg) \in {self, learnt}
  BY <1>2, <1>3
<1>4. CASE AfterResponse(m, self, msg) = next /\ ~ IsAssigned(learnt)
  <2>1. DOMAIN learnt = Fields
    BY <1>1 DEF Learns
  <2>2. /\ next.is_sponsor = TRUE
        /\ next.assigned_keys = learnt.assigned_keys
        /\ SameSynch(learnt, next)
        /\ SameTimers(learnt, next)
    BY <2>1 DEF TakeOver, Fields, SameSynch, SameTimers
  <2>3. OnlyPending(learnt, next)
    BY <2>2, SamePending
  <2> HIDE DEF next
  <2>4. Quiet(m, learnt, next)
    BY <1>4, <2>2, <2>3 DEF Quiet, Keeps, PredecessorsKnown
  <2> QED
    BY <1>2, <1>4, <2>4, QuietTrans
<1> QED
  BY <1>3, <1>4 DEF AfterResponse, BecomeSponsor, Addressed, learnt

LEMMA QuietLearnInfo ==
    ASSUME IInv, NEW m \in Members, member[m].status = "running",
           NEW n \in Members \ {m}, NEW msg \in net[n],
           msg.type \in {"info_response", "synch_response"},
           NEW next \in LearnInfo(m, member[m], msg), LocalOK(m, member[m])
    PROVE  Quiet(m, member[m], next) /\ Settled(next)
<1> DEFINE old == member[m]
           noted == Note(m, old, msg.from, msg.member_id)
           self == [noted EXCEPT !.pending_requests = @ \ {msg.from}]
<1>1. Good(m, old) /\ DOMAIN old = Fields
  BY GoodStart, GoodMember
<1>2. \/ next = old
      \/ msg.service = Service(m) /\ next \in CheckAndAddNextBlindedKeys(self)
  BY DEF LearnInfo
<1>3. CASE next = old
  <2>1. Quiet(m, old, old) /\ Settled(old)
    BY DEF Quiet, SameSynch, OnlyPending, Keeps, LocalOK
  <2> QED
    BY <1>3, <2>1
<1>4. CASE msg.service = Service(m) /\ next \in CheckAndAddNextBlindedKeys(self)
  <2>1. Learns(old, noted)
    BY <1>1, LearnsNote
  <2>2. Good(m, noted) /\ noted.pending_requests = old.pending_requests
    <3>1. Truthful(n, member[n], msg) /\ msg.from = n
      BY Received
    <3>2. IsAssigned(member[n]) /\ msg.member_id = member[n].member_id /\ Service(n) = Service(m)
      BY <1>4, <3>1 DEF Truthful
    <3>3. MemberOK(History(member), n, member[n])
      BY DEF IInv, Inv
    <3>4. Gives(History(member), Service(m), msg.member_id, n) /\ msg.member_id \in MemberIds
      BY <3>2, <3>3, OwnId DEF MemberIds, DEFAULT_MEMBER_ID
    <3>5. History([member EXCEPT ![m] = old]) = History(member)
      BY <1>1, GoodHistory
    <3> HIDE DEF old
    <3> QED
      BY <1>1, <3>1, <3>4, <3>5, GoodNote
  <2>3. DOMAIN noted = Fields
    BY <1>1, <2>1 DEF Learns
  <2>4. \A e \in noted.pending_requests \ {msg.from} :
            e \in Members /\ e # m /\ Service(e) = Service(m)
    <3>1. MemberOK(History(member), m, old)
      BY DEF IInv, Inv
    <3> QED
      BY <2>2, <3>1 DEF MemberOK, CoreTypes, PendingOK
  <2> HIDE DEF noted, old
  <2>5. Good(m, self)
    BY <2>2, <2>4, GoodPending
  <2>6. Learns(noted, self)
    BY <2>3, LearnsPending
  <2> HIDE DEF self
  <2>7. Quiet(m, old, self)
    BY <2>1, <2>6, LearnsTrans, QuietLearns
  <2>8. Quiet(m, self, next) /\ Settled(next)
    BY <1>4, <2>5, QuietAddKeys
  <2> QED
    BY <2>7, <2>8, QuietTrans DEF old
<1> QED
  BY <1>2, <1>3, <1>4

-----------------------------------------------------------------------------
(***************************************************************************)
(* process_pending_request: whoever admits another member knows all before *)
(* it, and has added the key of the one it admitted.                       *)
(***************************************************************************)
LEMMA QuietAdmitted ==
    ASSUME IInv, NEW m \in Members, NEW self, Good(m, self),
           self.is_sponsor, AllPredecessorsKnown(self), NEW e
    PROVE  Quiet(m, self, Admitted(m, self, e)) /\ Settled(Admitted(m, self, e))
<1> DEFINE mem == [member EXCEPT ![m] = self]
           H == History(mem)
           next == Admitted(m, self, e)
           id == self.member_id
<1>1. /\ MemberOK(H, m, self)
      /\ HistoryOK(H)
      /\ DOMAIN self = Fields
      /\ mem[m] = self
      /\ CoreTypes(self)
  BY GoodMember
<1>2. IsAssigned(self) /\ id \in Nat \ {0}
  BY <1>1 DEF MemberOK, CountOK, CoreTypes, IsAssigned, DEFAULT_MEMBER_ID
<1>3. \A x \in H : x.service = Service(m) => x.assigned_id <= id
  <2>1. Inv(mem) /\ Service(m) \in Services
    BY ServiceTypes DEF Good
  <2>2. IsSponsor(mem, Service(m), m)
    BY <1>1 DEF IsSponsor
  <2> HIDE DEF mem
  <2> QED
    BY <1>1, <2>1, <2>2 DEF Inv, BatonOK, SponsorHighest
<1> HIDE DEF H
<1>4. DOMAIN self.assigned_keys = 1 .. id - 1
  BY <1>1, <1>2, <1>3, SponsorKeys
<1>5. self.keys_computed_count = 1
  <2>1. LastKeyId(self) = id /\ self.keys_computed_count \in Nat
    BY <1>1, <1>2 DEF MemberOK, CountOK, SponsorOK, CoreTypes
  <2> QED
    BY <1>2, <2>1 DEF LastKeyId
<1>6. /\ next.is_sponsor = FALSE
      /\ next.member_id = id
      /\ next.assigned_keys = Put(self.assigned_keys, id + 1, e)
      /\ next.keys_computed_count = self.keys_computed_count + 1
      /\ SameSynch(self, next)
      /\ SameTimers(self, next)
  BY <1>1 DEF Admitted, HandOver, Fields, SameSynch, SameTimers
<1>7. DOMAIN next.assigned_keys = (1 .. id - 1) \cup {id + 1}
  BY <1>4, <1>6 DEF Put
<1> HIDE DEF next
<1>8. OnlyPending(self, next)
  BY <1>6, SamePending
<1>9. LastKeyId(next) + 1 = id + 2
  BY <1>2, <1>5, <1>6 DEF LastKeyId
<1>10. Settled(next)
  BY <1>2, <1>7, <1>9 DEF Settled
<1>11. PredecessorsKnown(m, next)
  BY <1>6, <1>7 DEF PredecessorsKnown
<1>12. Keeps(self, next)
  BY <1>4, <1>6, <1>7 DEF Keeps
<1> QED
  BY <1>6, <1>8, <1>10, <1>11, <1>12 DEF Quiet, next

\* A handler of m goes on to next and says nothing of the token and finish.
Hushed(m, self) ==
    \E next, msgs :
        /\ Become(m, next, msgs)
        /\ Quiet(m, self, next)
        /\ Settled(next)
        /\ \A msg \in msgs : msg.type \notin {"synch_token", "finish"}

LEMMA HushedSame ==
    ASSUME NEW m, NEW self, Settled(self), Become(m, self, {})
    PROVE  Hushed(m, self)
<1>1. Quiet(m, self, self)
  BY DEF Quiet, SameSynch, OnlyPending, Keeps
<1> QED
  BY <1>1 DEF Hushed

LEMMA HushedPending ==
    ASSUME IInv, NEW m \in Members, NEW self, Good(m, self), Settled(self),
           self.is_sponsor => self.member_id < member_count[Service(m)],
           ProcessPendingRequest(m, self)
    PROVE  Hushed(m, self)
<1>1. CASE Become(m, self, {})
  BY <1>1, HushedSame
<1>2. CASE Become(m, Await(self, "predecessors"), {InfoRequest(m, UnknownPredecessors(self))})
  <2>1. InfoRequest(m, UnknownPredecessors(self)).type = "info_request"
    BY DEF InfoRequest
  <2>2. "predecessors" \notin TokenHandlers
    BY DEF TokenHandlers
  <2> QED
    BY <1>2, <2>1, <2>2, QuietAwait DEF Hushed
<1>3. CASE Become(m, Await([self EXCEPT !.pending_requests = {}], "offer"), {Offer(m)})
  <2> DEFINE mid == [self EXCEPT !.pending_requests = {}]
  <2>1. Good(m, mid)
    BY GoodPending
  <2>2. Quiet(m, self, mid) /\ Settled(mid)
    <3>1. DOMAIN self = Fields
      BY GoodMember
    <3>2. /\ SameKeys(self, mid)
          /\ mid.is_sponsor = self.is_sponsor
          /\ SameSynch(self, mid)
          /\ SameTimers(self, mid)
      BY <3>1 DEF SameKeys, SameSynch, SameTimers, Fields
    <3> QED
      BY <3>2, SamePending, QuietSame
  <2> HIDE DEF mid
  <2>3. "offer" \notin TokenHandlers /\ Offer(m).type = "offer"
    BY DEF TokenHandlers, Offer
  <2>4. Quiet(m, mid, Await(mid, "offer")) /\ Settled(Await(mid, "offer"))
    BY <2>1, <2>2, <2>3, QuietAwait
  <2>5. Quiet(m, self, Await(mid, "offer"))
    BY <2>2, <2>4, QuietTrans
  <2> QED
    BY <1>3, <2>3, <2>4, <2>5 DEF Hushed, mid
<1>4. CASE /\ self.is_sponsor
           /\ AllPredecessorsKnown(self)
           /\ \E e \in Unassigned(self) : Admit(m, self, e)
  <2>1. PICK e \in Unassigned(self) : Admit(m, self, e)
    BY <1>4
  <2> DEFINE mid == Admitted(m, self, e)
             next == Await(mid, "response")
             x == Response(m, self, e)
  <2>2. Good(m, mid)
    BY <1>4, GoodAdmitted
  <2>3. Quiet(m, self, mid) /\ Settled(mid)
    BY <1>4, QuietAdmitted
  <2>4. Become(m, next, {x})
    BY <2>1 DEF Admit, Admitted
  <2>5. x.type = "response" /\ "response" \notin TokenHandlers
    BY DEF Response, TokenHandlers
  <2> HIDE DEF mid, x
  <2>6. Quiet(m, mid, next) /\ Settled(next)
    BY <2>2, <2>3, <2>5, QuietAwait
  <2>7. Quiet(m, self, next)
    BY <2>3, <2>6, QuietTrans
  <2> HIDE DEF next
  <2> QED
    BY <2>4, <2>5, <2>6, <2>7 DEF Hushed
<1> QED
  BY <1>1, <1>2, <1>3, <1>4 DEF ProcessPendingRequest

-----------------------------------------------------------------------------
(***************************************************************************)
(* What a handler of m says of the token and finish: m learns of them from *)
(* messages, and sends them when its state says the same.                  *)
(***************************************************************************)
Heard(id) ==
    \E n \in Members : \E msg \in net[n] : msg.type = "synch_token" /\ msg.member_id = id

Finishes(m) == \E n \in Members : \E msg \in net[n] : ProcessFinish(m, msg)

Goes(m, old, next) ==
    /\ Keeps(old, next)
    /\ LocalOK(m, next)
    /\ old.synch_token_rcvd => next.synch_token_rcvd
    /\ next.synch_token_rcvd => old.synch_token_rcvd \/ Heard(next.member_id)
    /\ next.synch_finished =>
          \/ old.synch_finished
          \/ IsLastMember(m, next)
          \/ next.synch_token_rcvd /\ KnowsEverybody(m, next)
    /\ next.finish_message_rcvd => old.finish_message_rcvd \/ Finishes(m)

Says(m, self, msg) ==
    /\ msg.type = "synch_token" =>
          /\ self.synch_finished
          /\ msg.member_id = IF self.member_id # member_count[Service(m)]
                             THEN self.member_id + 1
                             ELSE 1
    /\ msg.type = "finish" =>
          \/ self.finish_message_rcvd
          \/ IsLastMember(m, self) /\ self.synch_token_rcvd

Told(m) ==
    \E next, msgs :
        /\ Become(m, next, msgs)
        /\ Goes(m, member[m], next)
        /\ \A msg \in msgs : Says(m, next, msg)

LEMMA QuietGoes ==
    ASSUME NEW m, NEW old, NEW next, LocalOK(m, old), Quiet(m, old, next), Settled(next)
    PROVE  Goes(m, old, next)
<1>1. PredecessorsKnown(m, next)
  BY DEF LocalOK, Quiet
<1>2. IsLastMember(m, old) => IsLastMember(m, next)
  BY DEF Quiet, Keeps, IsLastMember, IsAssigned
<1>3. IsAssigned(old) => IsAssigned(next)
  BY DEF Quiet, Keeps, IsAssigned
<1>4. \A h \in {"token", "finish", "founder_finish"} : Some(next, {h}) => Some(old, {h})
  BY DEF Quiet, OnlyPending, TokenHandlers
<1>5. TimersTell(m, next)
  BY <1>2, <1>3, <1>4 DEF LocalOK, TimersTell, Quiet, SameSynch
<1> QED
  BY <1>1, <1>5 DEF Goes, LocalOK, Quiet, SameSynch

LEMMA HushedTold ==
    ASSUME NEW m, NEW self, LocalOK(m, member[m]), Quiet(m, member[m], self), Hushed(m, self)
    PROVE  Told(m)
<1>1. PICK next, msgs :
          /\ Become(m, next, msgs)
          /\ Quiet(m, self, next)
          /\ Settled(next)
          /\ \A msg \in msgs : msg.type \notin {"synch_token", "finish"}
  BY DEF Hushed
<1>2. Goes(m, member[m], next)
  BY <1>1, QuietTrans, QuietGoes
<1>3. \A msg \in msgs : Says(m, next, msg)
  BY <1>1 DEF Says
<1> QED
  BY <1>1, <1>2, <1>3 DEF Told

-----------------------------------------------------------------------------
(***************************************************************************)
(* The handlers of messages that say nothing of the token and finish.      *)
(***************************************************************************)
LEMMA QuietFlags ==
    ASSUME NEW m, NEW a, NEW b, SameKeys(a, b), b.is_sponsor = a.is_sponsor,
           SameTimers(a, b), SameSynch(a, b)
    PROVE  Quiet(m, a, b) /\ (Settled(b) <=> Settled(a))
BY SamePending, QuietSame

LEMMA QuietCheck ==
    ASSUME IInv, NEW m \in Members, member[m].status = "running", NEW n
    PROVE  LET next == CheckIfHigherMemberIdAssigned(m, member[m], n)
           IN  /\ Good(m, next)
               /\ SameCore(member[m], next)
               /\ Quiet(m, member[m], next)
               /\ Settled(next) <=> Settled(member[m])
<1> DEFINE old == member[m]
           next == CheckIfHigherMemberIdAssigned(m, old, n)
<1>1. Good(m, next) /\ SameCore(old, next)
  BY GoodCheck
<1>2. DOMAIN old = Fields
  BY GoodStart, GoodMember
<1>3. SameTimers(old, next) /\ SameSynch(old, next)
  BY <1>2 DEF CheckIfHigherMemberIdAssigned, Fields, SameTimers, SameSynch
<1> HIDE DEF next
<1>4. Quiet(m, old, next) /\ (Settled(next) <=> Settled(old))
  BY <1>1, <1>3, QuietFlags DEF SameCore
<1> QED
  BY <1>1, <1>4 DEF next

\* A scheduled answer is neither the token nor finish.
LEMMA QuietScheduled ==
    ASSUME IInv, NEW m \in Members, NEW self, Good(m, self), NEW mid, NEW h,
           SameKeys(self, mid), mid.is_sponsor = self.is_sponsor, SameSynch(self, mid),
           mid.scatter_wait = self.scatter_wait, mid.scatter_queue = self.scatter_queue,
           h \notin TokenHandlers, Settled(self), Become(m, Await(mid, h), {})
    PROVE  Hushed(m, self)
<1> DEFINE next == Await(mid, h)
<1>1. DOMAIN mid = Fields /\ mid.scatter_queue \in Seq(Handlers)
  BY GoodQueue DEF SameKeys
<1>2. OnlyPending(self, mid)
  BY DEF OnlyPending, Some, At
<1>3. Quiet(m, self, mid) /\ Settled(mid)
  BY <1>2, QuietSame
<1>4. Quiet(m, mid, next) /\ Settled(next)
  BY <1>1, <1>3, QuietArm
<1> HIDE DEF next
<1>5. Quiet(m, self, next)
  BY <1>3, <1>4, QuietTrans
<1> QED
  BY <1>4, <1>5 DEF Hushed, next

LEMMA OfferTold ==
    ASSUME IInv, NEW m \in Members, member[m].status = "running", LocalOK(m, member[m]),
           NEW msg, ProcessOffer(m, msg)
    PROVE  Told(m)
<1> DEFINE self == CheckIfHigherMemberIdAssigned(m, member[m], msg.from)
           mid == [self EXCEPT !.request_scheduled = TRUE]
<1>1. Good(m, self) /\ Quiet(m, member[m], self) /\ Settled(self)
  BY QuietCheck DEF LocalOK
<1>2. \/ Become(m, Await(mid, "request"), {})
      \/ Become(m, self, {})
  BY DEF ProcessOffer
<1> HIDE DEF self
<1>3. CASE Become(m, self, {})
  BY <1>1, <1>3, HushedSame, HushedTold
<1>4. CASE Become(m, Await(mid, "request"), {})
  <2>1. DOMAIN self = Fields
    BY <1>1, GoodMember
  <2>2. /\ SameKeys(self, mid)
        /\ mid.is_sponsor = self.is_sponsor
        /\ SameSynch(self, mid)
        /\ mid.scatter_wait = self.scatter_wait
        /\ mid.scatter_queue = self.scatter_queue
    BY <2>1 DEF SameKeys, SameSynch, Fields
  <2>3. "request" \notin TokenHandlers
    BY DEF TokenHandlers
  <2> HIDE DEF mid
  <2>4. Hushed(m, self)
    BY <1>1, <1>4, <2>2, <2>3, QuietScheduled
  <2> QED
    BY <1>1, <2>4, HushedTold
<1> QED
  BY <1>2, <1>3, <1>4

LEMMA ScheduleHushed ==
    ASSUME IInv, NEW m \in Members, NEW self, Good(m, self), Settled(self),
           NEW msg, NEW h \in {"info", "synch_info"},
           Become(m, ScheduleResponse(m, self, msg, h), {})
    PROVE  Hushed(m, self)
<1> DEFINE mid == [self EXCEPT !.response_scheduled = TRUE]
<1>1. Become(m, Await(mid, h), {}) \/ Become(m, self, {})
  BY DEF ScheduleResponse
<1>2. CASE Become(m, self, {})
  BY <1>2, HushedSame
<1>3. CASE Become(m, Await(mid, h), {})
  <2>1. DOMAIN self = Fields
    BY GoodMember
  <2>2. /\ SameKeys(self, mid)
        /\ mid.is_sponsor = self.is_sponsor
        /\ SameSynch(self, mid)
        /\ mid.scatter_wait = self.scatter_wait
        /\ mid.scatter_queue = self.scatter_queue
    BY <2>1 DEF SameKeys, SameSynch, Fields
  <2>3. h \notin TokenHandlers
    BY DEF TokenHandlers
  <2> HIDE DEF mid
  <2> QED
    BY <1>3, <2>2, <2>3, QuietScheduled
<1> QED
  BY <1>1, <1>2, <1>3

LEMMA InfoRequestTold ==
    ASSUME IInv, NEW m \in Members, member[m].status = "running", LocalOK(m, member[m]),
           NEW msg, ProcessMemberInfoRequest(m, msg)
    PROVE  Told(m)
<1> DEFINE self == CheckIfHigherMemberIdAssigned(m, member[m], msg.from)
<1>1. Good(m, self) /\ Quiet(m, member[m], self) /\ Settled(self)
  BY QuietCheck DEF LocalOK
<1>2. Become(m, ScheduleResponse(m, self, msg, "info"), {})
  BY DEF ProcessMemberInfoRequest
<1> HIDE DEF self
<1>3. Hushed(m, self)
  BY <1>1, <1>2, ScheduleHushed
<1> QED
  BY <1>1, <1>3, HushedTold

LEMMA SynchRequestTold ==
    ASSUME IInv, NEW m \in Members, member[m].status = "running", LocalOK(m, member[m]),
           NEW msg, ProcessMemberInfoSynchRequest(m, msg)
    PROVE  Told(m)
<1> DEFINE old == member[m]
           self == [old EXCEPT
                      !.higher_member_id_assigned = TRUE,
                      !.higher_member_id_synching = @ \/ KnownLater(m, old, msg.from)]
<1>1. Good(m, old) /\ DOMAIN old = Fields /\ Settled(old)
  BY GoodStart, GoodMember DEF LocalOK
<1>2. Become(m, ScheduleResponse(m, self, msg, "synch_info"), {})
  BY DEF ProcessMemberInfoSynchRequest
<1> HIDE DEF old
<1>3. /\ SameCore(old, self)
      /\ SameTimers(old, self)
      /\ SameSynch(old, self)
      /\ self.last_member_synch_token_sending_triggered
            = old.last_member_synch_token_sending_triggered
  BY <1>1 DEF SameCore, SameKeys, SameTimers, SameSynch, Fields
<1> HIDE DEF self
<1>4. Good(m, self)
  BY <1>1, <1>3, GoodFlags
<1>5. Quiet(m, old, self) /\ Settled(self)
  BY <1>1, <1>3, QuietFlags DEF SameCore
<1>6. Hushed(m, self)
  BY <1>2, <1>4, <1>5, ScheduleHushed
<1> QED
  BY <1>5, <1>6, HushedTold DEF old

\* A request is noted and, by the founder, timed.
LEMMA RequestTold ==
    ASSUME IInv, NEW m \in Members, member[m].status = "running", LocalOK(m, member[m]),
           NEW n \in Members \ {m}, NEW msg \in net[n], ProcessRequest(m, msg)
    PROVE  Told(m)
<1> DEFINE old == member[m]
           noted == NoteRequest(m, old, msg)
           recorded == RecordTimestamp(noted, "KEY_AGREEMENT_START")
<1>1. msg.from = n /\ (msg.type = "request" => msg.service = Service(n))
  BY Received DEF Truthful
<1>2. Good(m, old) /\ DOMAIN old = Fields /\ Settled(old)
  BY GoodStart, GoodMember DEF LocalOK
<1>3. /\ Good(m, noted)
      /\ noted.is_sponsor = old.is_sponsor
      /\ noted.member_id = old.member_id
      /\ Quiet(m, old, noted)
      /\ Settled(noted)
  <2> DEFINE set == old.pending_requests \cup {n}
  <2>1. CASE noted = old
    <3>1. Quiet(m, old, old)
      BY DEF Quiet, SameSynch, OnlyPending, Keeps
    <3> QED
      BY <1>2, <2>1, <3>1
  <2>2. CASE noted = [old EXCEPT !.pending_requests = set] /\ msg.service = Service(m)
    <3>1. \A e \in set : e \in Members /\ e # m /\ Service(e) = Service(m)
      <4>1. MemberOK(History(member), m, old)
        BY DEF IInv, Inv
      <4> QED
        BY <1>1, <2>2, <4>1 DEF MemberOK, CoreTypes, PendingOK, ProcessRequest
    <3>2. /\ SameKeys(old, noted)
          /\ noted.is_sponsor = old.is_sponsor
          /\ SameTimers(old, noted)
          /\ SameSynch(old, noted)
      BY <1>2, <2>2 DEF SameKeys, SameTimers, SameSynch, Fields
    <3> HIDE DEF old, set, noted
    <3>3. Good(m, noted) /\ noted.is_sponsor = old.is_sponsor /\ noted.member_id = old.member_id
      BY <1>2, <2>2, <3>1, GoodPending
    <3> QED
      BY <1>2, <3>2, <3>3, QuietFlags
  <2> QED
    BY <1>1, <2>1, <2>2 DEF NoteRequest
<1>4. noted.is_sponsor => noted.member_id < member_count[Service(m)]
  BY <1>3, RoomKept
<1>5. DOMAIN noted = Fields /\ noted.status = "running"
  BY <1>3, GoodMember DEF Good
<1>6. \/ /\ recorded.status = "crashed"
         /\ Become(m, recorded, {})
      \/ /\ recorded.status # "crashed"
         /\ ProcessPendingRequest(m, recorded)
      \/ ProcessPendingRequest(m, noted)
  BY <1>5 DEF ProcessRequest
<1> HIDE DEF noted
<1>7. /\ SameKeys(noted, recorded)
      /\ recorded.status \in {"running", "crashed"}
      /\ recorded.is_sponsor = noted.is_sponsor
      /\ recorded.blinded_group_secret = noted.blinded_group_secret
      /\ recorded.pending_requests = noted.pending_requests
      /\ recorded.response_message_cache = noted.response_message_cache
      /\ SameTimers(noted, recorded)
      /\ SameSynch(noted, recorded)
      /\ recorded.last_member_synch_token_sending_triggered
            = noted.last_member_synch_token_sending_triggered
  BY <1>5 DEF RecordTimestamp, SameKeys, SameTimers, SameSynch, Fields
<1> HIDE DEF recorded
<1>8. Quiet(m, noted, recorded) /\ Settled(recorded)
  BY <1>3, <1>7, QuietFlags
<1>9. Quiet(m, old, recorded)
  BY <1>3, <1>8, QuietTrans
<1>10. CASE Become(m, recorded, {})
  BY <1>8, <1>9, <1>10, HushedSame, HushedTold
<1>11. CASE recorded.status # "crashed" /\ ProcessPendingRequest(m, recorded)
  <2>1. SameCore(noted, recorded)
    BY <1>5, <1>7, <1>11 DEF SameCore
  <2>2. Good(m, recorded)
    BY <1>3, <1>7, <2>1, GoodFlags
  <2>3. Hushed(m, recorded)
    BY <1>4, <1>7, <1>8, <1>11, <2>2, HushedPending DEF SameKeys
  <2> QED
    BY <1>9, <2>3, HushedTold
<1>12. CASE ProcessPendingRequest(m, noted)
  BY <1>3, <1>4, <1>12, HushedPending, HushedTold
<1> QED
  BY <1>6, <1>10, <1>11, <1>12

LEMMA InfoResponseTold ==
    ASSUME IInv, NEW m \in Members, member[m].status = "running", LocalOK(m, member[m]),
           NEW n \in Members \ {m}, NEW msg \in net[n], ProcessMemberInfoResponse(m, msg)
    PROVE  Told(m)
<1>1. PICK self \in LearnInfo(m, member[m], msg) :
          IF self.is_sponsor /\ AllPredecessorsKnown(self)
          THEN ProcessPendingRequest(m, self)
          ELSE Become(m, self, {})
  BY DEF ProcessMemberInfoResponse
<1>2. /\ Good(m, self)
      /\ self.is_sponsor = member[m].is_sponsor
      /\ self.member_id = member[m].member_id
      /\ Quiet(m, member[m], self)
      /\ Settled(self)
  BY GoodLearnInfo, QuietLearnInfo DEF ProcessMemberInfoResponse
<1>3. self.is_sponsor => self.member_id < member_count[Service(m)]
  BY <1>2, RoomKept
<1>4. Hushed(m, self)
  BY <1>1, <1>2, <1>3, HushedPending, HushedSame
<1> QED
  BY <1>2, <1>4, HushedTold

-----------------------------------------------------------------------------
(***************************************************************************)
(* The handlers of the token and finish.                                   *)
(***************************************************************************)
\* A flag is set for one of the reasons that Goes allows.
LEMMA GoesFlags ==
    ASSUME NEW m, NEW old, NEW a, NEW b, Goes(m, old, a),
           SameKeys(a, b), b.is_sponsor = a.is_sponsor, OnlyPending(a, b),
           a.synch_token_rcvd => b.synch_token_rcvd,
           b.synch_token_rcvd =>
               \/ a.synch_token_rcvd
               \/ IsAssigned(b) /\ Heard(b.member_id),
           a.synch_finished => b.synch_finished,
           b.synch_finished =>
               \/ a.synch_finished
               \/ IsLastMember(m, b)
               \/ b.synch_token_rcvd /\ KnowsEverybody(m, b),
           a.finish_message_rcvd => b.finish_message_rcvd,
           b.finish_message_rcvd => a.finish_message_rcvd \/ Finishes(m)
    PROVE  Goes(m, old, b)
<1>1. Keeps(old, b)
  BY DEF Goes, Keeps, SameKeys
<1>2. /\ IsLastMember(m, a) <=> IsLastMember(m, b)
      /\ IsAssigned(a) <=> IsAssigned(b)
      /\ KnowsEverybody(m, a) <=> KnowsEverybody(m, b)
  BY DEF SameKeys, IsLastMember, IsAssigned, KnowsEverybody, OtherMembers
<1>3. PredecessorsKnown(m, b) /\ Settled(b)
  BY <1>2 DEF Goes, LocalOK, PredecessorsKnown, Settled, SameKeys, LastKeyId
<1>4. \A h \in {"token", "finish", "founder_finish"} : Some(b, {h}) => Some(a, {h})
  BY DEF OnlyPending, TokenHandlers
<1>5. TimersTell(m, b)
  BY <1>2, <1>4 DEF Goes, LocalOK, TimersTell
<1> QED
  BY <1>1, <1>2, <1>3, <1>5 DEF Goes, LocalOK, SameKeys

\* What is repeated is what was said.
LEMMA ArmGoes ==
    ASSUME NEW m, NEW old, NEW self, Goes(m, old, self),
           DOMAIN self = Fields, self.scatter_queue \in Seq(Handlers), NEW h,
           h = "token" => self.synch_finished,
           h = "finish" => IsLastMember(m, self) /\ self.synch_token_rcvd,
           h = "founder_finish" => self.finish_message_rcvd
    PROVE  LET next == Await(self, h)
           IN  /\ Goes(m, old, next)
               /\ SameKeys(self, next)
               /\ SameSynch(self, next)
               /\ next.is_sponsor = self.is_sponsor
<1> DEFINE next == Await(self, h)
<1>1. SameKeys(self, next) /\ next.is_sponsor = self.is_sponsor /\ SameSynch(self, next)
  BY DEF Await, Fields, SameKeys, SameSynch
<1>2. \A k \in {"token", "finish", "founder_finish"} :
          Some(next, {k}) => h = k \/ Some(self, {k})
  BY AwaitKinds DEF TokenHandlers
<1> HIDE DEF next
<1>3. /\ IsLastMember(m, self) <=> IsLastMember(m, next)
      /\ IsAssigned(self) <=> IsAssigned(next)
      /\ KnowsEverybody(m, self) <=> KnowsEverybody(m, next)
  BY <1>1 DEF SameKeys, IsLastMember, IsAssigned, KnowsEverybody, OtherMembers
<1>4. TimersTell(m, next)
  BY <1>1, <1>2, <1>3 DEF Goes, LocalOK, TimersTell, SameSynch
<1>5. PredecessorsKnown(m, next) /\ Settled(next)
  BY <1>1, <1>3 DEF Goes, LocalOK, PredecessorsKnown, Settled, SameKeys, LastKeyId
<1>6. Keeps(old, next)
  BY <1>1 DEF Goes, Keeps, SameKeys
<1>7. Goes(m, old, next)
  BY <1>1, <1>3, <1>4, <1>5, <1>6 DEF Goes, LocalOK, SameKeys, SameSynch
<1> QED
  BY <1>1, <1>7 DEF next

LEMMA GoesStart ==
    ASSUME NEW m, NEW old, LocalOK(m, old)
    PROVE  Goes(m, old, old)
BY DEF Goes, Keeps

LEMMA SaysToken ==
    ASSUME NEW m, NEW self, NEW next, next.synch_finished, next.member_id = self.member_id
    PROVE  Says(m, next, SynchToken(m, self))
<1> DEFINE msg == SynchToken(m, self)
<1>1. /\ msg.type = "synch_token"
      /\ msg.member_id = IF self.member_id # member_count[Service(m)]
                         THEN self.member_id + 1
                         ELSE 1
  BY DEF SynchToken
<1> HIDE DEF msg
<1>2. Says(m, next, msg)
  BY <1>1 DEF Says
<1> QED
  BY <1>2 DEF msg

LEMMA PassTold ==
    ASSUME IInv, NEW m \in Members, NEW self, Good(m, self), Goes(m, member[m], self),
           self.synch_token_rcvd, KnowsEverybody(m, self), PassSynchToken(m, self)
    PROVE  Told(m)
<1> DEFINE old == member[m]
           mid == [self EXCEPT !.synch_finished = TRUE]
           next == Await(mid, "token")
           token == SynchToken(m, self)
<1>1. DOMAIN self = Fields /\ self.scatter_queue \in Seq(Handlers)
  BY GoodQueue
<1>2. /\ SameKeys(self, mid)
      /\ mid.is_sponsor = self.is_sponsor
      /\ SameTimers(self, mid)
      /\ mid.synch_finished = TRUE
      /\ mid.synch_token_rcvd = self.synch_token_rcvd
      /\ mid.finish_message_rcvd = self.finish_message_rcvd
      /\ DOMAIN mid = Fields
      /\ mid.scatter_queue \in Seq(Handlers)
  BY <1>1 DEF SameKeys, SameTimers, Fields
<1>3. Become(m, next, {token})
  BY DEF PassSynchToken
<1> HIDE DEF mid
<1>4. OnlyPending(self, mid) /\ KnowsEverybody(m, mid)
  BY <1>2, SamePending DEF SameKeys, KnowsEverybody, OtherMembers
<1>5. Goes(m, old, mid)
  <2>1. mid.synch_token_rcvd /\ Goes(m, old, self)
    BY <1>2
  <2>2. mid.finish_message_rcvd <=> self.finish_message_rcvd
    BY <1>2
  <2>3. /\ self.synch_token_rcvd => mid.synch_token_rcvd
        /\ mid.synch_token_rcvd =>
               \/ self.synch_token_rcvd
               \/ IsAssigned(mid) /\ Heard(mid.member_id)
    BY <1>2
  <2>4. /\ self.synch_finished => mid.synch_finished
        /\ mid.synch_finished =>
               \/ self.synch_finished
               \/ IsLastMember(m, mid)
               \/ mid.synch_token_rcvd /\ KnowsEverybody(m, mid)
    BY <1>2, <1>4
  <2>5. /\ self.finish_message_rcvd => mid.finish_message_rcvd
        /\ mid.finish_message_rcvd => self.finish_message_rcvd \/ Finishes(m)
    BY <1>2
  <2> HIDE DEF old
  <2> QED
    BY <1>2, <1>4, <2>1, <2>3, <2>4, <2>5, GoesFlags
<1>6. /\ Goes(m, old, next)
      /\ SameKeys(mid, next)
      /\ SameSynch(mid, next)
  BY <1>2, <1>5, ArmGoes
<1> HIDE DEF next
<1>7. next.synch_finished /\ next.member_id = self.member_id
  BY <1>2, <1>6 DEF SameKeys, SameSynch
<1>8. Says(m, next, token)
  BY <1>7, SaysToken
<1> HIDE DEF token
<1> QED
  BY <1>3, <1>6, <1>8 DEF Told

\* The last member starts the token when it learnt that it is the last.
LEMMA StartTold ==
    ASSUME IInv, NEW m \in Members, NEW self, Good(m, self), Goes(m, member[m], self),
           IsLastMember(m, self),
           Become(m, StartSynchToken(m, self), {SynchToken(m, self)})
    PROVE  Told(m)
<1> DEFINE old == member[m]
           mid == [self EXCEPT
                      !.last_member_synch_token_sending_triggered = TRUE,
                      !.is_sponsor = FALSE,
                      !.synch_finished = TRUE,
                      !.higher_member_id_assigned = TRUE]
           next == StartSynchToken(m, self)
           token == SynchToken(m, self)
<1>1. DOMAIN self = Fields /\ self.scatter_queue \in Seq(Handlers)
  BY GoodQueue
<1>2. /\ SameKeys(self, mid)
      /\ SameTimers(self, mid)
      /\ mid.synch_finished = TRUE
      /\ mid.synch_token_rcvd = self.synch_token_rcvd
      /\ mid.finish_message_rcvd = self.finish_message_rcvd
      /\ DOMAIN mid = Fields
      /\ mid.scatter_queue \in Seq(Handlers)
  BY <1>1 DEF SameKeys, SameTimers, Fields
<1>3. next = Await(mid, "token")
  BY DEF StartSynchToken
<1> HIDE DEF mid
<1>4. SameKeys(mid, next) /\ SameSynch(mid, next)
  BY <1>2, <1>3 DEF Await, Fields, SameKeys, SameSynch
<1>5. \A k \in {"finish", "founder_finish"} : Some(next, {k}) => Some(self, {k})
  <2>1. \A k \in {"finish", "founder_finish"} : Some(next, {k}) => Some(mid, {k})
    BY <1>2, <1>3, AwaitKinds DEF TokenHandlers
  <2>2. OnlyPending(self, mid)
    BY <1>2, SamePending
  <2> QED
    BY <2>1, <2>2 DEF OnlyPending, TokenHandlers
<1>6. Good(m, next)
  BY GoodStartSynch
<1> HIDE DEF next
<1>7. SameKeys(self, next)
  BY <1>2, <1>4 DEF SameKeys
<1>8. /\ next.synch_finished
      /\ next.synch_token_rcvd = self.synch_token_rcvd
      /\ next.finish_message_rcvd = self.finish_message_rcvd
  BY <1>2, <1>4 DEF SameSynch
<1>9. IsLastMember(m, next) /\ IsAssigned(next)
  BY <1>7 DEF SameKeys, IsLastMember, IsAssigned
<1>10. Settled(next) /\ PredecessorsKnown(m, next)
  <2>1. /\ MemberOK(History([member EXCEPT ![m] = next]), m, next)
        /\ HistoryOK(History([member EXCEPT ![m] = next]))
    BY <1>6, GoodMember
  <2> QED
    BY <1>9, <2>1, LastSettled
<1>11. TimersTell(m, next)
  BY <1>5, <1>8, <1>9 DEF TimersTell, Goes, LocalOK
<1>12. Goes(m, old, next)
  BY <1>7, <1>8, <1>9, <1>10, <1>11 DEF Goes, LocalOK, Keeps, SameKeys
<1>13. Says(m, next, token)
  BY <1>7, <1>8, SaysToken DEF SameKeys
<1>14. Become(m, next, {token})
  BY DEF next
<1> HIDE DEF token
<1> QED
  BY <1>12, <1>13, <1>14 DEF Told

LEMMA ResponseTold ==
    ASSUME IInv, NEW m \in Members, member[m].status = "running", LocalOK(m, member[m]),
           NEW n \in Members \ {m}, NEW msg \in net[n], ProcessResponse(m, msg)
    PROVE  Told(m)
<1> DEFINE old == member[m]
           self == AfterResponse(m, old, msg)
<1>1. msg \in History(member)
  BY ResponseKnown DEF ProcessResponse
<1>2. Good(m, self)
  BY <1>1, GoodAfterResponse
<1>3. Quiet(m, old, self)
  BY GoodStart, GoodMember, QuietAfterResponse
<1>4. \/ /\ IsLastMember(m, self)
         /\ Become(m, self, {})
      \/ /\ IsLastMember(m, self)
         /\ Become(m, StartSynchToken(m, self), {SynchToken(m, self)})
      \/ /\ ~ IsLastMember(m, self)
         /\ \E next \in CheckAndAddNextBlindedKeys(self) : ProcessPendingRequest(m, next)
  BY DEF ProcessResponse
<1> HIDE DEF self
<1>5. IsLastMember(m, self) => Settled(self)
  <2>1. /\ MemberOK(History([member EXCEPT ![m] = self]), m, self)
        /\ HistoryOK(History([member EXCEPT ![m] = self]))
    BY <1>2, GoodMember
  <2> QED
    BY <2>1, LastSettled
<1>6. CASE IsLastMember(m, self) /\ Become(m, self, {})
  BY <1>3, <1>5, <1>6, HushedSame, HushedTold
<1>7. CASE /\ IsLastMember(m, self)
           /\ Become(m, StartSynchToken(m, self), {SynchToken(m, self)})
  BY <1>2, <1>3, <1>5, <1>7, QuietGoes, StartTold
<1>8. CASE /\ ~ IsLastMember(m, self)
           /\ \E next \in CheckAndAddNextBlindedKeys(self) : ProcessPendingRequest(m, next)
  <2>1. PICK next \in CheckAndAddNextBlindedKeys(self) : ProcessPendingRequest(m, next)
    BY <1>8
  <2>2. Good(m, next) /\ next.member_id = self.member_id
    BY <1>2, GoodAddKeys
  <2>3. Quiet(m, self, next) /\ Settled(next)
    BY <1>2, QuietAddKeys
  <2>4. next.is_sponsor => next.member_id < member_count[Service(m)]
    BY <1>8, <2>2, GoodRoom DEF IsLastMember, IsAssigned
  <2>5. Hushed(m, next)
    BY <2>1, <2>2, <2>3, <2>4, HushedPending
  <2>6. Quiet(m, old, next)
    BY <1>3, <2>3, QuietTrans
  <2> QED
    BY <2>5, <2>6, HushedTold
<1> QED
  BY <1>4, <1>6, <1>7, <1>8

\* Who has the token passes it on when an answer tells of the last successor
\* it did not know.
LEMMA SynchResponseTold ==
    ASSUME IInv, NEW m \in Members, member[m].status = "running", LocalOK(m, member[m]),
           NEW n \in Members \ {m}, NEW msg \in net[n],
           ProcessMemberInfoSynchResponse(m, msg)
    PROVE  Told(m)
<1>1. PICK next \in LearnInfo(m, member[m], msg) :
          LET self == [next EXCEPT !.higher_member_id_assigned = TRUE]
          IN  IF /\ AllSuccessorsKnown(m, self)
                 /\ ~ self.synch_finished
                 /\ self.synch_token_rcvd
              THEN PassSynchToken(m, self)
              ELSE Become(m, self, {})
  BY DEF ProcessMemberInfoSynchResponse
<1> DEFINE old == member[m]
           self == [next EXCEPT !.higher_member_id_assigned = TRUE]
<1>2. Good(m, next) /\ Quiet(m, old, next) /\ Settled(next)
  BY <1>1, GoodLearnInfo, QuietLearnInfo DEF ProcessMemberInfoSynchResponse
<1>3. DOMAIN next = Fields
  BY <1>2, GoodMember
<1>4. /\ SameCore(next, self)
      /\ SameTimers(next, self)
      /\ SameSynch(next, self)
      /\ self.last_member_synch_token_sending_triggered
            = next.last_member_synch_token_sending_triggered
  BY <1>3 DEF SameCore, SameKeys, SameTimers, SameSynch, Fields
<1>5. \/ /\ AllSuccessorsKnown(m, self)
         /\ self.synch_token_rcvd
         /\ PassSynchToken(m, self)
      \/ Become(m, self, {})
  BY <1>1
<1> HIDE DEF self
<1>6. Good(m, self)
  BY <1>2, <1>4, GoodFlags
<1>7. Quiet(m, old, self) /\ Settled(self)
  BY <1>2, <1>4, QuietFlags, QuietTrans DEF SameCore
<1>8. CASE Become(m, self, {})
  BY <1>7, <1>8, HushedSame, HushedTold
<1>9. CASE /\ AllSuccessorsKnown(m, self)
           /\ self.synch_token_rcvd
           /\ PassSynchToken(m, self)
  <2>1. Goes(m, old, self)
    BY <1>7, QuietGoes
  <2>2. IsAssigned(self)
    BY <1>9, <2>1 DEF Goes, LocalOK, TimersTell
  <2>3. /\ MemberOK(History([member EXCEPT ![m] = self]), m, self)
        /\ HistoryOK(History([member EXCEPT ![m] = self]))
    BY <1>6, GoodMember
  <2>4. KnowsEverybody(m, self)
    BY <1>9, <2>2, <2>3, OtherIds
  <2> QED
    BY <1>6, <1>9, <2>1, <2>4, PassTold
<1> QED
  BY <1>5, <1>8, <1>9

\* The token is taken by the member whose id it names.
LEMMA SynchTokenTold ==
    ASSUME IInv, NEW m \in Members, member[m].status = "running", LocalOK(m, member[m]),
           NEW n \in Members, NEW msg \in net[n], ProcessSynchToken(m, msg)
    PROVE  Told(m)
<1> DEFINE old == member[m]
           self == [old EXCEPT
                      !.higher_member_id_assigned = TRUE,
                      !.higher_member_id_synching = @ \/ msg.member_id > Rank(m, old)]
           next == [self EXCEPT !.synch_token_rcvd = TRUE]
<1>1. Good(m, old) /\ DOMAIN old = Fields /\ Goes(m, old, old)
  BY GoodStart, GoodMember, GoesStart
<1>2. \/ ForMe(m, self, msg) /\ TakeSynchToken(m, self)
      \/ Become(m, self, {})
  BY DEF ProcessSynchToken
<1>3. msg.type = "synch_token" /\ msg.member_id # DEFAULT_MEMBER_ID
  <2>1. msg \in Messages /\ msg.type = "synch_token"
    BY Received DEF Truthful, ProcessSynchToken
  <2> QED
    BY <2>1 DEF Messages, MemberIds
<1> HIDE DEF old
<1>4. /\ SameCore(old, self)
      /\ SameTimers(old, self)
      /\ SameSynch(old, self)
      /\ self.last_member_synch_token_sending_triggered
            = old.last_member_synch_token_sending_triggered
      /\ DOMAIN self = Fields
  BY <1>1 DEF SameCore, SameKeys, SameTimers, SameSynch, Fields
<1> HIDE DEF self
<1>5. /\ SameCore(self, next)
      /\ SameTimers(self, next)
      /\ next.synch_token_rcvd = TRUE
      /\ next.synch_finished = self.synch_finished
      /\ next.finish_message_rcvd = self.finish_message_rcvd
      /\ next.last_member_synch_token_sending_triggered
            = self.last_member_synch_token_sending_triggered
  BY <1>4 DEF SameCore, SameKeys, SameTimers, Fields
<1>6. \/ Become(m, self, {})
      \/ /\ ForMe(m, self, msg)
         /\ \/ IsLastMember(m, self) /\ Become(m, Await(next, "finish"), {Finish(m)})
            \/ AllSuccessorsKnown(m, self) /\ PassSynchToken(m, next)
            \/ Become(m, Await(next, "successors"), {SynchRequest(m, UnknownSuccessors(m, self))})
  BY <1>2 DEF TakeSynchToken
<1> HIDE DEF next
<1>7. Good(m, self) /\ Good(m, next)
  BY <1>1, <1>4, <1>5, GoodFlags
<1>8. Quiet(m, old, self) /\ Settled(self)
  BY <1>1, <1>4, QuietFlags DEF SameCore, Goes, LocalOK
<1>9. CASE Become(m, self, {})
  BY <1>8, <1>9, HushedSame, HushedTold DEF old
<1>10. CASE ForMe(m, self, msg)
  <2>1. Goes(m, old, self)
    BY <1>8, QuietGoes DEF old
  <2>2. SameKeys(self, next) /\ next.is_sponsor = self.is_sponsor /\ OnlyPending(self, next)
    BY <1>5, SamePending DEF SameCore
  <2>3. next.member_id = msg.member_id
    BY <1>10, <2>2 DEF ForMe, SameKeys
  <2>4. IsAssigned(next) /\ IsAssigned(self) /\ Heard(next.member_id)
    BY <1>3, <2>2, <2>3 DEF Heard, IsAssigned, SameKeys
  <2>5. Goes(m, old, next)
    <3>1. /\ self.synch_finished => next.synch_finished
          /\ next.synch_finished => self.synch_finished
          /\ self.finish_message_rcvd => next.finish_message_rcvd
          /\ next.finish_message_rcvd => self.finish_message_rcvd
      BY <1>5
    <3> QED
      BY <1>5, <2>1, <2>2, <2>4, <3>1, GoesFlags
  <2>6. DOMAIN next = Fields /\ next.scatter_queue \in Seq(Handlers)
    BY <1>7, GoodQueue
  <2>7. CASE IsLastMember(m, self) /\ Become(m, Await(next, "finish"), {Finish(m)})
    <3> DEFINE end == Await(next, "finish")
    <3>1. IsLastMember(m, next)
      BY <2>2, <2>7 DEF IsLastMember, IsAssigned, SameKeys
    <3>2. Goes(m, old, end) /\ SameKeys(next, end) /\ SameSynch(next, end)
      BY <1>5, <2>5, <2>6, <3>1, ArmGoes
    <3> HIDE DEF end
    <3>3. IsLastMember(m, end) /\ end.synch_token_rcvd
      BY <1>5, <3>1, <3>2 DEF IsLastMember, IsAssigned, SameKeys, SameSynch
    <3>4. Says(m, end, Finish(m))
      BY <3>3 DEF Says, Finish
    <3> QED
      BY <2>7, <3>2, <3>4 DEF Told, end, old
  <2>8. CASE AllSuccessorsKnown(m, self) /\ PassSynchToken(m, next)
    <3>1. /\ MemberOK(History([member EXCEPT ![m] = self]), m, self)
          /\ HistoryOK(History([member EXCEPT ![m] = self]))
      BY <1>7, GoodMember
    <3>2. KnowsEverybody(m, self)
      BY <2>4, <2>8, <3>1, OtherIds
    <3>3. KnowsEverybody(m, next)
      BY <2>2, <3>2 DEF KnowsEverybody, OtherMembers, SameKeys
    <3> QED
      BY <1>5, <1>7, <2>5, <2>8, <3>3, PassTold DEF old
  <2>9. CASE Become(m, Await(next, "successors"),
                    {SynchRequest(m, UnknownSuccessors(m, self))})
    <3> DEFINE end == Await(next, "successors")
               asking == SynchRequest(m, UnknownSuccessors(m, self))
    <3>1. Goes(m, old, end)
      BY <2>5, <2>6, ArmGoes
    <3>2. asking.type = "synch_request"
      BY DEF SynchRequest
    <3> HIDE DEF end, asking
    <3>3. Says(m, end, asking)
      BY <3>2 DEF Says
    <3> QED
      BY <2>9, <3>1, <3>3 DEF Told, end, asking, old
  <2> QED
    BY <1>6, <1>9, <1>10, <2>7, <2>8, <2>9
<1> QED
  BY <1>6, <1>9, <1>10

\* Whoever is complete stops.
LEMMA DoneTold ==
    ASSUME IInv, NEW m \in Members, NEW self, Good(m, self), Goes(m, member[m], self),
           Become(m, Done(m, self), {})
    PROVE  Told(m)
<1> DEFINE old == member[m]
           mid == Await(self, "none")
           next == ContributeStatistics(m, mid)
<1>1. DOMAIN self = Fields /\ self.scatter_queue \in Seq(Handlers)
  BY GoodQueue
<1>2. Goes(m, old, mid) /\ SameKeys(self, mid)
  BY <1>1, ArmGoes
<1>3. next = Done(m, self)
  BY DEF Done, Cancel
<1>4. DOMAIN mid = Fields
  BY <1>1, <1>2 DEF SameKeys
<1> HIDE DEF mid
<1>5. /\ SameKeys(mid, next)
      /\ next.is_sponsor = mid.is_sponsor
      /\ SameTimers(mid, next)
      /\ SameSynch(mid, next)
  BY <1>4 DEF ContributeStatistics, SameKeys, SameTimers, SameSynch, Fields
<1> HIDE DEF next
<1>6. OnlyPending(mid, next)
  BY <1>5, SamePending
<1>7. Goes(m, old, next)
  BY <1>2, <1>5, <1>6, GoesFlags DEF SameSynch
<1>8. Become(m, next, {})
  BY <1>3
<1> QED
  BY <1>7, <1>8 DEF Told

LEMMA FinishTold ==
    ASSUME IInv, NEW m \in Members, member[m].status = "running", LocalOK(m, member[m]),
           NEW n \in Members, NEW msg \in net[n], ProcessFinish(m, msg)
    PROVE  Told(m)
<1> DEFINE old == member[m]
           rcvd == [Finishing(old) EXCEPT !.finish_message_rcvd = TRUE]
           self == IF old.finish_message_rcvd THEN rcvd
                                              ELSE RecordTimestamp(rcvd, "DURATION_END")
           waiting == Await(self, "founder_finish")
           next == [waiting EXCEPT !.timeout_wait = TRUE]
<1>1. Good(m, old) /\ DOMAIN old = Fields /\ Goes(m, old, old)
  BY GoodStart, GoodMember, GoesStart
<1>2. \/ Become(m, Done(m, rcvd), {})
      \/ Become(m, self, {})
      \/ Become(m, next, {FinishAck(m), Finish(m)})
  BY DEF ProcessFinish
<1>3. Finishes(m)
  BY DEF Finishes
<1> HIDE DEF old
<1>4. /\ SameCore(old, rcvd)
      /\ SameTimers(old, rcvd)
      /\ rcvd.synch_token_rcvd = old.synch_token_rcvd
      /\ rcvd.synch_finished = old.synch_finished
      /\ rcvd.finish_message_rcvd = TRUE
      /\ rcvd.last_member_synch_token_sending_triggered
            = old.last_member_synch_token_sending_triggered
      /\ DOMAIN rcvd = Fields
  BY <1>1 DEF Finishing, SameCore, SameKeys, SameTimers, Fields
<1> HIDE DEF rcvd
<1>5. Good(m, rcvd)
  BY <1>1, <1>4, GoodFlags
<1>6. Goes(m, old, rcvd)
  <2>1. SameKeys(old, rcvd) /\ rcvd.is_sponsor = old.is_sponsor /\ OnlyPending(old, rcvd)
    BY <1>4, SamePending DEF SameCore
  <2>2. /\ old.synch_finished => rcvd.synch_finished
        /\ rcvd.synch_finished => old.synch_finished
        /\ old.synch_token_rcvd => rcvd.synch_token_rcvd
        /\ rcvd.synch_token_rcvd => old.synch_token_rcvd
    BY <1>4
  <2> QED
    BY <1>1, <1>3, <1>4, <2>1, <2>2, GoesFlags
<1>7. /\ SameKeys(rcvd, self)
      /\ self.is_sponsor = rcvd.is_sponsor
      /\ SameTimers(rcvd, self)
      /\ SameSynch(rcvd, self)
      /\ DOMAIN self = Fields
  BY <1>4 DEF RecordTimestamp, SameKeys, SameTimers, SameSynch, Fields
<1> HIDE DEF self
<1>8. Goes(m, old, self)
  BY <1>6, <1>7, SamePending, GoesFlags DEF SameSynch
<1>9. self.finish_message_rcvd /\ self.scatter_queue \in Seq(Handlers)
  BY <1>4, <1>5, <1>7, GoodQueue DEF SameSynch, SameTimers
<1>10. CASE Become(m, Done(m, rcvd), {})
  BY <1>5, <1>6, <1>10, DoneTold DEF old
<1>11. CASE Become(m, self, {})
  BY <1>8, <1>11 DEF Told, old
<1>12. CASE Become(m, next, {FinishAck(m), Finish(m)})
  <2>1. Goes(m, old, waiting) /\ SameKeys(self, waiting) /\ SameSynch(self, waiting)
    BY <1>7, <1>8, <1>9, ArmGoes
  <2>2. DOMAIN waiting = Fields
    BY <1>7, <2>1 DEF SameKeys
  <2> HIDE DEF waiting
  <2>3. /\ SameKeys(waiting, next)
        /\ next.is_sponsor = waiting.is_sponsor
        /\ SameTimers(waiting, next)
        /\ SameSynch(waiting, next)
    BY <2>2 DEF SameKeys, SameTimers, SameSynch, Fields
  <2> HIDE DEF next
  <2>4. Goes(m, old, next)
    BY <2>1, <2>3, SamePending, GoesFlags DEF SameSynch
  <2>5. next.finish_message_rcvd
    BY <1>9, <2>1, <2>3 DEF SameSynch
  <2>6. \A x \in {FinishAck(m), Finish(m)} : Says(m, next, x)
    BY <2>5 DEF Says, FinishAck, Finish
  <2> QED
    BY <1>12, <2>4, <2>6 DEF Told, old
<1> QED
  BY <1>2, <1>10, <1>11, <1>12

LEMMA FinishAckTold ==
    ASSUME IInv, NEW m \in Members, member[m].status = "running", LocalOK(m, member[m]),
           NEW msg, ProcessFinishAck(m, msg)
    PROVE  Told(m)
<1> DEFINE old == member[m]
           self == Finishing(old)
<1>1. Good(m, old) /\ DOMAIN old = Fields /\ Settled(old)
  BY GoodStart, GoodMember DEF LocalOK
<1>2. Become(m, Done(m, self), {}) \/ Become(m, self, {})
  BY DEF ProcessFinishAck
<1> HIDE DEF old
<1>3. /\ SameCore(old, self)
      /\ SameTimers(old, self)
      /\ SameSynch(old, self)
      /\ self.last_member_synch_token_sending_triggered
            = old.last_member_synch_token_sending_triggered
  BY <1>1 DEF Finishing, SameCore, SameKeys, SameTimers, SameSynch, Fields
<1> HIDE DEF self
<1>4. Good(m, self)
  BY <1>1, <1>3, GoodFlags
<1>5. Quiet(m, old, self) /\ Settled(self)
  BY <1>1, <1>3, QuietFlags DEF SameCore
<1>6. Goes(m, old, self)
  BY <1>5, QuietGoes DEF old
<1>7. CASE Become(m, self, {})
  BY <1>5, <1>7, HushedSame, HushedTold DEF old
<1>8. CASE Become(m, Done(m, self), {})
  BY <1>4, <1>6, <1>8, DoneTold DEF old
<1> QED
  BY <1>2, <1>7, <1>8

LEMMA ReceiveTold ==
    ASSUME IInv, NEW m \in Members, LocalOK(m, member[m]), NEW type, Receive(m, type)
    PROVE  Told(m)
<1>1. PICK n \in Members \ {m} : \E msg \in net[n] : msg.type = type /\ Process(m, msg)
  BY DEF Receive
<1> PICK msg \in net[n] : Process(m, msg)
  BY <1>1
<1>2. member[m].status = "running"
  BY DEF Receive
<1> QED
  BY <1>2, OfferTold, RequestTold, ResponseTold, InfoRequestTold, InfoResponseTold,
     SynchTokenTold, SynchRequestTold, SynchResponseTold, FinishTold, FinishAckTold
  DEF Process

-----------------------------------------------------------------------------
(***************************************************************************)
(* The timers.                                                             *)
(***************************************************************************)
LEMMA ExpireKinds ==
    ASSUME NEW self, self.scatter_queue \in Seq(Handlers), self.scatter_wait \in Handlers,
           NEW next, next.scatter_wait = "none",
           next.scatter_queue = Append(self.scatter_queue, self.scatter_wait)
    PROVE  OnlyPending(self, next)
<1> SUFFICES ASSUME NEW h \in TokenHandlers, NEW j \in 0 .. Len(next.scatter_queue),
                    At(next, j) = h
             PROVE  Some(self, {h})
  BY DEF OnlyPending, Some
<1> DEFINE queue == self.scatter_queue
           wait == self.scatter_wait
<1>1. j # 0
  BY DEF At, TokenHandlers
<1>2. Len(Append(queue, wait)) = Len(queue) + 1 /\ Len(queue) \in Nat
  OBVIOUS
<1>3. CASE j = Len(queue) + 1
  <2>1. At(self, 0) = h
    BY <1>2, <1>3 DEF At
  <2> QED
    BY <1>2, <2>1 DEF Some
<1>4. CASE j # Len(queue) + 1
  <2>1. j \in 1 .. Len(queue)
    BY <1>1, <1>2, <1>4
  <2>2. Append(queue, wait)[j] = queue[j]
    BY <2>1
  <2>3. At(self, j) = h
    BY <1>1, <2>2 DEF At
  <2> QED
    BY <1>2, <2>1, <2>3 DEF Some
<1> QED
  BY <1>3, <1>4

LEMMA StartKinds ==
    ASSUME NEW self, self.scatter_queue \in Seq(Handlers), NEW h, NEW next,
           Starts(self, h, next)
    PROVE  /\ OnlyPending(self, next)
           /\ h \in TokenHandlers => Some(self, {h})
           /\ next.scatter_queue \in Seq(Handlers)
<1> DEFINE n == Len(self.scatter_queue)
<1>1. CASE self.scatter_queue # <<>>
  <2>1. /\ n \in Nat \ {0}
        /\ Len(next.scatter_queue) = n - 1
        /\ \A j \in 1 .. n - 1 : next.scatter_queue[j] = self.scatter_queue[j + 1]
        /\ h = self.scatter_queue[1]
        /\ next.scatter_wait = self.scatter_wait
        /\ next.scatter_queue \in Seq(Handlers)
    <3>1. self.scatter_queue \in Seq(Handlers) /\ self.scatter_queue # <<>>
      BY <1>1
    <3>2. /\ h = Head(self.scatter_queue)
          /\ next.scatter_queue = Tail(self.scatter_queue)
          /\ next.scatter_wait = self.scatter_wait
      BY <1>1 DEF Starts
    <3> QED
      BY <3>1, <3>2
  <2>2. /\ At(next, 0) = At(self, 0)
        /\ \A j \in 1 .. n - 1 : At(next, j) = At(self, j + 1) /\ j + 1 \in 0 .. n
        /\ h = At(self, 1)
    BY <2>1 DEF At
  <2>3. ASSUME NEW k \in TokenHandlers, Some(next, {k}) PROVE Some(self, {k})
    <3>1. PICK j \in 0 .. n - 1 : At(next, j) = k
      BY <2>1, <2>3 DEF Some
    <3> QED
      BY <2>1, <2>2, <3>1 DEF Some
  <2>4. Some(self, {h})
    BY <2>1, <2>2 DEF Some
  <2> QED
    BY <2>1, <2>3, <2>4 DEF OnlyPending
<1>2. CASE self.scatter_queue = <<>>
  <2>1. /\ Len(self.scatter_queue) = 0
        /\ Len(next.scatter_queue) = 0
        /\ next.scatter_queue = <<>>
        /\ At(self, 0) = h
        /\ At(next, 0) = "none"
    BY <1>2 DEF Starts, At
  <2>2. ASSUME NEW k \in TokenHandlers, Some(next, {k}) PROVE Some(self, {k})
    BY <2>1, <2>2 DEF Some, TokenHandlers
  <2>3. Some(self, {h})
    BY <2>1 DEF Some
  <2>4. next.scatter_queue \in Seq(Handlers)
    BY <2>1
  <2> QED
    BY <2>2, <2>3, <2>4 DEF OnlyPending
<1> QED
  BY <1>1, <1>2

LEMMA ExpireTold ==
    ASSUME IInv, NEW m \in Members, LocalOK(m, member[m]), ScatterExpires(m)
    PROVE  Told(m)
<1> DEFINE old == member[m]
           next == [old EXCEPT !.scatter_wait = "none",
                               !.scatter_queue = Append(@, old.scatter_wait)]
<1>1. old.status = "running" /\ old.scatter_wait # "none"
  BY DEF ScatterExpires
<1>2. Good(m, old) /\ Settled(old)
  BY <1>1, GoodStart DEF LocalOK
<1>3. /\ DOMAIN old = Fields
      /\ old.scatter_queue \in Seq(Handlers)
      /\ old.scatter_wait \in Handlers
  BY <1>1, <1>2, GoodQueue DEF Good, TimersOK, TimerTypes, Waits, Handlers
<1>4. Become(m, next, {})
  BY DEF ScatterExpires, Become
<1> HIDE DEF old
<1>5. /\ SameKeys(old, next)
      /\ next.is_sponsor = old.is_sponsor
      /\ SameSynch(old, next)
      /\ next.scatter_wait = "none"
      /\ next.scatter_queue = Append(old.scatter_queue, old.scatter_wait)
  BY <1>3 DEF SameKeys, SameSynch, Fields
<1> HIDE DEF next
<1>6. OnlyPending(old, next)
  BY <1>3, <1>5, ExpireKinds
<1>7. Quiet(m, old, next) /\ Settled(next)
  BY <1>2, <1>5, <1>6, QuietSame
<1> QED
  BY <1>4, <1>7, HushedSame, HushedTold DEF old

LEMMA TimeoutTold ==
    ASSUME IInv, NEW m \in Members, LocalOK(m, member[m]), Timeout(m)
    PROVE  Told(m)
<1> DEFINE old == member[m]
           self == [old EXCEPT !.timeout_wait = FALSE]
<1>1. old.status = "running"
  BY DEF Timeout
<1>2. Good(m, old) /\ DOMAIN old = Fields /\ Settled(old)
  BY <1>1, GoodStart, GoodMember DEF LocalOK
<1>3. Become(m, Done(m, self), {})
  BY DEF Timeout
<1> HIDE DEF old
<1>4. /\ SameCore(old, self)
      /\ SameTimers(old, self)
      /\ SameSynch(old, self)
      /\ self.last_member_synch_token_sending_triggered
            = old.last_member_synch_token_sending_triggered
  BY <1>2 DEF SameCore, SameKeys, SameTimers, SameSynch, Fields
<1> HIDE DEF self
<1>5. Good(m, self)
  BY <1>2, <1>4, GoodFlags
<1>6. Quiet(m, old, self) /\ Settled(self)
  BY <1>2, <1>4, QuietFlags DEF SameCore
<1>7. Goes(m, old, self)
  BY <1>6, QuietGoes DEF old
<1> QED
  BY <1>3, <1>5, <1>7, DoneTold DEF old

\* What the timer repeats is what was said.
LEMMA RepeatedTold ==
    ASSUME NEW m \in Members, NEW self, NEW next,
           SameKeys(self, next), NEW h \in Cyclic,
           h = "token" => next.synch_finished,
           h = "finish" => IsLastMember(m, next) /\ next.synch_token_rcvd,
           h = "founder_finish" => next.finish_message_rcvd,
           \A x \in self.response_message_cache : x.type = "response",
           NEW msg \in Repeated(m, self, h)
    PROVE  Says(m, next, msg)
<1>1. CASE h = "token"
  <2>1. msg = SynchToken(m, self)
    BY <1>1 DEF Repeated
  <2> QED
    BY <1>1, <2>1, SaysToken DEF SameKeys
<1>2. CASE h \in {"finish", "founder_finish"}
  <2>1. msg = Finish(m)
    BY <1>2 DEF Repeated
  <2>2. msg.type = "finish"
    BY <2>1 DEF Finish
  <2> QED
    BY <1>2, <2>2 DEF Says
<1>3. CASE h \in {"offer", "response", "predecessors", "successors"}
  <2>1. \/ msg = Offer(m)
        \/ msg \in self.response_message_cache
        \/ msg = InfoRequest(m, UnknownPredecessors(self))
        \/ msg = SynchRequest(m, UnknownSuccessors(m, self))
    BY <1>3 DEF Repeated
  <2>2. msg.type \notin {"synch_token", "finish"}
    BY <2>1 DEF Offer, InfoRequest, SynchRequest
  <2> QED
    BY <2>2 DEF Says
<1> QED
  BY <1>1, <1>2, <1>3 DEF Cyclic

LEMMA RunTold ==
    ASSUME IInv, NEW m \in Members, LocalOK(m, member[m]), NEW h, NEW self,
           SameCore(member[m], self), SameSynch(member[m], self),
           Starts(member[m], h, self), RunHandler(m, self, h)
    PROVE  Told(m)
<1> DEFINE old == member[m]
<1>1. DOMAIN old = Fields /\ DOMAIN self = Fields /\ old.scatter_queue \in Seq(Handlers)
  <2>1. DOMAIN old = Fields
    BY DEF IInv, Inv, MemberOK, CoreTypes
  <2>2. old.scatter_queue \in Seq(Handlers)
    BY DEF IInv, TimersOK, TimerTypes
  <2> QED
    BY <2>1, <2>2 DEF SameCore, SameKeys
<1>2. Settled(old) /\ TimersTell(m, old)
  BY DEF LocalOK
<1>3. /\ OnlyPending(old, self)
      /\ h \in TokenHandlers => Some(old, {h})
      /\ self.scatter_queue \in Seq(Handlers)
  BY <1>1, StartKinds
<1>4. Quiet(m, old, self) /\ Settled(self)
  BY <1>2, <1>3, QuietSame DEF SameCore
<1>5. CASE Become(m, self, {})
  BY <1>4, <1>5, HushedSame, HushedTold
<1>6. CASE AnswerOnce(m, self, h)
  <2>1. PICK next, msgs :
            /\ Become(m, next, msgs)
            /\ \/ next = [self EXCEPT !.request_scheduled = ~ @]
               \/ next = [self EXCEPT !.response_scheduled = ~ @]
            /\ \A msg \in msgs : msg \in {Request(m), InfoResponse(m, self),
                                          SynchResponse(m, self)}
    <3> DEFINE asked == IF h = "request" THEN {Request(m)} ELSE {}
               told == CASE h = "info" -> {InfoResponse(m, self)}
                         [] h = "synch_info" -> {SynchResponse(m, self)}
                         [] OTHER -> {}
               all == {Request(m), InfoResponse(m, self), SynchResponse(m, self)}
    <3>1. \/ Become(m, [self EXCEPT !.request_scheduled = ~ @], asked)
          \/ Become(m, [self EXCEPT !.response_scheduled = ~ @], told)
      BY <1>6 DEF AnswerOnce
    <3>2. (\A msg \in asked : msg \in all) /\ (\A msg \in told : msg \in all)
      OBVIOUS
    <3> HIDE DEF asked, told
    <3> QED
      BY <3>1, <3>2
  <2>2. /\ SameKeys(self, next)
        /\ next.is_sponsor = self.is_sponsor
        /\ SameSynch(self, next)
        /\ next.scatter_wait = self.scatter_wait
        /\ next.scatter_queue = self.scatter_queue
    BY <1>1, <2>1 DEF SameKeys, SameSynch, Fields
  <2>3. OnlyPending(self, next)
    BY <2>2 DEF OnlyPending, Some, At
  <2>4. Quiet(m, self, next) /\ Settled(next)
    BY <1>4, <2>2, <2>3, QuietSame
  <2>5. \A msg \in msgs : msg.type \notin {"synch_token", "finish"}
    BY <2>1 DEF Request, InfoResponse, SynchResponse
  <2>6. Hushed(m, self)
    BY <2>1, <2>4, <2>5 DEF Hushed
  <2> QED
    BY <1>4, <2>6, HushedTold
<1>7. CASE h \in Cyclic /\ Become(m, Await(self, h), Repeated(m, self, h))
  <2> DEFINE next == Await(self, h)
  <2>1. Goes(m, old, self)
    BY <1>4, QuietGoes
  <2>2. /\ h = "token" => self.synch_finished
        /\ h = "finish" => IsLastMember(m, self) /\ self.synch_token_rcvd
        /\ h = "founder_finish" => self.finish_message_rcvd
    <3>1. IsLastMember(m, old) => IsLastMember(m, self)
      BY DEF SameCore, SameKeys, IsLastMember, IsAssigned
    <3> QED
      BY <1>2, <1>3, <3>1 DEF TimersTell, SameSynch, TokenHandlers
  <2>3. /\ Goes(m, old, next)
        /\ SameKeys(self, next)
        /\ SameSynch(self, next)
    BY <1>1, <1>3, <2>1, <2>2, ArmGoes
  <2> HIDE DEF next
  <2>4. /\ h = "token" => next.synch_finished
        /\ h = "finish" => IsLastMember(m, next) /\ next.synch_token_rcvd
        /\ h = "founder_finish" => next.finish_message_rcvd
    BY <2>2, <2>3 DEF SameSynch, SameKeys, IsLastMember, IsAssigned
  <2>5. \A x \in self.response_message_cache : x.type = "response"
    <3>1. self.response_message_cache = old.response_message_cache
      BY DEF SameCore
    <3>2. \A x \in old.response_message_cache : x \in Assignments
      BY HistoryMember DEF IInv, Inv, HistoryOK, AssignmentOK
    <3> QED
      BY <3>1, <3>2 DEF Assignments
  <2>6. \A msg \in Repeated(m, self, h) : Says(m, next, msg)
    BY <1>7, <2>3, <2>4, <2>5, RepeatedTold
  <2> QED
    BY <1>7, <2>3, <2>6 DEF Told, next
<1> QED
  BY <1>5, <1>6, <1>7 DEF RunHandler

LEMMA ScatterTold ==
    ASSUME IInv, NEW m \in Members, LocalOK(m, member[m]), HandleScatter(m)
    PROVE  Told(m)
<1> DEFINE old == member[m]
<1>1. DOMAIN old = Fields
  BY DEF IInv, Inv, MemberOK, CoreTypes
<1>2. CASE /\ old.scatter_queue # <<>>
           /\ RunHandler(m, [old EXCEPT !.scatter_queue = Tail(@)], Head(old.scatter_queue))
  <2> DEFINE self == [old EXCEPT !.scatter_queue = Tail(@)]
             h == Head(old.scatter_queue)
  <2>1. RunHandler(m, self, h)
    BY <1>2
  <2> HIDE DEF old
  <2>2. SameCore(old, self) /\ Starts(old, h, self) /\ SameSynch(old, self)
    BY <1>1, <1>2 DEF SameCore, SameKeys, SameSynch, Starts, Fields
  <2> HIDE DEF self, h
  <2> QED
    BY <2>1, <2>2, RunTold DEF old
<1>3. CASE /\ old.scatter_queue = <<>>
           /\ RunHandler(m, [old EXCEPT !.scatter_wait = "none"], old.scatter_wait)
  <2> DEFINE self == [old EXCEPT !.scatter_wait = "none"]
             h == old.scatter_wait
  <2>1. RunHandler(m, self, h)
    BY <1>3
  <2> HIDE DEF old
  <2>2. SameCore(old, self) /\ Starts(old, h, self) /\ SameSynch(old, self)
    BY <1>1, <1>3 DEF SameCore, SameKeys, SameSynch, Starts, Fields
  <2> HIDE DEF self, h
  <2> QED
    BY <2>1, <2>2, RunTold DEF old
<1> QED
  BY <1>2, <1>3 DEF HandleScatter

\* A founder starts as the sponsor.
LEMMA LaunchTold ==
    ASSUME IInv, NEW m \in Members, LocalOK(m, member[m]), Launch(m)
    PROVE  Told(m)
<1> DEFINE old == member[m]
<1>1. DOMAIN old = Fields /\ old.scatter_queue \in Seq(Handlers) /\ ~ IsAssigned(old)
  <2>1. MemberOK(History(member), m, old)
    BY DEF IInv, Inv
  <2>2. old = InitialMember
    BY <2>1 DEF Launch, MemberOK, StoppedOK
  <2> QED
    BY <2>1, <2>2 DEF InitialMember, IsAssigned, MemberOK, CoreTypes
<1>2. CASE Become(m, Founded(m), {Offer(m)})
  <2> DEFINE mid == Founder(m)
             next == Await(mid, "offer")
  <2>1. /\ mid.is_sponsor = TRUE
        /\ mid.assigned_keys = old.assigned_keys
        /\ SameSynch(old, mid)
        /\ SameTimers(old, mid)
        /\ DOMAIN mid = Fields
        /\ mid.scatter_queue \in Seq(Handlers)
    BY <1>1 DEF Founder, Fields, SameSynch, SameTimers
  <2>2. next = Founded(m)
    BY DEF Founded, Founder
  <2> HIDE DEF mid
  <2>3. OnlyPending(old, mid)
    BY <2>1, SamePending
  <2>4. Quiet(m, old, mid) /\ Settled(mid)
    BY <1>1, <2>1, <2>3 DEF Quiet, Keeps, PredecessorsKnown, Settled
  <2>5. "offer" \notin TokenHandlers /\ Offer(m).type = "offer"
    BY DEF TokenHandlers, Offer
  <2>6. Quiet(m, mid, next) /\ Settled(next)
    BY <2>1, <2>4, <2>5, QuietArm
  <2>7. Become(m, next, {Offer(m)})
    BY <1>2, <2>2
  <2> HIDE DEF next
  <2>8. Hushed(m, mid)
    BY <2>5, <2>6, <2>7 DEF Hushed
  <2> QED
    BY <2>4, <2>8, HushedTold
<1>3. CASE Become(m, [old EXCEPT !.status = "running"], {})
  <2> DEFINE next == [old EXCEPT !.status = "running"]
  <2>1. /\ SameKeys(old, next)
        /\ next.is_sponsor = old.is_sponsor
        /\ SameTimers(old, next)
        /\ SameSynch(old, next)
    BY <1>1 DEF SameKeys, SameTimers, SameSynch, Fields
  <2>2. Become(m, next, {})
    BY <1>3
  <2> HIDE DEF next
  <2>3. Quiet(m, old, next) /\ Settled(next)
    BY <2>1, QuietFlags DEF LocalOK
  <2> QED
    BY <2>2, <2>3, HushedSame, HushedTold
<1> QED
  BY <1>2, <1>3 DEF Launch

-----------------------------------------------------------------------------
(***************************************************************************)
(* Every step.                                                             *)
(***************************************************************************)
LEMMA NextTold ==
    ASSUME IInv, \A m \in Members : LocalOK(m, member[m]), Next
    PROVE  (\E m \in Members : Told(m)) \/ (\E m \in Members : Lose(m))
BY LaunchTold, ReceiveTold, ExpireTold, ScatterTold, TimeoutTold DEF Next

LEMMA Becomes ==
    ASSUME IInv, NEW m \in Members, NEW next, NEW msgs, Become(m, next, msgs)
    PROVE  /\ member'[m] = next
           /\ \A n \in Members : n # m => member'[n] = member[n]
           /\ \A n \in Members : \A msg \in net'[n] : msg \in net[n] \/ (n = m /\ msg \in msgs)
<1>1. member \in [Members -> {member[n] : n \in Members}] /\ net \in [Members -> SUBSET Messages]
  BY DEF IInv, Inv, NetOK
<1>2. member' = [member EXCEPT ![m] = next]
  BY DEF Become
<1>3. net' \in {net, [net EXCEPT ![m] = @ \cup msgs], [net EXCEPT ![m] = msgs]}
  BY NetworkAssumption DEF Become, Sent
<1> QED
  BY <1>1, <1>2, <1>3

LEMMA LoseKeeps ==
    ASSUME IInv, NEW m \in Members, Lose(m)
    PROVE  member' = member /\ \A n \in Members : net'[n] \subseteq net[n]
BY DEF Lose, IInv, NetOK

LEMMA KnowInit == Init => KnowInv
<1> SUFFICES ASSUME Init PROVE KnowInv
  OBVIOUS
<1>1. IInv
  BY InitInv
<1>2. ASSUME NEW m \in Members PROVE LocalOK(m, member[m])
  <2> DEFINE self == member[m]
  <2>1. /\ ~ IsAssigned(self)
        /\ self.synch_token_rcvd = FALSE
        /\ self.scatter_wait = "none"
        /\ self.scatter_queue = <<>>
    BY DEF Init, InitialMember, IsAssigned
  <2> HIDE DEF self
  <2>2. Len(self.scatter_queue) = 0
    BY <2>1
  <2>3. ~ Some(self, {"token"}) /\ ~ Some(self, {"finish"}) /\ ~ Some(self, {"founder_finish"})
    BY <2>1, <2>2 DEF Some, At
  <2>4. LocalOK(m, self)
    BY <2>1, <2>3 DEF LocalOK, PredecessorsKnown, Settled, TimersTell
  <2> QED
    BY <2>4 DEF self
<1> QED
  BY <1>1, <1>2 DEF KnowInv

LEMMA KnowNext == ASSUME SomebodyToAgreeWith, KnowInv, [Next]_vars PROVE KnowInv'
<1>1. IInv /\ \A m \in Members : LocalOK(m, member[m])
  BY DEF KnowInv
<1>2. IInv'
  BY <1>1, NextInv, StutterInv
<1>3. CASE Next /\ \E m \in Members : Told(m)
  <2>1. PICK m \in Members : Told(m)
    BY <1>3
  <2>2. PICK next, msgs : Become(m, next, msgs) /\ Goes(m, member[m], next)
    BY <2>1 DEF Told
  <2>3. \A n \in Members : LocalOK(n, member'[n])
    BY <1>1, <2>2, Becomes DEF Goes
  <2> QED
    BY <1>2, <2>3 DEF KnowInv
<1>4. CASE (Next /\ \E m \in Members : Lose(m)) \/ UNCHANGED vars
  <2>1. member' = member
    BY <1>1, <1>4, LoseKeeps DEF vars
  <2>2. \A n \in Members : LocalOK(n, member'[n])
    BY <1>1, <2>1
  <2> QED
    BY <1>2, <2>2 DEF KnowInv
<1> QED
  BY <1>1, <1>3, <1>4, NextTold

\* What every member makes of its own state is right, always.
LEMMA Knowledge == ASSUME SomebodyToAgreeWith PROVE Spec => []KnowInv
<1>1. Init => KnowInv
  BY KnowInit
<1>2. KnowInv /\ [Next]_vars => KnowInv'
  BY KnowNext
<1> QED
  BY <1>1, <1>2, PTL DEF Spec

LEMMA SponsorIsHighest ==
    ASSUME IInv, NEW m \in Members, member[m].is_sponsor
    PROVE  \A x \in History(member) :
              x.service = Service(m) => x.assigned_id <= member[m].member_id
<1>1. Service(m) \in Services /\ BatonOK(member)
  BY ServiceTypes DEF IInv, Inv
<1>2. IsSponsor(member, Service(m), m)
  BY DEF IsSponsor
<1> QED
  BY <1>1, <1>2 DEF BatonOK, SponsorHighest

LEMMA PredecessorsCounted ==
    ASSUME KnowInv, NEW m \in Members, IsAssigned(member[m]), ~ IsLastMember(m, member[m])
    PROVE  AllPredecessorsKnown(member[m]) <=> UnknownPredecessors(member[m]) = {}
<1> DEFINE self == member[m]
           id == self.member_id
           keys == DOMAIN self.assigned_keys
           H == History(member)
<1>1. MemberOK(H, m, self) /\ HistoryOK(H) /\ PredecessorsKnown(m, self)
  BY DEF KnowInv, IInv, Inv, LocalOK
<1>2. UnknownPredecessors(self) = {} <=> 1 .. id - 1 \subseteq keys
  BY DEF UnknownPredecessors
<1>3. CASE self.is_sponsor
  <2>1. \A x \in H : x.service = Service(m) => x.assigned_id <= id
    BY <1>3, SponsorIsHighest DEF KnowInv
  <2> HIDE DEF self, H
  <2>2. /\ keys \subseteq 1 .. id - 1
        /\ AllPredecessorsKnown(self) <=> keys = 1 .. id - 1
    BY <1>1, <2>1, SponsorKeys DEF self
  <2> QED
    BY <1>2, <2>2 DEF self
<1>4. CASE ~ self.is_sponsor
  <2> HIDE DEF self, H
  <2>1. 1 .. id - 1 \subseteq keys
    BY <1>1, <1>4 DEF PredecessorsKnown, self
  <2>2. /\ id \in 1 .. member_count[Service(m)]
        /\ keys \subseteq OtherMembers(m, self)
        /\ Cardinality(DOMAIN self.assigned_endpoints) = Cardinality(keys)
        /\ Cardinality(keys) \in Nat
    BY <1>1, OtherIds DEF self
  <2>3. member_count[Service(m)] \in Nat \ {0}
    BY ServiceTypes
  <2> HIDE DEF keys
  <2>4. IsFiniteSet(keys)
    <3>1. IsFiniteSet(1 .. member_count[Service(m)])
      BY <2>3, FS_Interval
    <3>2. keys \subseteq 1 .. member_count[Service(m)]
      BY <2>2 DEF OtherMembers
    <3> QED
      BY <3>1, <3>2, FS_Subset
  <2>5. Cardinality(1 .. id - 1) = id - 1
    <3>1. id \in Nat \ {0}
      BY <2>2, <2>3
    <3>2. CASE id = 1
      <4>1. 1 .. id - 1 = {}
        BY <3>2
      <4> QED
        BY <3>2, <4>1, FS_EmptySet
    <3>3. CASE id # 1
      <4>1. 1 \in Int /\ id - 1 \in Int /\ ~ 1 > id - 1 /\ id - 1 - 1 + 1 = id - 1
        BY <3>1, <3>3
      <4> QED
        BY <4>1, FS_Interval
    <3> QED
      BY <3>2, <3>3
  <2>6. Cardinality(1 .. id - 1) <= Cardinality(keys)
    BY <2>1, <2>4, FS_Subset
  <2>7. AllPredecessorsKnown(self)
    BY <2>2, <2>5, <2>6 DEF AllPredecessorsKnown, self
  <2> QED
    BY <1>2, <2>1, <2>7 DEF self, keys
<1> QED
  BY <1>3, <1>4

(***************************************************************************)
(* KnownCountsRight: the counts that all_predecessors_known and            *)
(* all_successors_known compare, and the ids that get_unknown_predecessors *)
(* and get_unknown_successors ask for, come from different maps and always *)
(* agree: a sponsor that waits asks for somebody, and a member that passes *)
(* the token on, or admits the next one, lacks nobody.                     *)
(***************************************************************************)
THEOREM CountsRight == ASSUME SomebodyToAgreeWith PROVE Spec => []KnownCountsRight
<1>1. KnowInv => KnownCountsRight
  <2> SUFFICES ASSUME KnowInv, NEW s \in Services, NEW m \in Assigned(s) \ LastMembers(s)
               PROVE  LET self == member[m]
                      IN  /\ AllPredecessorsKnown(self) <=> UnknownPredecessors(self) = {}
                          /\ AllPredecessorsKnown(self) =>
                                (AllSuccessorsKnown(m, self)
                                    <=> UnknownSuccessors(m, self) = {})
    BY DEF KnownCountsRight
  <2> DEFINE self == member[m]
             id == self.member_id
             top == member_count[Service(m)]
             keys == DOMAIN self.assigned_keys
  <2>1. m \in Members /\ IsAssigned(self) /\ ~ IsLastMember(m, self)
    BY DEF Assigned, LastMembers
  <2>2. AllPredecessorsKnown(self) <=> UnknownPredecessors(self) = {}
    BY <2>1, PredecessorsCounted
  <2>3. MemberOK(History(member), m, self) /\ HistoryOK(History(member))
    BY <2>1 DEF KnowInv, IInv, Inv
  <2> HIDE DEF self
  <2>4. id \in 1 .. top /\ (AllSuccessorsKnown(m, self) <=> KnowsEverybody(m, self))
    BY <2>1, <2>3, OtherIds
  <2>5. top \in Nat
    BY <2>1, ServiceTypes
  <2>6. UnknownPredecessors(self) = {} =>
            (KnowsEverybody(m, self) <=> UnknownSuccessors(m, self) = {})
    BY <2>4, <2>5
    DEF UnknownPredecessors, UnknownSuccessors, KnowsEverybody, OtherMembers
  <2> QED
    BY <2>2, <2>4, <2>6 DEF self
<1> QED
  BY <1>1, Knowledge, PTL

-----------------------------------------------------------------------------
(***************************************************************************)
(* That the loop leaves a member as it is says something of all its        *)
(* fields: a member is a record, as handlers make it from what it was.     *)
(***************************************************************************)
IsRecord(self) == self = [f \in DOMAIN self |-> self[f]]

Made(m) == \E next, msgs : Become(m, next, msgs) /\ IsRecord(next)

LEMMA MadePending ==
    ASSUME NEW m, NEW self, IsRecord(self), ProcessPendingRequest(m, self)
    PROVE  Made(m)
<1>1. \A h, x : IsRecord(Await(x, h))
  BY DEF IsRecord, Await
<1> QED
  BY <1>1 DEF ProcessPendingRequest, Admit, Made

LEMMA MadeAdding ==
    ASSUME NEW self, IsRecord(self), NEW next \in CheckAndAddNextBlindedKeys(self)
    PROVE  IsRecord(next)
BY DEF IsRecord, CheckAndAddNextBlindedKeys, AddKeys

LEMMA MadeNote ==
    ASSUME NEW m, NEW self, IsRecord(self), NEW e, NEW id
    PROVE  IsRecord(Note(m, self, e, id))
BY DEF IsRecord, Note

LEMMA MadeLearnInfo ==
    ASSUME NEW m, NEW self, IsRecord(self), NEW msg, NEW next \in LearnInfo(m, self, msg)
    PROVE  IsRecord(next)
<1> DEFINE noted == [Note(m, self, msg.from, msg.member_id) EXCEPT
                        !.pending_requests = @ \ {msg.from}]
<1>1. IsRecord(noted)
  BY DEF IsRecord
<1>2. next = self \/ next \in CheckAndAddNextBlindedKeys(noted)
  BY DEF LearnInfo
<1> HIDE DEF noted
<1> QED
  BY <1>1, <1>2, MadeAdding

LEMMA MadeAfterResponse ==
    ASSUME NEW m, NEW self, IsRecord(self), NEW msg
    PROVE  IsRecord(AfterResponse(m, self, msg))
<1>1. IsRecord(Learn(m, self, msg))
  BY DEF IsRecord, Learn
<1>2. IsRecord(TakeOver(m, Learn(m, self, msg), msg))
  BY DEF IsRecord, TakeOver
<1> QED
  BY <1>1, <1>2 DEF AfterResponse, BecomeSponsor

LEMMA MadeDone ==
    ASSUME NEW m, NEW self
    PROVE  IsRecord(Done(m, self))
BY DEF IsRecord, Done, Cancel, Await, ContributeStatistics

LEMMA ProcessMakes ==
    ASSUME NEW m, NEW msg, IsRecord(member[m]), Process(m, msg)
    PROVE  Made(m)
<1>1. \A h, x : IsRecord(Await(x, h))
  BY DEF IsRecord, Await
<1>2. \A x, n : IsRecord(CheckIfHigherMemberIdAssigned(m, x, n))
  BY DEF IsRecord, CheckIfHigherMemberIdAssigned
<1>3. CASE ProcessOffer(m, msg)
  BY <1>1, <1>2, <1>3 DEF ProcessOffer, Made
<1>4. CASE ProcessRequest(m, msg)
  <2> DEFINE noted == NoteRequest(m, member[m], msg)
             self == IF noted.member_id = INITIAL_SPONSOR_ID /\ noted.is_sponsor
                     THEN RecordTimestamp(noted, "KEY_AGREEMENT_START")
                     ELSE noted
  <2>1. IsRecord(noted)
    BY DEF IsRecord, NoteRequest
  <2>2. IsRecord(RecordTimestamp(noted, "KEY_AGREEMENT_START"))
    BY DEF IsRecord, RecordTimestamp
  <2>3. Become(m, self, {}) \/ ProcessPendingRequest(m, self)
    BY <1>4 DEF ProcessRequest
  <2>4. IsRecord(self)
    BY <2>1, <2>2
  <2> HIDE DEF self
  <2> QED
    BY <2>3, <2>4, MadePending DEF Made
<1>5. CASE ProcessResponse(m, msg)
  <2> DEFINE self == AfterResponse(m, member[m], msg)
  <2>1. IsRecord(self)
    BY MadeAfterResponse
  <2>2. \/ Become(m, self, {})
        \/ Become(m, StartSynchToken(m, self), {SynchToken(m, self)})
        \/ \E next \in CheckAndAddNextBlindedKeys(self) : ProcessPendingRequest(m, next)
    BY <1>5 DEF ProcessResponse
  <2> HIDE DEF self
  <2>3. IsRecord(StartSynchToken(m, self))
    BY <1>1 DEF StartSynchToken
  <2> QED
    BY <2>1, <2>2, <2>3, MadeAdding, MadePending DEF Made
<1>6. CASE ProcessMemberInfoRequest(m, msg)
  BY <1>1, <1>2, <1>6 DEF ProcessMemberInfoRequest, ScheduleResponse, Made
<1>7. CASE ProcessMemberInfoResponse(m, msg)
  BY <1>7, MadeLearnInfo, MadePending DEF ProcessMemberInfoResponse, Made
<1>8. CASE ProcessSynchToken(m, msg)
  <2> DEFINE self == [member[m] EXCEPT
                    !.higher_member_id_assigned = TRUE,
                    !.higher_member_id_synching = @ \/ msg.member_id > Rank(m, member[m])]
  <2>1. IsRecord(self)
    BY DEF IsRecord
  <2>2. TakeSynchToken(m, self) \/ Become(m, self, {})
    BY <1>8 DEF ProcessSynchToken
  <2> HIDE DEF self
  <2> QED
    BY <1>1, <2>1, <2>2 DEF TakeSynchToken, PassSynchToken, Made
<1>9. CASE ProcessMemberInfoSynchRequest(m, msg)
  <2> DEFINE self == [member[m] EXCEPT
                    !.higher_member_id_assigned = TRUE,
                    !.higher_member_id_synching = @ \/ KnownLater(m, member[m], msg.from)]
  <2>1. IsRecord(self)
    BY DEF IsRecord
  <2>2. Become(m, ScheduleResponse(m, self, msg, "synch_info"), {})
    BY <1>9 DEF ProcessMemberInfoSynchRequest
  <2> HIDE DEF self
  <2>3. IsRecord(ScheduleResponse(m, self, msg, "synch_info"))
    BY <1>1, <2>1 DEF ScheduleResponse
  <2> QED
    BY <2>2, <2>3 DEF Made
<1>10. CASE ProcessMemberInfoSynchResponse(m, msg)
  <2>1. \A x : IsRecord([x EXCEPT !.higher_member_id_assigned = TRUE])
    BY DEF IsRecord
  <2> QED
    BY <1>1, <1>10, <2>1 DEF ProcessMemberInfoSynchResponse, PassSynchToken, Made
<1>11. CASE ProcessFinish(m, msg)
  <2> DEFINE old == member[m]
             rcvd == [Finishing(old) EXCEPT !.finish_message_rcvd = TRUE]
             self == IF old.finish_message_rcvd
                     THEN rcvd
                     ELSE RecordTimestamp(rcvd, "DURATION_END")
             next == [Await(self, "founder_finish") EXCEPT !.timeout_wait = TRUE]
  <2>1. IsRecord(rcvd) /\ IsRecord(next)
    BY DEF IsRecord
  <2>2. \/ Become(m, Done(m, rcvd), {})
        \/ Become(m, self, {})
        \/ Become(m, next, {FinishAck(m), Finish(m)})
    BY <1>11 DEF ProcessFinish
  <2> HIDE DEF rcvd, next
  <2>3. IsRecord(self)
    BY <2>1 DEF RecordTimestamp, IsRecord
  <2> HIDE DEF self
  <2> QED
    BY <2>1, <2>2, <2>3, MadeDone DEF Made
<1>12. CASE ProcessFinishAck(m, msg)
  <2>1. IsRecord(Finishing(member[m]))
    BY DEF Finishing, IsRecord
  <2> QED
    BY <1>12, <2>1, MadeDone DEF ProcessFinishAck, Made
<1> QED
  BY <1>3, <1>4, <1>5, <1>6, <1>7, <1>8, <1>9, <1>10, <1>11, <1>12 DEF Process

LEMMA RunMakes ==
    ASSUME NEW m, NEW self, NEW h, IsRecord(self), RunHandler(m, self, h)
    PROVE  Made(m)
<1>1. \A x : IsRecord(Await(x, h))
  BY DEF IsRecord, Await
<1>2. \A x : /\ IsRecord([x EXCEPT !.request_scheduled = ~ @])
             /\ IsRecord([x EXCEPT !.response_scheduled = ~ @])
  BY DEF IsRecord
<1> QED
  BY <1>1, <1>2 DEF RunHandler, AnswerOnce, Made

LEMMA NextMakes ==
    ASSUME IInv, NEW m \in Members, IsRecord(member[m]),
           \/ Launch(m)
           \/ \E type \in MessageTypes : Receive(m, type)
           \/ ScatterExpires(m)
           \/ HandleScatter(m)
           \/ Timeout(m)
    PROVE  Made(m)
<1>1. CASE Launch(m)
  <2>1. IsRecord(Founded(m)) /\ IsRecord([member[m] EXCEPT !.status = "running"])
    BY DEF IsRecord, Founded, Await
  <2> QED
    BY <1>1, <2>1 DEF Launch, Made
<1>2. CASE \E type \in MessageTypes : Receive(m, type)
  BY <1>2, ProcessMakes DEF Receive
<1>3. CASE ScatterExpires(m)
  <2> DEFINE next == [member[m] EXCEPT
                         !.scatter_wait = "none",
                         !.scatter_queue = Append(@, member[m].scatter_wait)]
  <2>1. IsRecord(next)
    BY DEF IsRecord
  <2>2. Become(m, next, {})
    BY <1>3 DEF ScatterExpires, Become
  <2> QED
    BY <2>1, <2>2 DEF Made
<1>4. CASE HandleScatter(m)
  <2>1. \/ RunHandler(m, [member[m] EXCEPT !.scatter_queue = Tail(@)],
                      Head(member[m].scatter_queue))
        \/ RunHandler(m, [member[m] EXCEPT !.scatter_wait = "none"], member[m].scatter_wait)
    BY <1>4 DEF HandleScatter
  <2>2. \A x : /\ IsRecord([x EXCEPT !.scatter_queue = Tail(@)])
               /\ IsRecord([x EXCEPT !.scatter_wait = "none"])
    BY DEF IsRecord
  <2> QED
    BY <2>1, <2>2, RunMakes
<1>5. CASE Timeout(m)
  BY <1>5, MadeDone DEF Timeout, Made
<1> QED
  BY <1>1, <1>2, <1>3, <1>4, <1>5

RecordInvariant == KnowInv /\ \A m \in Members : IsRecord(member[m])

LEMMA RecordNext ==
    ASSUME SomebodyToAgreeWith, RecordInvariant, [Next]_vars
    PROVE  RecordInvariant'
<1>1. KnowInv /\ IInv /\ \A m \in Members : IsRecord(member[m])
  BY DEF RecordInvariant, KnowInv
<1>2. KnowInv'
  BY <1>1, KnowNext
<1>3. \/ \E m \in Members : Made(m)
      \/ \E m \in Members : Lose(m)
      \/ UNCHANGED vars
  BY <1>1, NextMakes DEF Next
<1>4. CASE \E m \in Members : Made(m)
  <2>1. PICK m \in Members : Made(m)
    BY <1>4
  <2>2. PICK next, msgs : Become(m, next, msgs) /\ IsRecord(next)
    BY <2>1 DEF Made
  <2>3. \A n \in Members : IsRecord(member'[n])
    BY <1>1, <2>2, Becomes
  <2> QED
    BY <1>2, <2>3 DEF RecordInvariant, IsRecord
<1>5. CASE (\E m \in Members : Lose(m)) \/ UNCHANGED vars
  <2>1. member' = member
    BY <1>1, <1>5, LoseKeeps DEF vars
  <2> QED
    BY <1>1, <1>2, <2>1 DEF RecordInvariant, IsRecord
<1> QED
  BY <1>3, <1>4, <1>5

LEMMA NothingToAdd ==
    ASSUME NEW H, NEW m, NEW self, MemberOK(H, m, self), IsRecord(self),
           IsAssigned(self), ~ self.is_sponsor, Settled(self),
           Cardinality(DOMAIN self.assigned_keys) \in Nat
    PROVE  CheckAndAddNextBlindedKeys(self) = {self}
<1> DEFINE last == LastKeyId(self)
           next == AddKeys(self, last)
<1>1. /\ self.member_id \in Nat \ {0}
      /\ self.keys_computed_count \in Nat
      /\ self.group_secret \in Seq(Members)
      /\ Len(self.group_secret) = last
      /\ DOMAIN self = Fields
  BY DEF MemberOK, CoreTypes, CountOK, IsAssigned, DEFAULT_MEMBER_ID
<1>2. last \in Nat /\ self.keys_computed_count = last - self.member_id + 1
  BY <1>1 DEF LastKeyId
<1>3. last + 1 \notin DOMAIN self.assigned_keys
  BY DEF Settled
<1>4. next = self
  <2>1. self.group_secret = [i \in 1 .. last |-> self.group_secret[i]]
    BY <1>1
  <2>2. [i \in 1 .. last |-> IF i <= last THEN self.group_secret[i]
                                          ELSE self.assigned_keys[i]]
          = [i \in 1 .. last |-> self.group_secret[i]]
    BY <1>2
  <2>3. next.group_secret = self.group_secret
    BY <1>1, <2>1, <2>2 DEF AddKeys, Fields
  <2>4. DOMAIN next = DOMAIN self /\ IsRecord(next)
    BY DEF AddKeys, IsRecord
  <2>5. \A f \in Fields : next[f] = self[f]
    BY <1>1, <1>2, <2>3 DEF AddKeys, Fields
  <2> HIDE DEF next
  <2> QED
    BY <1>1, <2>4, <2>5 DEF IsRecord
<1>5. LastAdded(self) = {last}
  <2> DEFINE count == Cardinality(DOMAIN self.assigned_keys)
  <2>1. last \in last .. last + count /\ \A id \in last + 1 .. last : FALSE
    BY <1>2
  <2>2. last \in LastAdded(self)
    BY <1>3, <2>1 DEF LastAdded
  <2>3. ASSUME NEW top \in LastAdded(self) PROVE top = last
    <3>1. /\ top \in last .. last + count
          /\ \A id \in last + 1 .. top : id \in DOMAIN self.assigned_keys
      BY DEF LastAdded
    <3>2. top # last => last + 1 \in last + 1 .. top
      BY <1>2, <3>1
    <3> QED
      BY <1>3, <3>1, <3>2
  <2> QED
    BY <2>2, <2>3
<1> QED
  BY <1>4, <1>5 DEF CheckAndAddNextBlindedKeys

(***************************************************************************)
(* NoKeyLeftOut: check_and_add_next_blinded_key_to_group_secret is called  *)
(* wherever a key may have been learnt or the role given up, so that a     *)
(* member that is not the sponsor never keeps a key that it could add.     *)
(***************************************************************************)
THEOREM KeysNeverLeftOut == ASSUME SomebodyToAgreeWith PROVE Spec => []NoKeyLeftOut
<1>1. Init => RecordInvariant
  <2> SUFFICES ASSUME Init PROVE RecordInvariant
    OBVIOUS
  <2>1. \A m \in Members : member[m] = InitialMember
    BY DEF Init
  <2>2. IsRecord(InitialMember)
    BY DEF IsRecord, InitialMember
  <2> QED
    BY <2>1, <2>2, KnowInit DEF RecordInvariant, IsRecord
<1>2. RecordInvariant /\ [Next]_vars => RecordInvariant'
  BY RecordNext
<1>3. RecordInvariant => NoKeyLeftOut
  <2> SUFFICES ASSUME RecordInvariant, NEW m \in Members,
                      ~ member[m].is_sponsor, IsAssigned(member[m])
               PROVE  CheckAndAddNextBlindedKeys(member[m]) = {member[m]}
    BY DEF NoKeyLeftOut
  <2>1. /\ MemberOK(History(member), m, member[m])
        /\ HistoryOK(History(member))
        /\ Settled(member[m])
        /\ IsRecord(member[m])
    BY DEF RecordInvariant, KnowInv, LocalOK, IInv, Inv
  <2>2. Cardinality(DOMAIN member[m].assigned_keys) \in Nat
    BY <2>1, OtherIds
  <2> QED
    BY <2>1, <2>2, NothingToAdd
<1> QED
  BY <1>1, <1>2, <1>3, PTL DEF Spec

-----------------------------------------------------------------------------
(***************************************************************************)
(* The token and finish keep saying the truth, since nobody forgets: an id *)
(* is not given up, and who knows everybody does so for ever.              *)
(***************************************************************************)
LEMMA ReachedKept ==
    ASSUME NEW a, NEW b, \A n \in Members : Keeps(a[n], b[n]), NEW k \in Nat,
           Reached(a, k)
    PROVE  Reached(b, k)
<1>1. \E l \in Members : IsLastMember(l, b[l])
  BY DEF Reached, Keeps, IsLastMember, IsAssigned
<1>2. ASSUME NEW id \in 1 .. k - 1
      PROVE  \E n \in Members : b[n].member_id = id /\ KnowsEverybody(n, b[n])
  <2>1. PICK n \in Members : a[n].member_id = id /\ KnowsEverybody(n, a[n])
    BY DEF Reached
  <2>2. IsAssigned(a[n])
    BY <2>1 DEF IsAssigned, DEFAULT_MEMBER_ID
  <2>3. b[n].member_id = id /\ KnowsEverybody(n, b[n])
    BY <2>1, <2>2 DEF Keeps, KnowsEverybody, OtherMembers
  <2> QED
    BY <2>3
<1> QED
  BY <1>1, <1>2 DEF Reached

LEMMA LastHasTokenKept ==
    ASSUME NEW a, NEW b, \A n \in Members : Keeps(a[n], b[n]),
           \A n \in Members : a[n].synch_token_rcvd => b[n].synch_token_rcvd,
           LastHasToken(a)
    PROVE  LastHasToken(b)
BY DEF LastHasToken, Keeps, IsLastMember, IsAssigned

LEMMA TokenTruthfulType ==
    ASSUME IInv, NEW n \in Members, NEW msg \in net[n], msg.type = "synch_token"
    PROVE  msg.member_id \in Nat
<1>1. msg \in Messages
  BY DEF IInv, NetOK, Truthful
<1>2. msg.member_id \in MemberIds
  BY <1>1 DEF Messages
<1> QED
  BY <1>2 DEF MemberIds

LEMMA FlagsKept ==
    ASSUME TokenInv, NEW m \in Members, NEW next, NEW msgs,
           Become(m, next, msgs), Goes(m, member[m], next)
    PROVE  /\ \A n \in Members : FlagsTell(member', n)
           /\ \A k \in Nat : Reached(member, k) => Reached(member', k)
           /\ LastHasToken(member) => LastHasToken(member')
<1> DEFINE old == member[m]
<1>1. IInv /\ LocalOK(m, old) /\ FlagsTell(member, m) /\ NetTells(net, member)
  BY DEF TokenInv, KnowInv
<1>2. member'[m] = next /\ \A n \in Members : n # m => member'[n] = member[n]
  BY <1>1, Becomes
<1>3. \A n \in Members : Keeps(member[n], member'[n])
  BY <1>2 DEF Goes, Keeps
<1>4. \A k \in Nat : Reached(member, k) => Reached(member', k)
  BY <1>3, ReachedKept
<1>5. LastHasToken(member) => LastHasToken(member')
  <2>1. \A n \in Members : member[n].synch_token_rcvd => member'[n].synch_token_rcvd
    BY <1>2 DEF Goes
  <2> QED
    BY <1>3, <2>1, LastHasTokenKept
<1>6. \A n \in Members : member[n].member_id \in Nat
  BY <1>1 DEF IInv, Inv, MemberOK, CoreTypes
<1>7. ASSUME NEW n \in Members, n # m PROVE FlagsTell(member', n)
  <2>1. FlagsTell(member, n) /\ member[n].member_id \in Nat /\ member[n].member_id + 1 \in Nat
    BY <1>6 DEF TokenInv
  <2> QED
    BY <1>2, <1>4, <1>5, <1>7, <2>1 DEF FlagsTell
<1>8. FlagsTell(member', m)
  <2>1. next.synch_token_rcvd => IsAssigned(next) /\ Reached(member', next.member_id)
    <3> SUFFICES ASSUME next.synch_token_rcvd
                 PROVE  IsAssigned(next) /\ Reached(member', next.member_id)
      OBVIOUS
    <3>1. IsAssigned(next)
      BY DEF Goes, LocalOK, TimersTell
    <3>2. CASE old.synch_token_rcvd
      <4>1. IsAssigned(old) /\ Reached(member, old.member_id)
        BY <1>1, <3>2 DEF LocalOK, TimersTell, FlagsTell
      <4>2. next.member_id = old.member_id
        BY <4>1 DEF Goes, Keeps
      <4> QED
        BY <1>4, <1>6, <3>1, <4>1, <4>2
    <3>3. CASE Heard(next.member_id)
      <4>1. PICK n \in Members : \E msg \in net[n] :
                msg.type = "synch_token" /\ msg.member_id = next.member_id
        BY <3>3 DEF Heard
      <4>2. PICK msg \in net[n] : msg.type = "synch_token" /\ msg.member_id = next.member_id
        BY <4>1
      <4>3. Reached(member, msg.member_id)
        BY <1>1, <4>2 DEF NetTells
      <4>4. msg.member_id \in Nat
        BY <1>1, <4>2, TokenTruthfulType
      <4> QED
        BY <1>4, <3>1, <4>2, <4>3, <4>4
    <3> QED
      BY <3>2, <3>3 DEF Goes
  <2>2. ASSUME next.synch_finished
        PROVE  /\ IsAssigned(next)
               /\ IsLastMember(m, next) \/ Reached(member', next.member_id + 1)
    <3>1. CASE old.synch_finished
      <4>1. /\ IsAssigned(old)
            /\ IsLastMember(m, old) \/ Reached(member, old.member_id + 1)
        BY <1>1, <3>1 DEF FlagsTell
      <4>2. next.member_id = old.member_id
        BY <4>1 DEF Goes, Keeps
      <4>3. old.member_id + 1 \in Nat
        BY <1>6
      <4> QED
        BY <1>4, <4>1, <4>2, <4>3 DEF IsAssigned, IsLastMember
    <3>2. CASE IsLastMember(m, next)
      BY <3>2 DEF IsLastMember
    <3>3. CASE next.synch_token_rcvd /\ KnowsEverybody(m, next)
      <4>1. IsAssigned(next) /\ Reached(member', next.member_id)
        BY <2>1, <3>3
      <4>2. next.member_id \in Nat
        <5>1. CASE old.synch_token_rcvd
          BY <1>1, <1>6, <5>1 DEF LocalOK, TimersTell, Goes, Keeps
        <5>2. CASE Heard(next.member_id)
          <6>1. PICK n \in Members : \E msg \in net[n] :
                    msg.type = "synch_token" /\ msg.member_id = next.member_id
            BY <5>2 DEF Heard
          <6> QED
            BY <1>1, <6>1, TokenTruthfulType
        <5> QED
          BY <3>3, <5>1, <5>2 DEF Goes
      <4>3. \A id \in 1 .. next.member_id : id \in 1 .. next.member_id - 1 \/ id = next.member_id
        BY <4>2
      <4>4. \A id \in 1 .. next.member_id :
                \E n \in Members : member'[n].member_id = id /\ KnowsEverybody(n, member'[n])
        BY <1>2, <3>3, <4>1, <4>3 DEF Reached
      <4>5. 1 .. (next.member_id + 1) - 1 = 1 .. next.member_id
        BY <4>2
      <4>6. \E l \in Members : IsLastMember(l, member'[l])
        BY <4>1 DEF Reached
      <4>7. Reached(member', next.member_id + 1)
        BY <4>4, <4>5, <4>6 DEF Reached
      <4> QED
        BY <4>1, <4>7
    <3> QED
      BY <2>2, <3>1, <3>2, <3>3 DEF Goes
  <2>3. next.finish_message_rcvd => LastHasToken(member')
    <3>1. CASE old.finish_message_rcvd
      BY <1>1, <1>5, <3>1 DEF FlagsTell
    <3>2. CASE Finishes(m)
      <4>1. \E n \in Members : \E msg \in net[n] : msg.type = "finish"
        BY <3>2 DEF Finishes, ProcessFinish
      <4> QED
        BY <1>1, <1>5, <4>1 DEF NetTells
    <3> QED
      BY <3>1, <3>2 DEF Goes
  <2> QED
    BY <1>2, <2>1, <2>2, <2>3 DEF FlagsTell
<1> QED
  BY <1>4, <1>5, <1>7, <1>8

LEMMA NetKept ==
    ASSUME TokenInv, NEW m \in Members, NEW next, NEW msgs,
           Become(m, next, msgs), Goes(m, member[m], next),
           \A msg \in msgs : Says(m, next, msg)
    PROVE  NetTells(net', member')
<1> SUFFICES ASSUME NEW n \in Members, NEW msg \in net'[n]
             PROVE  /\ msg.type = "synch_token" => Reached(member', msg.member_id)
                    /\ msg.type = "finish" => LastHasToken(member')
  BY DEF NetTells
<1>1. IInv /\ NetTells(net, member)
  BY DEF TokenInv, KnowInv
<1>2. /\ FlagsTell(member', m)
      /\ \A k \in Nat : Reached(member, k) => Reached(member', k)
      /\ LastHasToken(member) => LastHasToken(member')
  BY FlagsKept
<1>3. member'[m] = next /\ (msg \in net[n] \/ Says(m, next, msg))
  BY <1>1, Becomes
<1>4. CASE msg \in net[n]
  <2>1. msg.type = "synch_token" => msg.member_id \in Nat /\ Reached(member, msg.member_id)
    BY <1>1, <1>4, TokenTruthfulType DEF NetTells
  <2>2. msg.type = "finish" => LastHasToken(member)
    BY <1>1, <1>4 DEF NetTells
  <2> QED
    BY <1>2, <2>1, <2>2
<1>5. CASE Says(m, next, msg)
  <2>1. ASSUME msg.type = "synch_token"
        PROVE  Reached(member', msg.member_id)
    <3>1. /\ IsAssigned(next)
          /\ IsLastMember(m, next) \/ Reached(member', next.member_id + 1)
      BY <1>2, <1>3, <1>5, <2>1 DEF Says, FlagsTell
    <3>2. CASE next.member_id # member_count[Service(m)]
      BY <1>5, <2>1, <3>1, <3>2 DEF Says, IsLastMember
    <3>3. CASE next.member_id = member_count[Service(m)]
      <4>1. msg.member_id = 1
        BY <1>5, <2>1, <3>3 DEF Says
      <4>2. IsLastMember(m, member'[m])
        BY <1>3, <3>1, <3>3 DEF IsLastMember
      <4>3. 1 .. 1 - 1 = {}
        OBVIOUS
      <4> QED
        BY <4>1, <4>2, <4>3 DEF Reached
    <3> QED
      BY <3>2, <3>3
  <2>2. ASSUME msg.type = "finish"
        PROVE  LastHasToken(member')
    <3>1. next.finish_message_rcvd \/ (IsLastMember(m, next) /\ next.synch_token_rcvd)
      BY <1>5, <2>2 DEF Says
    <3> QED
      BY <1>2, <1>3, <3>1 DEF FlagsTell, LastHasToken
  <2> QED
    BY <2>1, <2>2
<1> QED
  BY <1>3, <1>4, <1>5

LEMMA TokenNext == ASSUME SomebodyToAgreeWith, TokenInv, [Next]_vars PROVE TokenInv'
<1>1. KnowInv /\ IInv /\ \A m \in Members : LocalOK(m, member[m])
  BY DEF TokenInv, KnowInv
<1>2. KnowInv'
  BY <1>1, KnowNext
<1>3. CASE \E m \in Members : Told(m)
  <2>1. PICK m \in Members : Told(m)
    BY <1>3
  <2>2. PICK next, msgs : /\ Become(m, next, msgs)
                          /\ Goes(m, member[m], next)
                          /\ \A msg \in msgs : Says(m, next, msg)
    BY <2>1 DEF Told
  <2>3. \A n \in Members : FlagsTell(member', n)
    BY <2>2, FlagsKept
  <2>4. NetTells(net', member')
    BY <2>2, NetKept
  <2> QED
    BY <1>2, <2>3, <2>4 DEF TokenInv
<1>4. CASE (\E m \in Members : Lose(m)) \/ UNCHANGED vars
  <2>1. member' = member /\ \A n \in Members : net'[n] \subseteq net[n]
    BY <1>1, <1>4, LoseKeeps DEF vars
  <2>2. NetTells(net', member')
    BY <2>1 DEF NetTells, TokenInv
  <2>3. \A n \in Members : FlagsTell(member', n)
    BY <2>1 DEF TokenInv
  <2> QED
    BY <1>2, <2>2, <2>3 DEF TokenInv
<1> QED
  BY <1>1, <1>3, <1>4, NextTold

LEMMA TokenInit == Init => TokenInv
<1> SUFFICES ASSUME Init PROVE TokenInv
  OBVIOUS
<1>1. \A m \in Members : net[m] = {} /\ member[m] = InitialMember
  BY DEF Init
<1>2. KnowInv
  BY KnowInit
<1>3. \A m \in Members : FlagsTell(member, m)
  BY <1>1 DEF FlagsTell, InitialMember
<1>4. NetTells(net, member)
  BY <1>1 DEF NetTells
<1> QED
  BY <1>2, <1>3, <1>4 DEF TokenInv

LEMMA TokenTells == ASSUME SomebodyToAgreeWith PROVE Spec => []TokenInv
<1>1. TokenInv /\ [Next]_vars => TokenInv'
  BY TokenNext
<1> QED
  BY <1>1, TokenInit, PTL DEF Spec

-----------------------------------------------------------------------------
(***************************************************************************)
(* What the token means.  It does not name the service, nor does finish:   *)
(* they mean something on a channel of one group only.                     *)
(***************************************************************************)
OneService == \A s, t \in Services : s = t

\* When there is a last member, all the ids are held.
LEMMA LastMeansAll ==
    ASSUME SomebodyToAgreeWith, IInv, NEW s \in Services, NEW l \in LastMembers(s)
    PROVE  /\ \A n \in Assigned(s) : member[n].member_id \in 1 .. member_count[s]
           /\ IsFiniteSet(Assigned(s))
           /\ Cardinality(Assigned(s)) = member_count[s]
<1> DEFINE H == History(member)
           top == member_count[s]
           g == member[l].group_secret
<1>1. /\ l \in Members
      /\ Service(l) = s
      /\ IsAssigned(member[l])
      /\ member[l].member_id = top
  BY DEF LastMembers, Assigned, IsLastMember
<1>2. HistoryOK(H) /\ \A n \in Members : MemberOK(H, n, member[n])
  BY DEF IInv, Inv
<1>3. top \in Nat \ {0}
  BY ServiceTypes
<1>4. /\ DOMAIN g = 1 .. top
      /\ g[top] = l
      /\ \A k \in 1 .. top : Gives(H, s, k, g[k])
  <2>1. LastKeyId(member[l]) \in top .. top /\ Len(g) = LastKeyId(member[l])
    BY <1>1, <1>2, LastIdKnown
  <2>2. g \in Seq(Members) /\ Backed(H, s, g) /\ g[top] = l
    BY <1>1, <1>2 DEF MemberOK, CoreTypes, CountOK
  <2>3. DOMAIN g = 1 .. top
    BY <1>3, <2>1, <2>2
  <2> QED
    BY <2>2, <2>3 DEF Backed
<1>5. \A n \in Assigned(s) :
          /\ n \in Members
          /\ member[n].member_id \in 1 .. top
          /\ Gives(H, s, member[n].member_id, n)
  BY <1>2, OtherIds, OwnId DEF Assigned
<1>6. ASSUME NEW k \in 1 .. top
      PROVE  g[k] \in Assigned(s) /\ member[g[k]].member_id = k
  <2>1. CASE k = top
    BY <1>1, <1>4, <2>1 DEF Assigned
  <2>2. CASE k # top
    <3>1. k + 1 \in 1 .. top /\ k + 1 # INITIAL_SPONSOR_ID
      BY <1>3, <2>2 DEF INITIAL_SPONSOR_ID
    <3>2. PICK x \in H : x.service = s /\ x.assigned_id = k + 1
      BY <1>4, <3>1 DEF Gives
    <3>3. Gives(H, s, (k + 1) - 1, x.from) /\ Service(x.from) = s /\ x.from \in Members
      BY <1>2, <3>2 DEF HistoryOK, AssignmentOK, Assignments
    <3>4. PICK n \in Members : x \in member[n].response_message_cache
      BY <3>2 DEF H, History
    <3>5. x.from = n /\ IsAssigned(member[n]) /\ k + 1 = member[n].member_id + 1
      BY <1>2, <3>2, <3>4 DEF MemberOK, CacheOK
    <3>6. member[n].member_id \in Nat
      BY <1>2 DEF MemberOK, CoreTypes
    <3>7. (k + 1) - 1 = k /\ member[n].member_id = k
      BY <3>5, <3>6
    <3>8. g[k] = n
      BY <1>2, <1>4, <3>3, <3>5, <3>7, GivesUnique
    <3> QED
      BY <3>3, <3>5, <3>7, <3>8 DEF Assigned
  <2> QED
    BY <2>1, <2>2
<1>7. ASSUME NEW n \in Assigned(s) PROVE \E k \in 1 .. top : g[k] = n
  <2>1. g[member[n].member_id] = n
    BY <1>2, <1>4, <1>5, GivesUnique
  <2> QED
    BY <1>5, <2>1
<1> HIDE DEF g, top
<1>8. ExistsBijection(1 .. top, Assigned(s))
  <2> DEFINE f == [k \in 1 .. top |-> g[k]]
  <2>1. f \in [1 .. top -> Assigned(s)]
    BY <1>6
  <2>2. \A j, k \in 1 .. top : f[j] = f[k] => j = k
    BY <1>6
  <2>3. \A n \in Assigned(s) : \E k \in 1 .. top : f[k] = n
    BY <1>7
  <2> HIDE DEF f
  <2>4. f \in Bijection(1 .. top, Assigned(s))
    BY <2>1, <2>2, <2>3 DEF Bijection, Injection, Surjection, IsInjective
  <2> QED
    BY <2>4 DEF ExistsBijection
<1>9. IsFiniteSet(1 .. top) /\ Cardinality(1 .. top) = top
  <2>1. 1 \in Int /\ top \in Int /\ ~ 1 > top /\ top - 1 + 1 = top
    BY <1>3
  <2> QED
    BY <2>1, FS_Interval
<1>10. IsFiniteSet(Assigned(s)) /\ Cardinality(Assigned(s)) = top
  BY <1>8, <1>9, FS_Bijection
<1> QED
  BY <1>5, <1>10 DEF top

\* With one group, whom the token got past is complete.
LEMMA ReachedComplete ==
    ASSUME SomebodyToAgreeWith, OneService, KnowInv, NEW s \in Services, NEW k \in Nat,
           Reached(member, k), NEW n \in Assigned(s), member[n].member_id < k
    PROVE  KeyComplete(n, member[n]) /\ LastKeyId(member[n]) = member_count[s]
<1>1. PICK l \in Members : IsLastMember(l, member[l])
  BY DEF Reached
<1>2. l \in LastMembers(s)
  BY <1>1, ServiceTypes DEF OneService, LastMembers, Assigned, IsLastMember
<1>3. /\ n \in Members
      /\ Service(n) = s
      /\ IsAssigned(member[n])
      /\ MemberOK(History(member), n, member[n])
      /\ HistoryOK(History(member))
      /\ Settled(member[n])
  BY DEF Assigned, KnowInv, IInv, Inv, LocalOK
<1>4. ~ member[n].is_sponsor
  BY <1>2, <1>3, LastHasIt DEF IsSponsor, KnowInv
<1>5. member[n].member_id \in 1 .. k - 1
  BY <1>3, OwnId
<1>6. PICK i \in Members :
          member[i].member_id = member[n].member_id /\ KnowsEverybody(i, member[i])
  BY <1>5 DEF Reached
<1>7. i = n
  <2>1. IsAssigned(member[i]) /\ Service(i) = s
    BY <1>3, <1>6, ServiceTypes DEF IsAssigned, OneService
  <2>2. /\ Gives(History(member), s, member[n].member_id, i)
        /\ Gives(History(member), s, member[n].member_id, n)
    BY <1>3, <1>6, <2>1, AssignedAre DEF KnowInv
  <2> QED
    BY <1>3, <2>2, GivesUnique
<1> QED
  BY <1>3, <1>4, <1>6, <1>7, Complete

(***************************************************************************)
(* TokenMeansSynched: process_synch_token and                              *)
(* process_member_info_synch_response_ pass the token on, and the handler  *)
(* of scatter_timer_ repeats it, only when what it says is true: everybody *)
(* has an id, and all the members that had the token know everybody and    *)
(* have the group key.                                                     *)
(***************************************************************************)
THEOREM TokenMeans ==
    ASSUME SomebodyToAgreeWith, OneService PROVE Spec => []TokenMeansSynched
<1>1. TokenInv => TokenMeansSynched
  <2> SUFFICES ASSUME TokenInv, NEW s \in Services, NEW m \in Assigned(s),
                      member[m].synch_finished
               PROVE  /\ Cardinality(Assigned(s)) = member_count[s]
                      /\ m \notin LastMembers(s) =>
                            \A n \in Assigned(s) :
                                member[n].member_id <= member[m].member_id
                                    => KeyComplete(n, member[n])
    BY DEF TokenMeansSynched
  <2>1. /\ m \in Members
        /\ KnowInv
        /\ IInv
        /\ IsLastMember(m, member[m]) \/ Reached(member, member[m].member_id + 1)
    BY DEF TokenInv, FlagsTell, KnowInv, Assigned
  <2>2. PICK l \in Members : IsLastMember(l, member[l])
    BY <2>1 DEF Reached
  <2>3. l \in LastMembers(s)
    BY <2>2, ServiceTypes DEF OneService, LastMembers, Assigned, IsLastMember
  <2>4. Cardinality(Assigned(s)) = member_count[s]
    BY <2>1, <2>3, LastMeansAll
  <2>5. ASSUME m \notin LastMembers(s), NEW n \in Assigned(s),
               member[n].member_id <= member[m].member_id
        PROVE  KeyComplete(n, member[n])
    <3>1. Reached(member, member[m].member_id + 1)
      BY <2>1, <2>5 DEF LastMembers
    <3>2. member[m].member_id \in Nat /\ member[n].member_id \in Nat
      BY <2>1 DEF IInv, Inv, MemberOK, CoreTypes, Assigned
    <3>3. member[m].member_id + 1 \in Nat /\ member[n].member_id < member[m].member_id + 1
      BY <2>5, <3>2
    <3> QED
      BY <2>1, <3>1, <3>3, ReachedComplete
  <2> QED
    BY <2>4, <2>5
<1> QED
  BY <1>1, TokenTells, PTL

-----------------------------------------------------------------------------
(***************************************************************************)
(* What finish means, when no more members are started for a group than    *)
(* its founder was told.                                                   *)
(***************************************************************************)
GroupOf(s) == {m \in Members : Service(m) = s}

NoSurplusMember ==
    \A s \in Services :
        IsFiniteSet(GroupOf(s)) /\ Cardinality(GroupOf(s)) <= member_count[s]

\* When there is a last member, nobody is without an id.
LEMMA NobodyLeft ==
    ASSUME SomebodyToAgreeWith, NoSurplusMember, IInv, NEW s \in Services,
           NEW l \in LastMembers(s)
    PROVE  Assigned(s) = GroupOf(s)
<1>1. IsFiniteSet(GroupOf(s)) /\ Cardinality(GroupOf(s)) <= member_count[s]
  BY DEF NoSurplusMember
<1>2. Assigned(s) \subseteq GroupOf(s)
  BY DEF Assigned, GroupOf
<1>3. Cardinality(Assigned(s)) = member_count[s]
  BY LastMeansAll
<1>4. /\ Cardinality(Assigned(s)) <= Cardinality(GroupOf(s))
      /\ Cardinality(Assigned(s)) = Cardinality(GroupOf(s)) => Assigned(s) = GroupOf(s)
  BY <1>1, <1>2, FS_Subset
<1>5. Cardinality(GroupOf(s)) \in Nat /\ member_count[s] \in Nat
  BY <1>1, FS_CardinalityType, ServiceTypes
<1> QED
  BY <1>1, <1>3, <1>4, <1>5

LEMMA FinishComplete ==
    ASSUME SomebodyToAgreeWith, OneService, NoSurplusMember, TokenInv,
           LastHasToken(member), NEW n \in Members
    PROVE  /\ IsAssigned(member[n])
           /\ LastKeyId(member[n]) = member_count[Service(n)]
           /\ Keyed(n)
           /\ ~ IsLastMember(n, member[n]) => KeyComplete(n, member[n])
<1> DEFINE s == Service(n)
           top == member_count[s]
<1>1. KnowInv /\ IInv /\ s \in Services /\ top \in Nat
  BY ServiceTypes DEF TokenInv, KnowInv
<1>2. PICK l \in Members : IsLastMember(l, member[l]) /\ member[l].synch_token_rcvd
  BY DEF LastHasToken
<1>3. l \in LastMembers(s) /\ member[l].member_id = top /\ Service(l) = s
  BY <1>1, <1>2, ServiceTypes DEF OneService, LastMembers, Assigned, IsLastMember
<1>4. Reached(member, top)
  BY <1>2, <1>3 DEF TokenInv, FlagsTell
<1>5. n \in Assigned(s)
  BY <1>1, <1>3, NobodyLeft DEF GroupOf
<1>6. /\ IsAssigned(member[n])
      /\ MemberOK(History(member), n, member[n])
      /\ HistoryOK(History(member))
  BY <1>1, <1>5 DEF Assigned, IInv, Inv
<1>7. /\ LastKeyId(member[n]) \in member[n].member_id .. top
      /\ Len(member[n].group_secret) = LastKeyId(member[n])
      /\ member[n].member_id \in 1 .. top
  BY <1>6, LastIdKnown, OtherIds
<1>8. CASE member[n].member_id = top
  <2>1. LastKeyId(member[n]) = top /\ IsLastMember(n, member[n])
    BY <1>1, <1>6, <1>7, <1>8 DEF IsLastMember
  <2> QED
    BY <1>6, <1>7, <2>1 DEF Keyed
<1>9. CASE member[n].member_id # top
  <2>1. member[n].member_id < top
    BY <1>1, <1>7, <1>9
  <2>2. KeyComplete(n, member[n]) /\ LastKeyId(member[n]) = top
    BY <1>1, <1>4, <1>5, <2>1, ReachedComplete
  <2> QED
    BY <1>6, <1>7, <2>2 DEF Keyed
<1> QED
  BY <1>8, <1>9

(***************************************************************************)
(* FinishMeansKeyed: the last member sends finish when process_synch_token *)
(* finds that the token is back, the founder when process_finish received  *)
(* it.  By then every member has computed the group key, so process_finish *)
(* and process_finish_ack, which cancel the timer of a member, leave none  *)
(* behind without it.                                                      *)
(***************************************************************************)
THEOREM FinishMeans ==
    ASSUME SomebodyToAgreeWith, OneService, NoSurplusMember
    PROVE  Spec => []FinishMeansKeyed
<1>1. TokenInv => FinishMeansKeyed
  <2> SUFFICES ASSUME TokenInv, NEW m \in Members, Finished(m), NEW n \in Members
               PROVE  Keyed(n)
    BY DEF FinishMeansKeyed
  <2>1. LastHasToken(member)
    BY DEF Finished, TokenInv, FlagsTell, LastHasToken
  <2> QED
    BY <2>1, FinishComplete
<1> QED
  BY <1>1, TokenTells, PTL

\* process_finish at a member that is not the founder: who knows its
\* predecessors is complete.
LEMMA FinishEndsMember ==
    ASSUME SomebodyToAgreeWith, OneService, NoSurplusMember, TokenInv, NEW m \in Members,
           ~ IsFounder(m), Receive(m, "finish")
    PROVE  \/ member'[m].status = "stopped"
           \/ IsLastMember(m, member[m]) /\ UnknownPredecessors(member'[m]) # {}
<1> DEFINE old == member[m]
           rcvd == [Finishing(old) EXCEPT !.finish_message_rcvd = TRUE]
           mid == Cancel(rcvd)
<1>1. /\ KnowInv
      /\ IInv
      /\ MemberOK(History(member), m, old)
      /\ HistoryOK(History(member))
      /\ DOMAIN old = Fields
  BY DEF TokenInv, KnowInv, IInv, Inv, MemberOK, CoreTypes
<1>2. PICK n \in Members \ {m} : \E msg \in net[n] : msg.type = "finish" /\ Process(m, msg)
  BY DEF Receive
<1>3. PICK msg \in net[n] : ProcessFinish(m, msg)
  BY <1>2 DEF Process, ProcessOffer, ProcessRequest, ProcessResponse, ProcessMemberInfoRequest,
              ProcessMemberInfoResponse, ProcessSynchToken, ProcessMemberInfoSynchRequest,
              ProcessMemberInfoSynchResponse, ProcessFinishAck
<1>4. LastHasToken(member)
  BY <1>3 DEF ProcessFinish, TokenInv, NetTells
<1>5. /\ IsAssigned(old)
      /\ ~ IsLastMember(m, old) => KeyComplete(m, old)
  BY <1>4, FinishComplete
<1>6. old.member_id # INITIAL_SPONSOR_ID
  <2> SUFFICES ASSUME old.member_id = INITIAL_SPONSOR_ID PROVE FALSE
    OBVIOUS
  <2>1. Gives(History(member), Service(m), INITIAL_SPONSOR_ID, m)
    BY <1>1, <1>5, OwnId
  <2>2. Gives(History(member), Service(m), INITIAL_SPONSOR_ID, founder[Service(m)])
    BY DEF Gives
  <2> QED
    BY <1>1, <2>1, <2>2, ServiceTypes, GivesUnique DEF IsFounder
<1>7. Become(m, ContributeStatistics(m, mid), {})
  BY <1>3, <1>6 DEF ProcessFinish, Done
<1>8. ASSUME IsLastMember(m, old), UnknownPredecessors(old) = {}
      PROVE  KeyComplete(m, old)
  <2>1. ~ old.is_sponsor
    <3>1. m \in LastMembers(Service(m)) /\ Service(m) \in Services
      BY <1>5, <1>8, ServiceTypes DEF LastMembers, Assigned
    <3> QED
      BY <1>1, <3>1, LastHasIt DEF IsSponsor
  <2>2. KnowsEverybody(m, old)
    BY <1>1, <1>5, <1>8, OwnId, ServiceTypes
    DEF KnowsEverybody, OtherMembers, UnknownPredecessors, IsLastMember
  <2>3. Settled(old)
    BY <1>1, <1>8, LastSettled
  <2>4. KeyComplete(m, old)
    BY <1>1, <1>5, <2>1, <2>2, <2>3, Complete
  <2> QED
    BY <2>4
<1> HIDE DEF old
<1>9. /\ mid.assigned_keys = old.assigned_keys
      /\ mid.assigned_endpoints = old.assigned_endpoints
      /\ mid.member_id = old.member_id
      /\ mid.keys_computed_count = old.keys_computed_count
      /\ DOMAIN mid = Fields
  BY <1>1 DEF Finishing, Cancel, Await, Fields
<1> HIDE DEF mid
<1>10. member'[m] = ContributeStatistics(m, mid)
  BY <1>1, <1>7, Becomes
<1>11. CASE IsLastMember(m, old) /\ UnknownPredecessors(old) # {}
  <2>1. /\ member'[m].assigned_keys = old.assigned_keys
        /\ member'[m].member_id = old.member_id
    BY <1>9, <1>10 DEF ContributeStatistics, Fields
  <2> QED
    BY <1>11, <2>1 DEF UnknownPredecessors, old
<1>12. CASE KeyComplete(m, old)
  <2>1. KeyComplete(m, mid)
    BY <1>9, <1>12 DEF KeyComplete, IsAssigned
  <2>2. ContributeStatistics(m, mid).status = "stopped"
    BY <1>9, <2>1 DEF ContributeStatistics, Fields
  <2> QED
    BY <1>10, <2>2
<1> QED
  BY <1>5, <1>8, <1>11, <1>12 DEF old

(***************************************************************************)
(* FinishShutsDown: finish "for triggering other members to contribute     *)
(* statistics and shut down" (str_dh.cpp:273) does so: whoever sends it,   *)
(* and however late it comes, it stops a subscriber, unless this is a last *)
(* member that missed a predecessor.  By then everybody has the group key  *)
(* (FinishMeans), and a member that is complete has counted its keys right *)
(* (Complete), so that no guard of the handler holds it back.              *)
(***************************************************************************)
THEOREM FinishEnds ==
    ASSUME SomebodyToAgreeWith, OneService, NoSurplusMember PROVE Spec => FinishShutsDown
<1>1. ASSUME TokenInv
      PROVE  [\A m \in Members : Receive(m, "finish") /\ ~ IsFounder(m) =>
                 \/ member'[m].status = "stopped"
                 \/ IsLastMember(m, member[m]) /\ UnknownPredecessors(member'[m]) # {}]_vars
  BY <1>1, FinishEndsMember
<1> QED
  BY <1>1, TokenTells, PTL DEF FinishShutsDown
=============================================================================
