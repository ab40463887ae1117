------------------------- MODULE StrDhRtxDutyProofs -------------------------
(***************************************************************************)
(* Proofs about StrDhRtx: who has to go on.                                *)
(*                                                                         *)
(* All that a member repeats shares one timer.  The proofs show that the   *)
(* timer is armed for something else, or no longer armed, only when what   *)
(* it was armed for has been heard, whatever is lost and in whatever order *)
(* the handlers run - as long as nobody is told to answer by a member that *)
(* does not ask any more (FreshSpec): an offer or an information request   *)
(* comes from the sponsor, and while there is one nobody else has anything *)
(* to repeat; a synch request comes from the member that has the token,    *)
(* and whoever comes after it has nothing to repeat either.                *)
(*                                                                         *)
(* The invariant of StrDhRtxTokenProofs says that what the members believe *)
(* is right; the one here, that somebody always has something to repeat,   *)
(* until the founder stops.                                                *)
(***************************************************************************)
EXTENDS StrDhRtxTokenProofs

OneGroup == SomebodyToAgreeWith /\ OneService

Asks(self, handler) == handler \in Pending(self)

Holds(self) == self.synch_token_rcvd /\ ~ self.synch_finished

Passed(m, self) == self.synch_finished /\ ~ IsLastMember(m, self)

(***************************************************************************)
(* What the timers and flags of a member say of itself: a handler that is  *)
(* queued and runs late does not arm the timer again for something that is *)
(* over, since that would cancel what is not.  Whoever has, or passed on,  *)
(* the token repeats no response, and the last member, once it has the     *)
(* token back, no token.  The founder that received finish waits for its   *)
(* timeout or is done.  Nobody else is ended by an exception.              *)
(***************************************************************************)
DutyOK(m, self) ==
    /\ Passed(m, self) => self.synch_token_rcvd
    /\ IsLastMember(m, self) =>
          self.synch_finished /\ self.last_member_synch_token_sending_triggered
    /\ IsLastMember(m, self) /\ self.synch_token_rcvd => self.higher_member_id_synching
    /\ self.synch_token_rcvd \/ self.synch_finished => self.higher_member_id_assigned
    /\ Asks(self, "predecessors") => IsAssigned(self) /\ ~ IsLastMember(m, self)
    /\ Asks(self, "successors") => self.synch_token_rcvd /\ ~ IsLastMember(m, self)
    /\ Asks(self, "response") => self.response_message_cache # {}
    /\ Asks(self, "founder_finish") => IsFounder(m)
    /\ self.timeout_wait => IsFounder(m) /\ self.finish_message_rcvd
    /\ IsFounder(m) /\ self.finish_message_rcvd => self.timeout_wait \/ self.status = "stopped"
    /\ self.status \in {"running", "stopped"} \/ IsFounder(m) \/ ~ IsAssigned(self)

(***************************************************************************)
(* What a message says of its sender, however late it is received.         *)
(***************************************************************************)
SaysNow(m, self, msg) ==
    /\ msg.type = "info_request" =>
          IsAssigned(self) /\ \A id \in msg.requested : id < self.member_id
    /\ msg.type = "synch_request" =>
          IsAssigned(self) /\ \A id \in msg.requested : id > self.member_id
    /\ msg.type = "synch_token" =>
          /\ self.synch_finished
          /\ IsAssigned(self)
          /\ msg.member_id = IF IsLastMember(m, self) THEN 1 ELSE self.member_id + 1
    /\ msg.type = "finish" =>
          \/ IsLastMember(m, self) /\ self.synch_token_rcvd
          \/ IsFounder(m) /\ self.finish_message_rcvd
    /\ msg.type = "finish_ack" => IsFounder(m) /\ self.finish_message_rcvd

(***************************************************************************)
(* What the state self of m says of the members mem: the signs that later  *)
(* members go on are right.                                                *)
(***************************************************************************)
HasLast(mem) == \E l \in Members : IsLastMember(l, mem[l])

HasHigher(mem, self) ==
    IsAssigned(self) /\ \E n \in Members : mem[n].member_id > self.member_id

\* The token that p passed on was received.
HeardBy(mem, p, self) ==
    \E n \in Members :
        mem[n].synch_token_rcvd /\ (IsLastMember(p, self) \/ mem[n].member_id > self.member_id)

AllBefore(mem, k) ==
    \A id \in 1 .. k - 1 : \E n \in Members : mem[n].member_id = id /\ mem[n].synch_finished

SignsRight(mem, m, self) ==
    /\ self.synch_token_rcvd => AllBefore(mem, self.member_id)
    /\ self.higher_member_id_assigned => HasLast(mem) \/ HasHigher(mem, self)
    /\ self.higher_member_id_synching =>
          HasLast(mem) /\ (IsAssigned(self) => HeardBy(mem, m, self))
    /\ Asks(self, "synch_info") => HasLast(mem)
    /\ self.status = "stopped" => LastHasToken(mem)

(***************************************************************************)
(* What m still has to get across, it repeats: as the sponsor it looks for *)
(* members, or for the predecessors it does not know; it repeats a         *)
(* response whose addressee has no id yet; with the token it looks for the *)
(* successors it does not know; it repeats the token it passed on, and the *)
(* last member its finish.                                                 *)
(***************************************************************************)
Looks(self) ==
    \/ Asks(self, "offer")
    \/ Asks(self, "predecessors") /\ ~ AllPredecessorsKnown(self)

GaveOver(mem, self) == \A x \in self.response_message_cache : IsAssigned(mem[x.new_sponsor])

TokenHeard(mem, m, self) ==
    HeardBy(mem, m, self) \/ (IsLastMember(m, self) /\ self.synch_token_rcvd)

FounderHeard(mem, m, self) ==
    IsLastMember(m, self) /\ self.synch_token_rcvd
        => mem[founder[Service(m)]].finish_message_rcvd

GoesOn(mem, m, self) ==
    /\ self.is_sponsor => Looks(self)
    /\ GaveOver(mem, self) \/ Asks(self, "response")
    /\ Holds(self) => AllSuccessorsKnown(m, self) \/ Asks(self, "successors")
    /\ self.synch_finished => TokenHeard(mem, m, self) \/ Asks(self, "token")
    /\ FounderHeard(mem, m, self) \/ (Asks(self, "finish") /\ self.status # "stopped")

SignsOK(mem, m, self) == SignsRight(mem, m, self) /\ GoesOn(mem, m, self)

\* Where the token is: sent and not heard, held, or back at the last member.
TokenAt(mem, p) ==
    \/ mem[p].synch_finished /\ ~ HeardBy(mem, p, mem[p])
    \/ Holds(mem[p])
    \/ IsLastMember(p, mem[p]) /\ mem[p].synch_token_rcvd

Duties ==
    /\ \A m \in Members : DutyOK(m, member[m]) /\ SignsOK(member, m, member[m])
    /\ \A m \in Members : \A msg \in net[m] :
          SaysNow(m, member[m], msg) /\ (msg.type = "synch_response" => HasLast(member))
    /\ HasLast(member) => \E p \in Members : TokenAt(member, p)

DutyInv == TokenInv /\ Duties


-----------------------------------------------------------------------------
(***************************************************************************)
(* What the invariants proved so far say of one member and of two.         *)
(***************************************************************************)
LEMMA MemberFacts ==
    ASSUME IInv, NEW m \in Members
    PROVE  /\ HistoryOK(History(member))
           /\ MemberOK(History(member), m, member[m])
           /\ CoreTypes(member[m])
           /\ DOMAIN member[m] = Fields
           /\ member[m].member_id \in Nat
           /\ Service(m) \in Services
           /\ founder[Service(m)] \in Members
           /\ member_count[Service(m)] \in Nat \ {0}
           /\ \A x \in member[m].response_message_cache : x.new_sponsor \in Members
<1>1. /\ HistoryOK(History(member))
      /\ MemberOK(History(member), m, member[m])
      /\ CoreTypes(member[m])
  BY DEF IInv, Inv, MemberOK
<1>2. DOMAIN member[m] = Fields /\ member[m].member_id \in Nat
  BY <1>1 DEF CoreTypes
<1>3. ASSUME NEW x \in member[m].response_message_cache PROVE x.new_sponsor \in Members
  <2>1. x \in History(member)
    BY HistoryMember
  <2> QED
    BY <1>1, <2>1 DEF HistoryOK, AssignmentOK, Assignments
<1> QED
  BY <1>1, <1>2, <1>3, ServiceTypes

LEMMA IdsOnce ==
    ASSUME OneService, IInv, NEW m \in Members, NEW n \in Members, IsAssigned(member[m]),
           member[n].member_id = member[m].member_id
    PROVE  n = m
<1>1. IsAssigned(member[n])
  BY DEF IsAssigned
<1>2. /\ Gives(History(member), Service(m), member[m].member_id, m)
      /\ Gives(History(member), Service(n), member[m].member_id, n)
  BY <1>1, AssignedAre
<1>3. Service(n) = Service(m) /\ Service(m) \in Services
  BY ServiceTypes DEF OneService
<1> QED
  BY <1>2, <1>3, GivesUnique, MemberFacts

\* Whoever has an id was given it: the first by nobody.
LEMMA WasGiven ==
    ASSUME OneService, IInv, NEW m \in Members, NEW n \in Members, IsAssigned(member[n])
    PROVE  \/ member[n].member_id = 1
           \/ \E x \in History(member) :
                 /\ x.service = Service(m)
                 /\ x.assigned_id = member[n].member_id
                 /\ x.new_sponsor = n
<1>1. Gives(History(member), Service(n), member[n].member_id, n)
  BY AssignedAre
<1>2. Service(n) = Service(m)
  BY ServiceTypes DEF OneService
<1> QED
  BY <1>1, <1>2 DEF Gives, INITIAL_SPONSOR_ID

LEMMA SponsorBeyond ==
    ASSUME OneService, IInv, NEW m \in Members, member[m].is_sponsor, NEW n \in Members
    PROVE  /\ member[n].member_id <= member[m].member_id
           /\ IsAssigned(member[m])
           /\ member[m].member_id < member_count[Service(m)]
<1>1. /\ member[m].member_id \in Nat
      /\ member[n].member_id \in Nat
      /\ member[m].member_id < member_count[Service(m)]
      /\ IsAssigned(member[m])
  BY MemberFacts DEF IInv, Room, MemberOK, CountOK
<1>2. CASE ~ IsAssigned(member[n])
  BY <1>1, <1>2 DEF IsAssigned, DEFAULT_MEMBER_ID
<1>3. CASE IsAssigned(member[n])
  <2>1. CASE member[n].member_id = 1
    BY <1>1, <2>1 DEF IsAssigned, DEFAULT_MEMBER_ID
  <2>2. ASSUME NEW x \in History(member), x.service = Service(m),
               x.assigned_id = member[n].member_id
        PROVE  member[n].member_id <= member[m].member_id
    BY <2>2, SponsorIsHighest
  <2> QED
    BY <1>1, <1>3, <2>1, <2>2, WasGiven
<1> QED
  BY <1>1, <1>2, <1>3

\* When there is a last member, nobody looks for another one.
LEMMA LastAlone ==
    ASSUME OneGroup, IInv, HasLast(member)
    PROVE  /\ \A m \in Members : ~ member[m].is_sponsor
           /\ \A m \in Members : GaveOver(member, member[m])
           /\ \A x \in History(member) : IsAssigned(member[x.new_sponsor])
<1>1. PICK l \in Members : IsLastMember(l, member[l])
  BY DEF HasLast
<1>2. \A m \in Members : Service(m) = Service(l) /\ Service(l) \in Services
  BY ServiceTypes DEF OneService, OneGroup
<1>3. l \in LastMembers(Service(l))
  BY <1>1 DEF LastMembers, Assigned, IsLastMember
<1>4. /\ \A n \in Members : ~ IsSponsor(member, Service(l), n)
      /\ \A y : ~ OnItsWay(member, Service(l), y)
  BY <1>2, <1>3, LastHasIt DEF OneGroup
<1>5. ASSUME NEW x \in History(member) PROVE IsAssigned(member[x.new_sponsor])
  <2>1. x.service \in Services
    BY MemberFacts, <1>1 DEF HistoryOK, AssignmentOK, Assignments
  <2>2. x.service = Service(l)
    BY <1>2, <2>1 DEF OneService, OneGroup
  <2> QED
    BY <1>4, <2>2 DEF OnItsWay
<1> QED
  BY <1>2, <1>4, <1>5, HistoryMember DEF IsSponsor, GaveOver

\* Who was given an id and does not know it has the highest one.
LEMMA TransitTop ==
    ASSUME OneGroup, IInv, NEW x \in History(member), ~ IsAssigned(member[x.new_sponsor])
    PROVE  /\ \A m \in Members : ~ member[m].is_sponsor
           /\ \A n \in Members : member[n].member_id < x.assigned_id
           /\ \A y \in History(member) : y.assigned_id <= x.assigned_id
           /\ ~ HasLast(member)
<1>1. /\ HistoryOK(History(member))
      /\ AssignmentOK(History(member), x)
      /\ x.assigned_id \in Nat
      /\ x.assigned_id >= 2
      /\ x.service \in Services
      /\ x.new_sponsor \in Members
  BY DEF IInv, Inv, HistoryOK, AssignmentOK, Assignments, MemberIds
<1>2. \A m \in Members : Service(m) = x.service
  BY <1>1, ServiceTypes DEF OneService, OneGroup
<1>3. /\ \A m \in Members : ~ IsSponsor(member, x.service, m)
      /\ \A y \in History(member) : y.service = x.service => y.assigned_id <= x.assigned_id
  <2>1. TransitHighest(member, x.service)
    BY <1>1 DEF IInv, Inv, BatonOK
  <2>2. OnItsWay(member, x.service, x)
    BY DEF OnItsWay
  <2> QED
    BY <2>1, <2>2 DEF TransitHighest
<1>4. ASSUME NEW n \in Members PROVE member[n].member_id < x.assigned_id
  <2>1. member[n].member_id \in Nat
    BY MemberFacts
  <2>2. CASE ~ IsAssigned(member[n])
    BY <1>1, <2>2 DEF IsAssigned, DEFAULT_MEMBER_ID
  <2>3. CASE member[n].member_id = 1
    BY <1>1, <2>3
  <2>4. ASSUME NEW y \in History(member), y.service = Service(n),
               y.assigned_id = member[n].member_id, y.new_sponsor = n, IsAssigned(member[n])
        PROVE  member[n].member_id < x.assigned_id
    <3>1. y.assigned_id <= x.assigned_id /\ y.service = x.service
      BY <1>2, <1>3, <2>4
    <3>2. y.assigned_id # x.assigned_id
      BY <1>1, <2>4, <3>1 DEF HistoryOK, GivenOnce
    <3> QED
      BY <1>1, <2>1, <2>4, <3>1, <3>2
  <2> QED
    BY <2>2, <2>3, <2>4, WasGiven DEF OneGroup
<1>5. \A y \in History(member) : y.assigned_id <= x.assigned_id
  <2>1. \A y \in History(member) : y.service \in Services
    BY DEF IInv, Inv, HistoryOK, AssignmentOK, Assignments
  <2> QED
    BY <1>1, <1>3, <2>1 DEF OneService, OneGroup
<1> QED
  BY <1>2, <1>3, <1>4, <1>5, LastAlone DEF IsSponsor

\* The founder has the first id, and nobody else.
LEMMA FounderIsFirst ==
    ASSUME OneService, IInv, NEW m \in Members, IsAssigned(member[m])
    PROVE  member[m].member_id = INITIAL_SPONSOR_ID <=> IsFounder(m)
<1>1. Gives(History(member), Service(m), member[m].member_id, m)
  BY AssignedAre
<1>2. Gives(History(member), Service(m), INITIAL_SPONSOR_ID, founder[Service(m)])
  BY DEF Gives
<1> QED
  BY <1>1, <1>2, MemberFacts, GivesUnique DEF IsFounder

LEMMA NoFlags ==
    ASSUME TokenInv, NEW m \in Members
    PROVE  /\ ~ IsAssigned(member[m]) =>
                 /\ ~ member[m].synch_token_rcvd
                 /\ ~ member[m].synch_finished
                 /\ ~ member[m].is_sponsor
                 /\ ~ member[m].last_member_synch_token_sending_triggered
                 /\ member[m].response_message_cache = {}
           /\ \/ member[m].synch_token_rcvd
              \/ member[m].synch_finished
              \/ member[m].finish_message_rcvd
              => HasLast(member)
<1>1. /\ FlagsTell(member, m)
      /\ TimersTell(m, member[m])
      /\ MemberOK(History(member), m, member[m])
      /\ TriggeredOK(member[m])
  BY DEF TokenInv, KnowInv, IInv, Inv, LocalOK
<1>2. CASE ~ IsAssigned(member[m])
  BY <1>1, <1>2 DEF FlagsTell, TimersTell, MemberOK, CountOK, CacheOK, TriggeredOK, Reached,
                    LastHasToken, HasLast
<1>3. CASE IsAssigned(member[m])
  BY <1>1, <1>3 DEF FlagsTell, Reached, LastHasToken, HasLast
<1> QED
  BY <1>2, <1>3

\* When the last member has the token back, the founder has the first id.
LEMMA FounderThere ==
    ASSUME OneGroup, TokenInv, LastHasToken(member), NEW m \in Members, IsFounder(m)
    PROVE  member[m].member_id = INITIAL_SPONSOR_ID
<1>1. IInv
  BY DEF TokenInv, KnowInv
<1>2. PICK l \in Members : IsLastMember(l, member[l]) /\ member[l].synch_token_rcvd
  BY DEF LastHasToken
<1>3. /\ Reached(member, member[l].member_id)
      /\ member[l].member_id = member_count[Service(l)]
  BY <1>2 DEF TokenInv, FlagsTell, IsLastMember
<1>4. 1 \in 1 .. member[l].member_id - 1
  BY <1>1, <1>3, MemberFacts DEF OneGroup, SomebodyToAgreeWith
<1>5. PICK n \in Members : member[n].member_id = 1
  BY <1>3, <1>4 DEF Reached
<1>6. IsFounder(n)
  BY <1>1, <1>5, FounderIsFirst DEF OneGroup, IsAssigned, DEFAULT_MEMBER_ID, INITIAL_SPONSOR_ID
<1>7. n = m
  BY <1>6, ServiceTypes DEF IsFounder, OneService, OneGroup
<1> QED
  BY <1>5, <1>7 DEF INITIAL_SPONSOR_ID

-----------------------------------------------------------------------------
(***************************************************************************)
(* What a step of one member leaves alone: the signs are about what only   *)
(* ever becomes true.                                                      *)
(***************************************************************************)
Onward(a, b) ==
    /\ IsAssigned(a) => b.member_id = a.member_id
    /\ a.synch_token_rcvd => b.synch_token_rcvd
    /\ a.synch_finished => b.synch_finished
    /\ a.finish_message_rcvd => b.finish_message_rcvd

Grown(a, b) ==
    \A n \in Members :
        Onward(a[n], b[n]) /\ a[n].member_id \in Nat /\ b[n].member_id \in Nat

LEMMA HasLastKept ==
    ASSUME NEW a, NEW b, Grown(a, b), HasLast(a)
    PROVE  HasLast(b)
BY DEF Grown, Onward, HasLast, IsLastMember, IsAssigned

LEMMA HeardByKept ==
    ASSUME NEW a, NEW b, Grown(a, b), NEW m, NEW self, self.member_id \in Nat,
           HeardBy(a, m, self)
    PROVE  HeardBy(b, m, self)
<1>1. PICK n \in Members :
          a[n].synch_token_rcvd /\ (IsLastMember(m, self) \/ a[n].member_id > self.member_id)
  BY DEF HeardBy
<1>2. b[n].synch_token_rcvd
  BY <1>1 DEF Grown, Onward
<1>3. a[n].member_id > self.member_id => b[n].member_id > self.member_id
  BY DEF Grown, Onward, IsAssigned, DEFAULT_MEMBER_ID
<1> QED
  BY <1>1, <1>2, <1>3 DEF HeardBy

LEMMA LastHasTokenOn ==
    ASSUME NEW a, NEW b, Grown(a, b), LastHasToken(a)
    PROVE  LastHasToken(b)
BY DEF Grown, Onward, LastHasToken, IsLastMember, IsAssigned

LEMMA SignsKept ==
    ASSUME NEW a, NEW b, Grown(a, b), NEW m \in Members, NEW self, self.member_id \in Nat,
           \A x \in self.response_message_cache : x.new_sponsor \in Members,
           SignsOK(a, m, self)
    PROVE  SignsOK(b, m, self)
<1>1. HasLast(a) => HasLast(b)
  BY HasLastKept
<1>2. HeardBy(a, m, self) => HeardBy(b, m, self)
  BY HeardByKept
<1>3. HasHigher(a, self) => HasHigher(b, self)
  BY DEF HasHigher, Grown, Onward, IsAssigned, DEFAULT_MEMBER_ID
<1>4. ASSUME AllBefore(a, self.member_id) PROVE AllBefore(b, self.member_id)
  <2> SUFFICES ASSUME NEW id \in 1 .. self.member_id - 1
               PROVE  \E n \in Members : b[n].member_id = id /\ b[n].synch_finished
    BY DEF AllBefore
  <2>1. PICK n \in Members : a[n].member_id = id /\ a[n].synch_finished
    BY <1>4 DEF AllBefore
  <2>2. IsAssigned(a[n])
    BY <2>1 DEF IsAssigned, DEFAULT_MEMBER_ID
  <2> QED
    BY <2>1, <2>2 DEF Grown, Onward
<1>5. GaveOver(a, self) => GaveOver(b, self)
  BY DEF GaveOver, Grown, Onward, IsAssigned
<1>6. FounderHeard(a, m, self) => FounderHeard(b, m, self)
  BY ServiceTypes DEF FounderHeard, Grown, Onward
<1>7. SignsRight(b, m, self)
  BY <1>1, <1>2, <1>3, <1>4, LastHasTokenOn DEF SignsOK, SignsRight
<1>8. GoesOn(b, m, self)
  BY <1>2, <1>5, <1>6 DEF SignsOK, GoesOn, TokenHeard
<1> QED
  BY <1>7, <1>8 DEF SignsOK

LEMMA DutyFacts ==
    ASSUME DutyInv, NEW m \in Members
    PROVE  /\ TokenInv
           /\ IInv
           /\ LocalOK(m, member[m])
           /\ DutyOK(m, member[m])
           /\ SignsOK(member, m, member[m])
BY DEF DutyInv, Duties, TokenInv, KnowInv

\* What m said before is still so.
LEMMA SaysOn ==
    ASSUME NEW m, NEW a, NEW b, Onward(a, b), NEW msg, SaysNow(m, a, msg)
    PROVE  SaysNow(m, b, msg)
BY DEF Onward, SaysNow, IsLastMember, IsAssigned

LEMMA Grows ==
    ASSUME IInv, NEW m \in Members, NEW next, NEW msgs, Become(m, next, msgs),
           Onward(member[m], next), next.member_id \in Nat
    PROVE  Grown(member, member')
<1>1. member'[m] = next /\ \A n \in Members : n # m => member'[n] = member[n]
  BY Becomes
<1>2. \A n \in Members : member[n].member_id \in Nat
  BY MemberFacts
<1> QED
  BY <1>1, <1>2 DEF Grown, Onward

\* A step of m is right when m is right after it, and what it sends.
LEMMA StepDuties ==
    ASSUME DutyInv, NEW m \in Members, NEW next, NEW msgs, Become(m, next, msgs),
           Onward(member[m], next), next.member_id \in Nat,
           DutyOK(m, next),
           SignsOK(member', m, next),
           \A msg \in msgs :
               SaysNow(m, next, msg) /\ (msg.type = "synch_response" => HasLast(member')),
           \/ TokenAt(member', m)
           \/ /\ next.synch_token_rcvd = member[m].synch_token_rcvd
              /\ HasLast(member') => HasLast(member)
              /\ TokenAt(member, m) => TokenAt(member', m)
    PROVE  Duties'
<1>1. IInv /\ Duties
  BY DEF DutyInv, TokenInv, KnowInv
<1>2. /\ member'[m] = next
      /\ \A n \in Members : n # m => member'[n] = member[n]
      /\ \A n \in Members : \A msg \in net'[n] : msg \in net[n] \/ (n = m /\ msg \in msgs)
  BY <1>1, Becomes
<1>3. Grown(member, member')
  BY <1>1, Grows
<1>4. ASSUME NEW n \in Members PROVE DutyOK(n, member'[n]) /\ SignsOK(member', n, member'[n])
  <2>1. CASE n = m
    BY <1>2, <2>1
  <2>2. CASE n # m
    <3>1. DutyOK(n, member[n]) /\ SignsOK(member, n, member[n])
      BY <1>1 DEF Duties
    <3>2. SignsOK(member', n, member[n])
      BY <1>1, <1>3, <3>1, SignsKept, MemberFacts
    <3> QED
      BY <1>2, <2>2, <3>1, <3>2
  <2> QED
    BY <2>1, <2>2
<1>5. HasLast(member) => HasLast(member')
  BY <1>3, HasLastKept
<1>6. ASSUME NEW n \in Members, NEW msg \in net'[n]
      PROVE  SaysNow(n, member'[n], msg) /\ (msg.type = "synch_response" => HasLast(member'))
  <2>1. CASE msg \in net[n]
    <3>1. SaysNow(n, member[n], msg) /\ (msg.type = "synch_response" => HasLast(member))
      BY <1>1, <2>1 DEF Duties
    <3>2. Onward(member[n], member'[n])
      BY <1>3 DEF Grown
    <3> QED
      BY <1>5, <3>1, <3>2, SaysOn
  <2>2. CASE n = m /\ msg \in msgs
    BY <1>2, <2>2
  <2> QED
    BY <1>2, <1>6, <2>1, <2>2
<1>7. ASSUME HasLast(member') PROVE \E p \in Members : TokenAt(member', p)
  <2>1. CASE TokenAt(member', m)
    BY <2>1
  <2>2. CASE /\ next.synch_token_rcvd = member[m].synch_token_rcvd
             /\ HasLast(member') => HasLast(member)
             /\ TokenAt(member, m) => TokenAt(member', m)
    <3>1. PICK p \in Members : TokenAt(member, p)
      BY <1>1, <1>7, <2>2 DEF Duties
    <3>2. CASE p = m
      BY <2>2, <3>1, <3>2
    <3>3. CASE p # m
      <4>1. member'[p] = member[p]
        BY <1>2, <3>3
      <4>2. ASSUME HeardBy(member', p, member[p]) PROVE HeardBy(member, p, member[p])
        <5>1. PICK n \in Members :
                  /\ member'[n].synch_token_rcvd
                  /\ \/ IsLastMember(p, member[p])
                     \/ member'[n].member_id > member[p].member_id
          BY <4>2 DEF HeardBy
        <5>2. member[n].synch_token_rcvd
          BY <1>2, <2>2, <5>1
        <5>3. member'[n].member_id = member[n].member_id
          <6>1. IsAssigned(member[n])
            BY <5>2, NoFlags DEF DutyInv
          <6> QED
            BY <1>3, <6>1 DEF Grown, Onward
        <5> QED
          BY <5>1, <5>2, <5>3 DEF HeardBy
      <4> QED
        BY <3>1, <4>1, <4>2 DEF TokenAt
    <3> QED
      BY <3>2, <3>3
  <2> QED
    BY <2>1, <2>2
<1> QED
  BY <1>4, <1>6, <1>7 DEF Duties

-----------------------------------------------------------------------------
(***************************************************************************)
(* Most steps of m leave it where it is in the agreement: it gets to know  *)
(* others, or signs of them.  What it needs its timer for it still has     *)
(* armed, or queued, or needs it no more.                                  *)
(***************************************************************************)
Stays(a, b) ==
    /\ b.member_id = a.member_id
    /\ b.is_sponsor = a.is_sponsor
    /\ b.synch_token_rcvd = a.synch_token_rcvd
    /\ b.synch_finished = a.synch_finished
    /\ b.last_member_synch_token_sending_triggered
          = a.last_member_synch_token_sending_triggered
    /\ b.response_message_cache = a.response_message_cache
    /\ a.finish_message_rcvd => b.finish_message_rcvd
    /\ a.higher_member_id_assigned => b.higher_member_id_assigned
    /\ a.higher_member_id_synching => b.higher_member_id_synching
    /\ DOMAIN a.assigned_keys \subseteq DOMAIN b.assigned_keys

StatusRight(m, a, b) ==
    \/ b.status = a.status
    \/ b.status = "running" /\ a.status = "down"
    \/ b.status = "crashed" /\ IsFounder(m) /\ a.status # "stopped"
    \/ b.status = "stopped" /\ LastHasToken(member) /\ FounderHeard(member, m, b)

TimeoutRight(m, a, b) ==
    \/ b.timeout_wait = a.timeout_wait /\ b.finish_message_rcvd = a.finish_message_rcvd
    \/ /\ b.finish_message_rcvd
       /\ b.timeout_wait => IsFounder(m)
       /\ IsFounder(m) => b.timeout_wait \/ b.status = "stopped"

SignsSeen(m, a, b) ==
    /\ b.higher_member_id_assigned =>
          a.higher_member_id_assigned \/ HasLast(member) \/ HasHigher(member, b)
    /\ b.higher_member_id_synching =>
          \/ a.higher_member_id_synching
          \/ HasLast(member) /\ (IsAssigned(b) => HeardBy(member, m, b))

Watched == Cyclic \cup {"synch_info"}

\* The handlers that m has newly pending may always be.
Harmless(m, a, b) ==
    \A h \in Watched : Asks(b, h) =>
        \/ Asks(a, h)
        \/ h \in {"offer", "token", "finish"}
        \/ h = "founder_finish" /\ IsFounder(m)
        \/ h = "synch_info" /\ HasLast(member)

\* m needs the timer for nothing.
Free(m, self) ==
    /\ ~ self.is_sponsor
    /\ Holds(self) => AllSuccessorsKnown(m, self)
    /\ GaveOver(member, self)
    /\ self.synch_finished => TokenHeard(member, m, self)
    /\ FounderHeard(member, m, self)

LEMMA AllSuccessorsStay ==
    ASSUME IInv, IInv', NEW m \in Members, NEW next, member'[m] = next,
           IsAssigned(member[m]), next.member_id = member[m].member_id,
           DOMAIN member[m].assigned_keys \subseteq DOMAIN next.assigned_keys,
           AllSuccessorsKnown(m, member[m])
    PROVE  AllSuccessorsKnown(m, next)
<1>1. KnowsEverybody(m, member[m])
  BY MemberFacts, OtherIds
<1>2. KnowsEverybody(m, next)
  BY <1>1 DEF KnowsEverybody, OtherMembers
<1>3. MemberOK(History(member'), m, next) /\ HistoryOK(History(member'))
  BY DEF IInv, Inv
<1>4. IsAssigned(next)
  BY DEF IsAssigned
<1> QED
  BY <1>2, <1>3, <1>4, OtherIds

LEMMA FreeGoesOn ==
    ASSUME NEW m, NEW next, Free(m, next)
    PROVE  GoesOn(member, m, next)
BY DEF Free, GoesOn

\* What m needed its timer for before, it still has it for.
LEMMA GoesOnKept ==
    ASSUME DutyInv, IInv', NEW m \in Members, NEW next, member'[m] = next,
           Stays(member[m], next),
           \A h \in {"predecessors", "response", "successors", "token", "finish"} :
               Asks(member[m], h) => Asks(next, h),
           next.is_sponsor /\ Asks(member[m], "offer") => Asks(next, "offer"),
           next.is_sponsor /\ AllPredecessorsKnown(next) =>
               \/ Asks(next, "offer")
               \/ next.assigned_endpoints = member[m].assigned_endpoints,
           next.status = "stopped" =>
               member[m].status = "stopped" \/ FounderHeard(member, m, next)
    PROVE  GoesOn(member, m, next)
<1> DEFINE old == member[m]
<1>1. /\ IInv
      /\ GoesOn(member, m, old)
      /\ ~ IsAssigned(old) => ~ old.synch_token_rcvd
  BY DutyFacts, NoFlags DEF SignsOK
<1>2. /\ IsLastMember(m, next) <=> IsLastMember(m, old)
      /\ Holds(next) <=> Holds(old)
      /\ HeardBy(member, m, next) <=> HeardBy(member, m, old)
      /\ GaveOver(member, next) <=> GaveOver(member, old)
  BY DEF Stays, IsLastMember, IsAssigned, Holds, HeardBy, GaveOver
<1>3. /\ TokenHeard(member, m, next) <=> TokenHeard(member, m, old)
      /\ FounderHeard(member, m, next) <=> FounderHeard(member, m, old)
  BY <1>2 DEF Stays, TokenHeard, FounderHeard
<1>4. Holds(old) /\ AllSuccessorsKnown(m, old) => AllSuccessorsKnown(m, next)
  BY <1>1, AllSuccessorsStay DEF Stays, Holds
<1>5. next.assigned_endpoints = old.assigned_endpoints
        => (AllPredecessorsKnown(next) <=> AllPredecessorsKnown(old))
  BY DEF Stays, AllPredecessorsKnown, IsAssigned
<1>6. next.is_sponsor => Looks(next)
  BY <1>1, <1>5 DEF Stays, GoesOn, Looks
<1> HIDE DEF old
<1> QED
  BY <1>1, <1>2, <1>3, <1>4, <1>6 DEF old, Stays, GoesOn

LEMMA StaysDuty ==
    ASSUME DutyInv, NEW m \in Members, NEW next,
           Stays(member[m], next),
           StatusRight(m, member[m], next),
           TimeoutRight(m, member[m], next),
           Harmless(m, member[m], next)
    PROVE  DutyOK(m, next)
<1> DEFINE old == member[m]
<1>1. DutyOK(m, old)
  BY DutyFacts
<1>2. /\ IsLastMember(m, next) <=> IsLastMember(m, old)
      /\ IsAssigned(next) <=> IsAssigned(old)
      /\ Passed(m, next) <=> Passed(m, old)
  BY DEF Stays, IsLastMember, IsAssigned, Passed
<1>3. /\ Asks(next, "predecessors") => Asks(old, "predecessors")
      /\ Asks(next, "successors") => Asks(old, "successors")
      /\ Asks(next, "response") => Asks(old, "response")
      /\ Asks(next, "founder_finish") => Asks(old, "founder_finish") \/ IsFounder(m)
  BY DEF Harmless, Watched, Cyclic
<1> HIDE DEF old
<1>4. /\ Passed(m, next) => next.synch_token_rcvd
      /\ IsLastMember(m, next) =>
            next.synch_finished /\ next.last_member_synch_token_sending_triggered
      /\ IsLastMember(m, next) /\ next.synch_token_rcvd => next.higher_member_id_synching
      /\ next.synch_token_rcvd \/ next.synch_finished => next.higher_member_id_assigned
  BY <1>1, <1>2 DEF old, Stays, DutyOK
<1>5. /\ Asks(next, "predecessors") => IsAssigned(next) /\ ~ IsLastMember(m, next)
      /\ Asks(next, "successors") => next.synch_token_rcvd /\ ~ IsLastMember(m, next)
      /\ Asks(next, "response") => next.response_message_cache # {}
      /\ Asks(next, "founder_finish") => IsFounder(m)
  BY <1>1, <1>2, <1>3 DEF old, Stays, DutyOK
<1>6. /\ next.timeout_wait => IsFounder(m) /\ next.finish_message_rcvd
      /\ IsFounder(m) /\ next.finish_message_rcvd
            => next.timeout_wait \/ next.status = "stopped"
  BY <1>1 DEF old, Stays, TimeoutRight, StatusRight, DutyOK
<1>7. next.status \in {"running", "stopped"} \/ IsFounder(m) \/ ~ IsAssigned(next)
  BY <1>1, <1>2 DEF old, StatusRight, DutyOK
<1> QED
  BY <1>4, <1>5, <1>6, <1>7 DEF DutyOK

LEMMA StaysSigns ==
    ASSUME DutyInv, NEW m \in Members, NEW next,
           Stays(member[m], next),
           StatusRight(m, member[m], next),
           Harmless(m, member[m], next),
           SignsSeen(m, member[m], next)
    PROVE  SignsRight(member, m, next)
<1> DEFINE old == member[m]
<1>1. SignsRight(member, m, old)
  BY DutyFacts DEF SignsOK
<1>2. /\ IsAssigned(next) <=> IsAssigned(old)
      /\ HeardBy(member, m, next) <=> HeardBy(member, m, old)
      /\ HasHigher(member, next) <=> HasHigher(member, old)
  BY DEF Stays, IsLastMember, IsAssigned, HeardBy, HasHigher
<1>3. Asks(next, "synch_info") => Asks(old, "synch_info") \/ HasLast(member)
  BY DEF Harmless, Watched
<1>4. next.status = "stopped" => old.status = "stopped" \/ LastHasToken(member)
  BY DEF StatusRight
<1> HIDE DEF old
<1> QED
  BY <1>1, <1>2, <1>3, <1>4 DEF old, SignsRight, Stays, SignsSeen

LEMMA StaysStep ==
    ASSUME DutyInv, NEW m \in Members, NEW next, NEW msgs,
           Become(m, next, msgs),
           Stays(member[m], next),
           StatusRight(m, member[m], next),
           TimeoutRight(m, member[m], next),
           Harmless(m, member[m], next),
           SignsSeen(m, member[m], next),
           GoesOn(member, m, next),
           \A msg \in msgs :
               SaysNow(m, next, msg) /\ (msg.type = "synch_response" => HasLast(member))
    PROVE  Duties'
<1> DEFINE old == member[m]
<1>1. /\ IInv
      /\ old.member_id \in Nat
      /\ \A x \in old.response_message_cache : x.new_sponsor \in Members
  BY DutyFacts, MemberFacts
<1>2. member'[m] = next /\ \A n \in Members : n # m => member'[n] = member[n]
  BY <1>1, Becomes
<1>3. DutyOK(m, next)
  BY StaysDuty
<1>4. Onward(old, next) /\ next.member_id \in Nat
  BY <1>1 DEF Stays, Onward
<1>5. Grown(member, member')
  BY <1>1, <1>4, Grows
<1>6. SignsOK(member', m, next)
  <2>1. SignsOK(member, m, next)
    BY StaysSigns DEF SignsOK
  <2>2. \A x \in next.response_message_cache : x.new_sponsor \in Members
    BY <1>1 DEF Stays
  <2> QED
    BY <1>4, <1>5, <2>1, <2>2, SignsKept
<1>7. HasLast(member) => HasLast(member')
  BY <1>5, HasLastKept
<1>8. HasLast(member') => HasLast(member)
  BY <1>2 DEF HasLast, Stays, IsLastMember, IsAssigned
<1>9. ASSUME HeardBy(member', m, next) PROVE HeardBy(member, m, old)
  <2>1. PICK n \in Members :
            /\ member'[n].synch_token_rcvd
            /\ IsLastMember(m, next) \/ member'[n].member_id > next.member_id
    BY <1>9 DEF HeardBy
  <2>2. /\ member[n].synch_token_rcvd
        /\ member[n].member_id = member'[n].member_id
        /\ IsLastMember(m, next) <=> IsLastMember(m, old)
        /\ next.member_id = old.member_id
    BY <1>2, <2>1 DEF Stays, IsLastMember, IsAssigned
  <2> QED
    BY <2>1, <2>2 DEF HeardBy
<1>10. TokenAt(member, m) => TokenAt(member', m)
  BY <1>2, <1>9 DEF TokenAt, Stays, Holds, IsLastMember, IsAssigned
<1>11. next.synch_token_rcvd = old.synch_token_rcvd
  BY DEF Stays
<1> QED
  BY <1>3, <1>4, <1>6, <1>7, <1>8, <1>10, <1>11, StepDuties

-----------------------------------------------------------------------------
(***************************************************************************)
(* Which handlers a member has pending when its timer was armed, expired   *)
(* or its handler starts.                                                  *)
(***************************************************************************)
LEMMA AsksSome ==
    ASSUME NEW self, self.scatter_queue \in Seq(Handlers), NEW h
    PROVE  Asks(self, h) <=> Some(self, {h})
<1> DEFINE n == Len(self.scatter_queue)
<1>1. DOMAIN self.scatter_queue = 1 .. n /\ n \in Nat
  OBVIOUS
<1>2. At(self, 0) = self.scatter_wait /\ \A j \in 1 .. n : At(self, j) = self.scatter_queue[j]
  BY DEF At
<1>3. Asks(self, h) <=> h = self.scatter_wait \/ \E j \in 1 .. n : self.scatter_queue[j] = h
  BY <1>1 DEF Asks, Pending
<1>4. Some(self, {h}) <=> At(self, 0) = h \/ \E j \in 1 .. n : At(self, j) = h
  BY <1>1 DEF Some
<1> QED
  BY <1>2, <1>3, <1>4

LEMMA AwaitQueue ==
    ASSUME NEW self, DOMAIN self = Fields, self.scatter_queue \in Seq(Handlers), NEW h
    PROVE  LET next == Await(self, h)
           IN  /\ next.scatter_queue \in Seq(Handlers)
               /\ Asks(next, h)
               /\ \A x \in Watched : Asks(next, x) => x = h \/ Asks(self, x)
               /\ \A f \in Fields \ {"scatter_wait", "scatter_queue"} : next[f] = self[f]
               /\ DOMAIN next = Fields
<1> DEFINE next == Await(self, h)
           queue == self.scatter_queue
<1>1. PICK tail \in {<<"request_aborted">>, <<"info_aborted">>, <<>>} : Aborted(self) = tail
  BY DEF Aborted
<1>2. /\ next.scatter_wait = h
      /\ next.scatter_queue = queue \o tail
      /\ \A f \in Fields \ {"scatter_wait", "scatter_queue"} : next[f] = self[f]
      /\ DOMAIN next = Fields
  BY <1>1 DEF Await, Fields
<1>3. /\ tail \in Seq(Handlers)
      /\ \A i \in DOMAIN tail : tail[i] \in {"request_aborted", "info_aborted"}
  <2>1. CASE tail = <<>>
    BY <2>1
  <2>2. CASE tail = <<"request_aborted">>
    BY <2>2 DEF Handlers
  <2>3. CASE tail = <<"info_aborted">>
    BY <2>3 DEF Handlers
  <2> QED
    BY <2>1, <2>2, <2>3
<1> HIDE DEF next
<1>4. next.scatter_queue \in Seq(Handlers)
  BY <1>2, <1>3
<1>5. Asks(next, h)
  BY <1>2 DEF Asks, Pending
<1>6. ASSUME NEW x \in Watched, Asks(next, x), x # h PROVE Asks(self, x)
  <2>1. PICK i \in DOMAIN next.scatter_queue : next.scatter_queue[i] = x
    BY <1>2, <1>6 DEF Asks, Pending
  <2>2. CASE i \in DOMAIN queue
    <3>1. queue[i] = x
      BY <1>2, <1>3, <2>1, <2>2
    <3> QED
      BY <2>2, <3>1 DEF Asks, Pending
  <2>3. CASE i \notin DOMAIN queue
    <3>1. i - Len(queue) \in DOMAIN tail /\ x = tail[i - Len(queue)]
      BY <1>2, <1>3, <2>1, <2>3
    <3>2. x \in {"request_aborted", "info_aborted"}
      BY <1>3, <3>1
    <3> QED
      BY <3>2 DEF Watched, Cyclic
  <2> QED
    BY <2>2, <2>3
<1> QED
  BY <1>2, <1>4, <1>5, <1>6 DEF next

LEMMA AwaitWhere ==
    ASSUME NEW self, DOMAIN self = Fields, self.scatter_queue \in Seq(Handlers), NEW h
    PROVE  LET next == Await(self, h)
           IN  /\ next.scatter_queue \in Seq(Handlers)
               /\ Asks(next, h)
               /\ \A x \in Watched : Asks(next, x) => x = h \/ Asks(self, x)
               /\ next.status = self.status
               /\ next.is_sponsor = self.is_sponsor
               /\ next.higher_member_id_synching = self.higher_member_id_synching
               /\ next.higher_member_id_assigned = self.higher_member_id_assigned
               /\ next.synch_token_rcvd = self.synch_token_rcvd
               /\ next.synch_finished = self.synch_finished
               /\ next.last_member_synch_token_sending_triggered
                     = self.last_member_synch_token_sending_triggered
               /\ next.finish_message_rcvd = self.finish_message_rcvd
               /\ next.member_id = self.member_id
               /\ next.response_message_cache = self.response_message_cache
               /\ next.assigned_keys = self.assigned_keys
               /\ next.assigned_endpoints = self.assigned_endpoints
               /\ next.timeout_wait = self.timeout_wait
               /\ DOMAIN next = Fields
BY AwaitQueue DEF Fields

LEMMA SameAsks ==
    ASSUME NEW a, NEW b, b.scatter_wait = a.scatter_wait, b.scatter_queue = a.scatter_queue
    PROVE  \A h : Asks(b, h) <=> Asks(a, h)
BY DEF Asks, Pending

LEMMA StartsAsks ==
    ASSUME NEW self, self.scatter_queue \in Seq(Handlers), NEW h, NEW next,
           Starts(self, h, next)
    PROVE  /\ Asks(self, h)
           /\ next.scatter_queue \in Seq(Handlers)
           /\ \A x \in Watched : Asks(next, x) => Asks(self, x)
           /\ \A x : Asks(self, x) => x = h \/ Asks(next, x)
<1> DEFINE queue == self.scatter_queue
           n == Len(queue)
<1>1. CASE queue # <<>>
  <2>1. /\ n \in Nat \ {0}
        /\ DOMAIN queue = 1 .. n
        /\ next.scatter_queue \in Seq(Handlers)
        /\ DOMAIN next.scatter_queue = 1 .. n - 1
        /\ \A j \in 1 .. n - 1 : next.scatter_queue[j] = queue[j + 1]
        /\ h = queue[1]
        /\ next.scatter_wait = self.scatter_wait
    <3>1. /\ h = Head(queue)
          /\ next.scatter_queue = Tail(queue)
          /\ next.scatter_wait = self.scatter_wait
      BY <1>1 DEF Starts
    <3>2. queue \in Seq(Handlers) /\ queue # <<>>
      BY <1>1
    <3> HIDE DEF queue
    <3> QED
      BY <3>1, <3>2
  <2>2. Asks(self, h)
    BY <2>1 DEF Asks, Pending
  <2>3. ASSUME NEW x, Asks(next, x) PROVE Asks(self, x)
    <3>1. CASE x = self.scatter_wait
      BY <3>1 DEF Asks, Pending
    <3>2. CASE x # self.scatter_wait
      <4>1. PICK j \in 1 .. n - 1 : next.scatter_queue[j] = x
        BY <2>1, <2>3, <3>2 DEF Asks, Pending
      <4>2. j + 1 \in DOMAIN queue /\ queue[j + 1] = x
        BY <2>1, <4>1
      <4> QED
        BY <4>2 DEF Asks, Pending
    <3> QED
      BY <3>1, <3>2
  <2>4. ASSUME NEW x, Asks(self, x), x # h PROVE Asks(next, x)
    <3>1. CASE x = self.scatter_wait
      BY <2>1, <3>1 DEF Asks, Pending
    <3>2. CASE x # self.scatter_wait
      <4>1. PICK j \in 1 .. n : queue[j] = x
        BY <2>1, <2>4, <3>2 DEF Asks, Pending
      <4>2. j # 1
        BY <2>1, <2>4, <4>1
      <4>3. j - 1 \in 1 .. n - 1 /\ queue[(j - 1) + 1] = x
        BY <2>1, <4>1, <4>2
      <4>4. next.scatter_queue[j - 1] = x
        BY <2>1, <4>3
      <4> QED
        BY <2>1, <4>3, <4>4 DEF Asks, Pending
    <3> QED
      BY <3>1, <3>2
  <2> QED
    BY <2>1, <2>2, <2>3, <2>4
<1>2. CASE queue = <<>>
  <2>1. /\ h = self.scatter_wait
        /\ next.scatter_queue = <<>>
        /\ next.scatter_wait = "none"
    BY <1>2 DEF Starts
  <2>2. Asks(self, h) /\ next.scatter_queue \in Seq(Handlers)
    BY <2>1 DEF Asks, Pending
  <2>3. \A x \in Watched : ~ Asks(next, x)
    BY <2>1 DEF Asks, Pending, Watched, Cyclic
  <2>4. \A x : Asks(self, x) => x = h
    BY <1>2, <2>1 DEF Asks, Pending
  <2> QED
    BY <2>2, <2>3, <2>4
<1> QED
  BY <1>1, <1>2

LEMMA ExpiresAsks ==
    ASSUME NEW self, self.scatter_queue \in Seq(Handlers), self.scatter_wait \in Handlers,
           NEW next, next.scatter_wait = "none",
           next.scatter_queue = Append(self.scatter_queue, self.scatter_wait)
    PROVE  /\ \A x \in Watched : Asks(next, x) <=> Asks(self, x)
           /\ next.scatter_queue \in Seq(Handlers)
<1> DEFINE queue == self.scatter_queue
           n == Len(queue)
<1>1. /\ n \in Nat
      /\ DOMAIN queue = 1 .. n
      /\ next.scatter_queue \in Seq(Handlers)
      /\ DOMAIN next.scatter_queue = 1 .. n + 1
      /\ \A j \in 1 .. n : next.scatter_queue[j] = queue[j]
      /\ next.scatter_queue[n + 1] = self.scatter_wait
  OBVIOUS
<1> HIDE DEF queue, n
<1>2. ASSUME NEW x, Asks(next, x), x # "none" PROVE Asks(self, x)
  <2>1. PICK j \in 1 .. n + 1 : next.scatter_queue[j] = x
    BY <1>1, <1>2 DEF Asks, Pending
  <2>2. CASE j = n + 1
    BY <1>1, <2>1, <2>2 DEF Asks, Pending
  <2>3. CASE j # n + 1
    <3>1. j \in DOMAIN queue /\ queue[j] = x
      BY <1>1, <2>1, <2>3
    <3> QED
      BY <3>1 DEF Asks, Pending, queue
  <2> QED
    BY <2>2, <2>3
<1>3. ASSUME NEW x, Asks(self, x) PROVE Asks(next, x)
  <2>1. CASE x = self.scatter_wait
    <3>1. n + 1 \in DOMAIN next.scatter_queue /\ next.scatter_queue[n + 1] = x
      BY <1>1, <2>1
    <3> QED
      BY <3>1 DEF Asks, Pending
  <2>2. CASE x # self.scatter_wait
    <3>1. PICK j \in 1 .. n : queue[j] = x
      BY <1>1, <1>3, <2>2 DEF Asks, Pending, queue
    <3>2. j \in DOMAIN next.scatter_queue /\ next.scatter_queue[j] = x
      BY <1>1, <3>1
    <3> QED
      BY <3>2 DEF Asks, Pending
  <2> QED
    BY <2>1, <2>2
<1>4. "none" \notin Watched
  BY DEF Watched, Cyclic
<1> QED
  BY <1>1, <1>2, <1>3, <1>4

-----------------------------------------------------------------------------
(***************************************************************************)
(* The steps that get the agreement further: a sponsor goes on, the last   *)
(* member starts the token, and the token is taken and passed on.          *)
(***************************************************************************)
\* What m is after it went on as the sponsor.
LEMMA SponsorGoesOn ==
    ASSUME OneGroup, DutyInv, ~ HasLast(member), NEW m \in Members, NEW next, NEW msgs,
           Become(m, next, msgs),
           IsAssigned(member[m]) => next.member_id = member[m].member_id,
           IsAssigned(next),
           next.member_id \in Nat,
           next.member_id < member_count[Service(m)],
           next.status = "running",
           member[m].response_message_cache = {},
           SameSynch(member[m], next),
           next.higher_member_id_synching = member[m].higher_member_id_synching,
           next.higher_member_id_assigned => ~ IsAssigned(member[m])
                                               /\ member[m].higher_member_id_assigned,
           next.timeout_wait = member[m].timeout_wait,
           NEW h, Asks(next, h),
           \A x \in Watched : Asks(next, x) => x = h \/ Asks(member[m], x),
           \/ /\ next.is_sponsor
              /\ next.response_message_cache = {}
              /\ h = "offer" \/ (h = "predecessors" /\ ~ AllPredecessorsKnown(next))
           \/ /\ ~ next.is_sponsor
              /\ next.response_message_cache # {}
              /\ h = "response",
           \A msg \in msgs :
               SaysNow(m, next, msg) /\ msg.type # "synch_response"
    PROVE  Duties'
<1> DEFINE old == member[m]
<1>1. /\ IInv
      /\ DutyOK(m, old)
      /\ SignsRight(member, m, old)
      /\ ~ old.synch_token_rcvd
      /\ ~ old.synch_finished
      /\ ~ old.finish_message_rcvd
      /\ old.member_id \in Nat
      /\ member_count[Service(m)] \in Nat
  BY DutyFacts, NoFlags, MemberFacts DEF SignsOK
<1>2. /\ ~ next.synch_token_rcvd
      /\ ~ next.synch_finished
      /\ ~ next.finish_message_rcvd
      /\ ~ next.timeout_wait
      /\ ~ IsLastMember(m, next)
      /\ ~ Holds(next)
      /\ ~ Passed(m, next)
      /\ next.synch_token_rcvd = old.synch_token_rcvd
  BY <1>1 DEF SameSynch, DutyOK, IsLastMember, Holds, Passed
<1>3. member'[m] = next /\ \A n \in Members : n # m => member'[n] = member[n]
  BY <1>1, Becomes
<1>4. ~ HasLast(member')
  BY <1>2, <1>3 DEF HasLast
<1>5. ~ next.higher_member_id_synching /\ ~ next.higher_member_id_assigned
  BY <1>1 DEF SignsRight, HasHigher
<1>6. /\ ~ Asks(old, "successors")
      /\ ~ Asks(old, "synch_info")
      /\ ~ Asks(old, "response")
      /\ Asks(old, "founder_finish") => IsFounder(m)
  BY <1>1 DEF DutyOK, SignsRight
<1>7. /\ ~ Asks(next, "successors")
      /\ ~ Asks(next, "synch_info")
      /\ Asks(next, "response") => next.response_message_cache # {}
      /\ Asks(next, "founder_finish") => IsFounder(m)
  BY <1>6 DEF Watched, Cyclic
<1>8. DutyOK(m, next)
  BY <1>2, <1>7 DEF DutyOK
<1>9. next.is_sponsor => Looks(next)
  BY DEF Looks
<1>10. GaveOver(member', next) \/ Asks(next, "response")
  BY DEF GaveOver
<1>11. SignsOK(member', m, next)
  BY <1>2, <1>5, <1>7, <1>9, <1>10 DEF SignsOK, SignsRight, GoesOn, FounderHeard
<1>12. Onward(old, next)
  BY <1>1 DEF Onward
<1>13. ~ TokenAt(member, m)
  BY <1>1 DEF TokenAt, Holds
<1> HIDE DEF old
<1> QED
  BY <1>2, <1>4, <1>8, <1>11, <1>12, <1>13, StepDuties DEF old

LEMMA PendingDuty ==
    ASSUME OneGroup, DutyInv, ~ HasLast(member), NEW m \in Members, NEW self, Good(m, self),
           self.is_sponsor,
           self.member_id < member_count[Service(m)],
           IsAssigned(member[m]) => self.member_id = member[m].member_id,
           self.scatter_wait = member[m].scatter_wait,
           self.scatter_queue = member[m].scatter_queue,
           SameSynch(member[m], self),
           self.higher_member_id_synching = member[m].higher_member_id_synching,
           self.higher_member_id_assigned => ~ IsAssigned(member[m])
                                               /\ member[m].higher_member_id_assigned,
           self.timeout_wait = member[m].timeout_wait,
           ProcessPendingRequest(m, self)
    PROVE  Duties'
<1>1. IInv
  BY DutyFacts
<1>2. /\ DOMAIN self = Fields
      /\ CoreTypes(self)
      /\ MemberOK(History([member EXCEPT ![m] = self]), m, self)
      /\ self.member_id \in Nat
      /\ self.response_message_cache = {}
      /\ IsAssigned(self)
      /\ self.status = "running"
      /\ self.scatter_queue \in Seq(Handlers)
      /\ \A x : Asks(self, x) <=> Asks(member[m], x)
  BY <1>1, GoodMember, SameAsks
  DEF MemberOK, CoreTypes, CacheOK, CountOK, Good, TimersOK, TimerTypes
<1>6. member[m].response_message_cache = {}
  BY <1>2 DEF Good, Stable
<1>3. CASE /\ ~ AllPredecessorsKnown(self)
           /\ Become(m, Await(self, "predecessors"),
                     {InfoRequest(m, UnknownPredecessors(self))})
  <2> DEFINE next == Await(self, "predecessors")
             msg == InfoRequest(m, UnknownPredecessors(self))
  <2>1. /\ Asks(next, "predecessors")
        /\ \A x \in Watched : Asks(next, x) => x = "predecessors" \/ Asks(self, x)
        /\ next.status = "running"
        /\ next.is_sponsor
        /\ next.response_message_cache = {}
        /\ next.assigned_endpoints = self.assigned_endpoints
        /\ next.member_id = self.member_id
        /\ next.timeout_wait = self.timeout_wait
        /\ next.higher_member_id_synching = self.higher_member_id_synching
        /\ next.higher_member_id_assigned = self.higher_member_id_assigned
        /\ SameSynch(self, next)
    BY <1>2, AwaitWhere DEF SameSynch
  <2> HIDE DEF next
  <2>2. ~ AllPredecessorsKnown(next)
    BY <1>3, <2>1 DEF AllPredecessorsKnown, IsAssigned
  <2>4. SaysNow(m, next, msg) /\ msg.type # "synch_response"
    BY <1>2, <2>1 DEF SaysNow, InfoRequest, UnknownPredecessors, IsAssigned
  <2>5. Become(m, next, {msg})
    BY <1>3 DEF next
  <2> HIDE DEF msg
  <2>6. \A x \in {msg} : SaysNow(m, next, x) /\ x.type # "synch_response"
    BY <2>4
  <2>7. SameSynch(member[m], next)
    BY <2>1 DEF SameSynch
  <2> QED
    BY <1>2, <1>6, <2>1, <2>2, <2>5, <2>6, <2>7, SponsorGoesOn DEF IsAssigned
<1>4. CASE Become(m, Await([self EXCEPT !.pending_requests = {}], "offer"), {Offer(m)})
  <2> DEFINE mid == [self EXCEPT !.pending_requests = {}]
             next == Await(mid, "offer")
             msg == Offer(m)
  <2>1. /\ DOMAIN mid = Fields
        /\ mid.scatter_queue \in Seq(Handlers)
        /\ mid.scatter_wait = self.scatter_wait
        /\ mid.scatter_queue = self.scatter_queue
        /\ mid.status = "running"
        /\ mid.is_sponsor
        /\ mid.response_message_cache = {}
        /\ mid.member_id = self.member_id
        /\ mid.timeout_wait = self.timeout_wait
        /\ mid.higher_member_id_synching = self.higher_member_id_synching
        /\ mid.higher_member_id_assigned = self.higher_member_id_assigned
        /\ SameSynch(self, mid)
    BY <1>2 DEF Fields, SameSynch
  <2> HIDE DEF mid
  <2>2. /\ Asks(next, "offer")
        /\ \A x \in Watched : Asks(next, x) => x = "offer" \/ Asks(self, x)
        /\ next.status = "running"
        /\ next.is_sponsor
        /\ next.response_message_cache = {}
        /\ next.member_id = self.member_id
        /\ next.timeout_wait = self.timeout_wait
        /\ next.higher_member_id_synching = self.higher_member_id_synching
        /\ next.higher_member_id_assigned = self.higher_member_id_assigned
        /\ SameSynch(self, next)
    BY <1>2, <2>1, AwaitWhere, SameAsks DEF SameSynch
  <2>3. Become(m, next, {msg})
    BY <1>4 DEF mid
  <2> HIDE DEF next
  <2>5. SaysNow(m, next, msg) /\ msg.type # "synch_response"
    BY <2>2 DEF SaysNow, Offer
  <2> HIDE DEF msg
  <2>6. \A x \in {msg} : SaysNow(m, next, x) /\ x.type # "synch_response"
    BY <2>5
  <2>7. SameSynch(member[m], next)
    BY <2>2 DEF SameSynch
  <2>8. \A x \in Watched : Asks(next, x) => x = "offer" \/ Asks(member[m], x)
    BY <1>2, <2>2
  <2>9. /\ IsAssigned(member[m]) => next.member_id = member[m].member_id
        /\ IsAssigned(next)
        /\ next.member_id \in Nat
        /\ next.member_id < member_count[Service(m)]
        /\ next.higher_member_id_synching = member[m].higher_member_id_synching
        /\ next.higher_member_id_assigned => ~ IsAssigned(member[m])
                                               /\ member[m].higher_member_id_assigned
        /\ next.timeout_wait = member[m].timeout_wait
    BY <1>2, <2>2 DEF IsAssigned
  <2> QED
    BY <1>6, <2>2, <2>3, <2>6, <2>7, <2>8, <2>9, SponsorGoesOn
<1>5. CASE \E e \in Unassigned(self) : Admit(m, self, e)
  <2>1. PICK e \in Unassigned(self) : Admit(m, self, e)
    BY <1>5
  <2> DEFINE msg == Response(m, self, e)
             mid == [HandOver(self, e) EXCEPT !.response_message_cache = {msg}]
             next == Await(mid, "response")
  <2>2. /\ DOMAIN mid = Fields
        /\ mid.scatter_queue \in Seq(Handlers)
        /\ mid.scatter_wait = self.scatter_wait
        /\ mid.scatter_queue = self.scatter_queue
        /\ mid.status = "running"
        /\ ~ mid.is_sponsor
        /\ mid.response_message_cache # {}
        /\ mid.member_id = self.member_id
        /\ mid.timeout_wait = self.timeout_wait
        /\ mid.higher_member_id_synching = self.higher_member_id_synching
        /\ mid.higher_member_id_assigned = self.higher_member_id_assigned
        /\ SameSynch(self, mid)
    BY <1>2 DEF Fields, SameSynch, HandOver
  <2>3. Become(m, next, {msg})
    BY <2>1 DEF Admit
  <2> HIDE DEF mid
  <2>4. /\ Asks(next, "response")
        /\ \A x \in Watched : Asks(next, x) => x = "response" \/ Asks(self, x)
        /\ next.status = "running"
        /\ ~ next.is_sponsor
        /\ next.response_message_cache # {}
        /\ next.member_id = self.member_id
        /\ next.timeout_wait = self.timeout_wait
        /\ next.higher_member_id_synching = self.higher_member_id_synching
        /\ next.higher_member_id_assigned = self.higher_member_id_assigned
        /\ SameSynch(self, next)
    BY <1>2, <2>2, AwaitWhere, SameAsks DEF SameSynch
  <2> HIDE DEF next
  <2>6. SaysNow(m, next, msg) /\ msg.type # "synch_response"
    BY <2>4 DEF SaysNow, Response
  <2> HIDE DEF msg
  <2>7. \A x \in {msg} : SaysNow(m, next, x) /\ x.type # "synch_response"
    BY <2>6
  <2>8. SameSynch(member[m], next)
    BY <2>4 DEF SameSynch
  <2> QED
    BY <1>2, <1>6, <2>3, <2>4, <2>7, <2>8, SponsorGoesOn DEF IsAssigned
<1> QED
  BY <1>3, <1>4, <1>5 DEF ProcessPendingRequest

LEMMA StartDuty ==
    ASSUME OneGroup, DutyInv, ~ HasLast(member), NEW m \in Members, NEW self,
           ~ IsAssigned(member[m]), IsLastMember(m, self),
           self.member_id \in Nat,
           DOMAIN self = Fields,
           self.scatter_queue \in Seq(Handlers),
           \A x : Asks(self, x) <=> Asks(member[m], x),
           self.status = "running",
           SameSynch(member[m], self),
           self.response_message_cache = {},
           self.higher_member_id_synching = member[m].higher_member_id_synching,
           self.timeout_wait = member[m].timeout_wait,
           Become(m, StartSynchToken(m, self), {SynchToken(m, self)})
    PROVE  Duties'
<1> DEFINE old == member[m]
           mid == [self EXCEPT
                      !.last_member_synch_token_sending_triggered = TRUE,
                      !.is_sponsor = FALSE,
                      !.synch_finished = TRUE,
                      !.higher_member_id_assigned = TRUE]
           next == Await(mid, "token")
           msg == SynchToken(m, self)
<1>1. /\ IInv
      /\ DutyOK(m, old)
      /\ SignsRight(member, m, old)
      /\ ~ old.synch_token_rcvd
      /\ ~ old.synch_finished
      /\ ~ old.finish_message_rcvd
      /\ old.response_message_cache = {}
  BY DutyFacts, NoFlags DEF SignsOK
<1>2. /\ DOMAIN mid = Fields
      /\ mid.scatter_queue \in Seq(Handlers)
      /\ \A x : Asks(mid, x) <=> Asks(self, x)
      /\ mid.status = "running"
      /\ mid.higher_member_id_assigned
      /\ mid.last_member_synch_token_sending_triggered
      /\ ~ mid.is_sponsor
      /\ mid.synch_finished
      /\ mid.synch_token_rcvd = old.synch_token_rcvd
      /\ mid.finish_message_rcvd = old.finish_message_rcvd
      /\ mid.higher_member_id_synching = old.higher_member_id_synching
      /\ mid.timeout_wait = old.timeout_wait
      /\ mid.response_message_cache = {}
      /\ mid.member_id = self.member_id
  BY DEF Fields, SameSynch, Asks, Pending
<1>3. Become(m, next, {msg})
  BY DEF StartSynchToken
<1> HIDE DEF mid
<1>4. /\ Asks(next, "token")
      /\ \A x \in Watched : Asks(next, x) => x = "token" \/ Asks(old, x)
      /\ next.status = "running"
      /\ next.higher_member_id_assigned
      /\ next.last_member_synch_token_sending_triggered
      /\ ~ next.is_sponsor
      /\ next.synch_finished
      /\ next.synch_token_rcvd = old.synch_token_rcvd
      /\ next.finish_message_rcvd = old.finish_message_rcvd
      /\ next.higher_member_id_synching = old.higher_member_id_synching
      /\ next.timeout_wait = old.timeout_wait
      /\ next.response_message_cache = {}
      /\ next.member_id = self.member_id
  BY <1>2, AwaitWhere
<1> HIDE DEF next
<1>5. /\ IsLastMember(m, next)
      /\ IsAssigned(next)
      /\ ~ Passed(m, next)
      /\ ~ Holds(next)
      /\ ~ next.higher_member_id_synching
      /\ ~ next.timeout_wait
      /\ ~ next.synch_token_rcvd
      /\ ~ next.finish_message_rcvd
  BY <1>1, <1>4 DEF IsLastMember, IsAssigned, Passed, Holds, SignsRight, DutyOK
<1>6. member'[m] = next /\ \A n \in Members : n # m => member'[n] = member[n]
  BY <1>1, <1>3, Becomes
<1>7. HasLast(member')
  BY <1>5, <1>6 DEF HasLast
<1>8. \A n \in Members : ~ member'[n].synch_token_rcvd
  BY <1>1, <1>4, <1>6, NoFlags DEF DutyInv
<1>9. TokenAt(member', m)
  BY <1>4, <1>6, <1>8 DEF TokenAt, HeardBy
<1>16. /\ ~ Asks(next, "predecessors")
       /\ ~ Asks(next, "successors")
       /\ ~ Asks(next, "response")
       /\ ~ Asks(next, "synch_info")
       /\ Asks(next, "founder_finish") => IsFounder(m)
  <2>1. /\ ~ Asks(old, "predecessors")
        /\ ~ Asks(old, "successors")
        /\ ~ Asks(old, "response")
        /\ ~ Asks(old, "synch_info")
        /\ Asks(old, "founder_finish") => IsFounder(m)
    BY <1>1 DEF DutyOK, SignsRight
  <2> QED
    BY <1>4, <2>1 DEF Watched, Cyclic
<1>10. DutyOK(m, next)
  <2>1. /\ Passed(m, next) => next.synch_token_rcvd
        /\ IsLastMember(m, next) =>
              next.synch_finished /\ next.last_member_synch_token_sending_triggered
        /\ IsLastMember(m, next) /\ next.synch_token_rcvd => next.higher_member_id_synching
        /\ next.synch_token_rcvd \/ next.synch_finished => next.higher_member_id_assigned
    BY <1>4, <1>5
  <2>2. /\ Asks(next, "predecessors") => IsAssigned(next) /\ ~ IsLastMember(m, next)
        /\ Asks(next, "successors") => next.synch_token_rcvd /\ ~ IsLastMember(m, next)
        /\ Asks(next, "response") => next.response_message_cache # {}
        /\ Asks(next, "founder_finish") => IsFounder(m)
    BY <1>16
  <2>3. /\ next.timeout_wait => IsFounder(m) /\ next.finish_message_rcvd
        /\ IsFounder(m) /\ next.finish_message_rcvd
              => next.timeout_wait \/ next.status = "stopped"
        /\ next.status \in {"running", "stopped"} \/ IsFounder(m) \/ ~ IsAssigned(next)
    BY <1>4, <1>5
  <2> QED
    BY <2>1, <2>2, <2>3 DEF DutyOK
<1>11. SignsOK(member', m, next)
  BY <1>1, <1>4, <1>5, <1>7, <1>16 DEF SignsOK, SignsRight, GoesOn, GaveOver, FounderHeard
<1>12. Onward(old, next)
  BY <1>1 DEF Onward
<1>13. SaysNow(m, next, msg) /\ msg.type # "synch_response"
  BY <1>4, <1>5 DEF SaysNow, SynchToken, IsLastMember
<1> HIDE DEF old, msg
<1>14. \A x \in {msg} :
          SaysNow(m, next, x) /\ (x.type = "synch_response" => HasLast(member'))
  BY <1>13
<1>15. next.member_id \in Nat
  BY <1>4
<1> QED
  BY <1>3, <1>9, <1>10, <1>11, <1>12, <1>14, <1>15, StepDuties DEF old

\* Nobody has had the token who comes after a member that did not pass it on.
LEMMA NobodyPast ==
    ASSUME OneGroup, DutyInv, NEW m \in Members, IsAssigned(member[m]),
           ~ member[m].synch_finished \/ ~ member[m].synch_token_rcvd,
           NEW n \in Members, member[n].synch_token_rcvd
    PROVE  member[n].member_id <= member[m].member_id
<1>1. /\ IInv
      /\ IsAssigned(member[n])
      /\ member[n].member_id \in Nat
      /\ member[m].member_id \in Nat \ {0}
      /\ AllBefore(member, member[n].member_id)
      /\ DutyOK(m, member[m])
  BY DutyFacts, NoFlags, MemberFacts
  DEF SignsOK, SignsRight, IsAssigned, DEFAULT_MEMBER_ID
<1> SUFFICES ASSUME member[m].member_id < member[n].member_id PROVE FALSE
  BY <1>1
<1>2. member[m].member_id \in 1 .. member[n].member_id - 1
  BY <1>1
<1>3. PICK k \in Members : member[k].member_id = member[m].member_id /\ member[k].synch_finished
  BY <1>1, <1>2 DEF AllBefore
<1>4. k = m
  BY <1>1, <1>3, IdsOnce DEF OneGroup
<1>5. IsLastMember(m, member[m])
  BY <1>1, <1>3, <1>4 DEF DutyOK, Passed
<1>6. member[n].member_id \in 1 .. member_count[Service(n)]
  BY <1>1, MemberFacts, OtherIds
<1>7. Service(n) = Service(m) /\ member_count[Service(m)] \in Nat
  BY <1>1, MemberFacts DEF OneGroup, OneService
<1> QED
  BY <1>1, <1>5, <1>6, <1>7 DEF IsLastMember

\* m has the token now, or had it, and is still where it was otherwise; its
\* timer is what it was.
HasIt(m, self) ==
    /\ self.member_id = member[m].member_id
    /\ self.is_sponsor = member[m].is_sponsor
    /\ self.response_message_cache = member[m].response_message_cache
    /\ self.finish_message_rcvd = member[m].finish_message_rcvd
    /\ self.timeout_wait = member[m].timeout_wait
    /\ self.status = "running" /\ member[m].status = "running"
    /\ DOMAIN self = Fields
    /\ IsAssigned(self)
    /\ self.synch_token_rcvd
    /\ self.higher_member_id_assigned
    /\ IsLastMember(m, self) => self.higher_member_id_synching
    /\ SignsSeen(m, member[m], self)
    /\ AllBefore(member, self.member_id)
    /\ HasLast(member)
    /\ ~ member[m].synch_finished \/ ~ member[m].synch_token_rcvd

OwnTimer(m, self) ==
    /\ self.scatter_queue \in Seq(Handlers)
    /\ \A x : Asks(self, x) <=> Asks(member[m], x)

LEMMA TokenDuty ==
    ASSUME OneGroup, DutyInv, NEW m \in Members, NEW next, NEW msgs,
           Become(m, next, msgs), HasIt(m, next),
           NEW h, Asks(next, h),
           \A x \in Watched : Asks(next, x) => x = h \/ Asks(member[m], x),
           member[m].synch_finished => next.synch_finished,
           \A msg \in msgs : SaysNow(m, next, msg) /\ msg.type # "synch_response",
           \/ /\ IsLastMember(m, next)
              /\ h = "finish"
              /\ next.synch_finished = member[m].synch_finished
              /\ next.last_member_synch_token_sending_triggered
                    = member[m].last_member_synch_token_sending_triggered
           \/ /\ ~ IsLastMember(m, next)
              /\ \/ next.synch_finished /\ h = "token"
                 \/ ~ next.synch_finished /\ h = "successors"
    PROVE  Duties'
<1> DEFINE old == member[m]
<1>1. /\ IInv
      /\ DutyOK(m, old)
      /\ SignsOK(member, m, old)
      /\ next.member_id = old.member_id
      /\ old.member_id \in Nat
      /\ \A x \in old.response_message_cache : x.new_sponsor \in Members
      /\ IsLastMember(m, next) <=> IsLastMember(m, old)
      /\ IsAssigned(old)
  BY DutyFacts, MemberFacts DEF HasIt, IsLastMember, IsAssigned
<1>2. member'[m] = next /\ \A n \in Members : n # m => member'[n] = member[n]
  BY <1>1, Becomes
<1>3. ~ next.is_sponsor /\ GaveOver(member, next)
  BY <1>1, LastAlone DEF HasIt, GaveOver
<1>12. /\ Asks(next, "predecessors") => ~ IsLastMember(m, next)
       /\ Asks(next, "successors") => ~ IsLastMember(m, next)
       /\ Asks(next, "response") => next.response_message_cache # {}
       /\ Asks(next, "founder_finish") => IsFounder(m)
  <2>1. /\ Asks(old, "predecessors") => ~ IsLastMember(m, old)
        /\ Asks(old, "successors") => ~ IsLastMember(m, old)
        /\ Asks(old, "response") => old.response_message_cache # {}
        /\ Asks(old, "founder_finish") => IsFounder(m)
    BY <1>1 DEF DutyOK
  <2>2. /\ Asks(next, "predecessors") => Asks(old, "predecessors")
        /\ Asks(next, "successors") => h = "successors" \/ Asks(old, "successors")
        /\ Asks(next, "response") => Asks(old, "response")
        /\ Asks(next, "founder_finish") => Asks(old, "founder_finish")
    BY DEF Watched, Cyclic
  <2> QED
    BY <1>1, <2>1, <2>2 DEF HasIt
<1>4. DutyOK(m, next)
  <2>1. IsLastMember(m, next) =>
            next.synch_finished /\ next.last_member_synch_token_sending_triggered
    BY <1>1 DEF DutyOK
  <2>2. /\ next.timeout_wait => IsFounder(m) /\ next.finish_message_rcvd
        /\ IsFounder(m) /\ next.finish_message_rcvd
              => next.timeout_wait \/ next.status = "stopped"
    BY <1>1 DEF DutyOK, HasIt
  <2> QED
    BY <1>12, <2>1, <2>2 DEF DutyOK, HasIt, Passed
<1>5. /\ HeardBy(member, m, next) <=> HeardBy(member, m, old)
      /\ HasHigher(member, next) <=> HasHigher(member, old)
  BY <1>1 DEF HeardBy, HasHigher, IsAssigned
<1>6. SignsRight(member, m, next)
  BY <1>1, <1>5 DEF SignsOK, SignsRight, HasIt, SignsSeen
<1>7. GoesOn(member, m, next)
  <2>1. Holds(next) => h = "successors"
    BY <1>4 DEF Holds, DutyOK
  <2>2. next.synch_finished => TokenHeard(member, m, next) \/ h = "token"
    BY <1>4 DEF TokenHeard, HasIt
  <2>3. FounderHeard(member, m, next) \/ h = "finish"
    BY DEF FounderHeard
  <2> QED
    BY <1>3, <2>1, <2>2, <2>3 DEF GoesOn, HasIt
<1>8. Onward(old, next) /\ next.member_id \in Nat
  BY <1>1 DEF Onward, HasIt
<1>9. SignsOK(member', m, next)
  BY <1>1, <1>6, <1>7, <1>8, Grows, SignsKept DEF SignsOK, HasIt
<1>10. HasLast(member) => HasLast(member')
  BY <1>1, <1>8, Grows, HasLastKept
<1>11. TokenAt(member', m)
  <2>1. CASE IsLastMember(m, next)
    BY <1>2, <2>1 DEF TokenAt, HasIt
  <2>2. CASE ~ next.synch_finished
    BY <1>2, <2>2 DEF TokenAt, Holds, HasIt
  <2>3. CASE ~ IsLastMember(m, next) /\ next.synch_finished
    <3> SUFFICES ASSUME NEW n \in Members, member'[n].synch_token_rcvd,
                        member'[n].member_id > next.member_id
                 PROVE  FALSE
      BY <1>2, <2>3 DEF TokenAt, HeardBy
    <3>1. n # m
      BY <1>1, <1>2
    <3>2. member[n].member_id <= old.member_id /\ member[n].member_id \in Nat
      BY <1>1, <1>2, <3>1, NobodyPast, MemberFacts DEF HasIt
    <3> QED
      BY <1>1, <1>2, <3>1, <3>2
  <2> QED
    BY <2>1, <2>2, <2>3
<1> HIDE DEF old
<1> QED
  BY <1>4, <1>8, <1>9, <1>11, StepDuties DEF old

LEMMA PassDuty ==
    ASSUME OneGroup, DutyInv, NEW m \in Members, NEW self, HasIt(m, self), OwnTimer(m, self),
           ~ IsLastMember(m, self), PassSynchToken(m, self)
    PROVE  Duties'
<1> DEFINE mid == [self EXCEPT !.synch_finished = TRUE]
           next == Await(mid, "token")
           msg == SynchToken(m, self)
<1>1. /\ DOMAIN self = Fields
      /\ self.scatter_queue \in Seq(Handlers)
      /\ \A x : Asks(self, x) <=> Asks(member[m], x)
  BY DEF HasIt, OwnTimer
<1>2. /\ DOMAIN mid = Fields
      /\ mid.scatter_queue \in Seq(Handlers)
      /\ \A x : Asks(mid, x) <=> Asks(member[m], x)
      /\ mid.synch_finished
      /\ mid.member_id = self.member_id
      /\ mid.is_sponsor = self.is_sponsor
      /\ mid.response_message_cache = self.response_message_cache
      /\ mid.finish_message_rcvd = self.finish_message_rcvd
      /\ mid.timeout_wait = self.timeout_wait
      /\ mid.status = self.status
      /\ mid.synch_token_rcvd = self.synch_token_rcvd
      /\ mid.higher_member_id_assigned = self.higher_member_id_assigned
      /\ mid.higher_member_id_synching = self.higher_member_id_synching
  BY <1>1 DEF Fields, Asks, Pending
<1>3. Become(m, next, {msg})
  BY DEF PassSynchToken
<1> HIDE DEF mid
<1>4. /\ DOMAIN next = Fields
      /\ Asks(next, "token")
      /\ \A x \in Watched : Asks(next, x) => x = "token" \/ Asks(member[m], x)
      /\ next.synch_finished
      /\ next.member_id = self.member_id
      /\ next.is_sponsor = self.is_sponsor
      /\ next.response_message_cache = self.response_message_cache
      /\ next.finish_message_rcvd = self.finish_message_rcvd
      /\ next.timeout_wait = self.timeout_wait
      /\ next.status = self.status
      /\ next.synch_token_rcvd = self.synch_token_rcvd
      /\ next.higher_member_id_assigned = self.higher_member_id_assigned
      /\ next.higher_member_id_synching = self.higher_member_id_synching
  BY <1>2, AwaitWhere
<1> HIDE DEF next
<1>5. /\ HeardBy(member, m, next) <=> HeardBy(member, m, self)
      /\ HasHigher(member, next) <=> HasHigher(member, self)
      /\ IsLastMember(m, next) <=> IsLastMember(m, self)
      /\ IsAssigned(next) <=> IsAssigned(self)
  BY <1>4 DEF HeardBy, HasHigher, IsAssigned, IsLastMember
<1>6. HasIt(m, next)
  BY <1>4, <1>5 DEF HasIt, SignsSeen
<1>7. SaysNow(m, next, msg) /\ msg.type # "synch_response"
  BY <1>4, <1>5 DEF SaysNow, SynchToken, IsLastMember, HasIt
<1> HIDE DEF msg
<1>8. \A x \in {msg} : SaysNow(m, next, x) /\ x.type # "synch_response"
  BY <1>7
<1>9. /\ ~ IsLastMember(m, next)
      /\ next.synch_finished
      /\ member[m].synch_finished => next.synch_finished
  BY <1>4, <1>5
<1> QED
  BY <1>3, <1>4, <1>6, <1>8, <1>9, TokenDuty

LEMMA TakeDuty ==
    ASSUME OneGroup, DutyInv, NEW m \in Members, NEW self,
           ~ member[m].synch_token_rcvd,
           self.synch_finished = member[m].synch_finished,
           self.last_member_synch_token_sending_triggered
              = member[m].last_member_synch_token_sending_triggered,
           DOMAIN self = Fields,
           HasIt(m, [self EXCEPT !.synch_token_rcvd = TRUE]),
           OwnTimer(m, self),
           TakeSynchToken(m, self)
    PROVE  Duties'
<1> DEFINE mid == [self EXCEPT !.synch_token_rcvd = TRUE]
<1>1. /\ DOMAIN mid = Fields
      /\ mid.synch_finished = self.synch_finished
      /\ mid.member_id = self.member_id
      /\ mid.last_member_synch_token_sending_triggered
            = self.last_member_synch_token_sending_triggered
      /\ IsLastMember(m, mid) <=> IsLastMember(m, self)
      /\ IsAssigned(mid)
      /\ OwnTimer(m, mid)
  BY DEF Fields, IsLastMember, IsAssigned, HasIt, OwnTimer, Asks, Pending
<1>2. \/ /\ IsLastMember(m, self)
         /\ Become(m, Await(mid, "finish"), {Finish(m)})
      \/ /\ ~ IsLastMember(m, self)
         /\ PassSynchToken(m, mid)
      \/ /\ ~ IsLastMember(m, self)
         /\ Become(m, Await(mid, "successors"),
                   {SynchRequest(m, UnknownSuccessors(m, self))})
  BY DEF TakeSynchToken
<1>3. HasIt(m, mid)
  OBVIOUS
<1> HIDE DEF mid
<1>4. ASSUME NEW h
      PROVE  LET next == Await(mid, h)
             IN  /\ HasIt(m, next)
                 /\ Asks(next, h)
                 /\ \A x \in Watched : Asks(next, x) => x = h \/ Asks(member[m], x)
                 /\ next.synch_finished = self.synch_finished
                 /\ next.last_member_synch_token_sending_triggered
                       = self.last_member_synch_token_sending_triggered
                 /\ IsLastMember(m, next) <=> IsLastMember(m, self)
                 /\ next.member_id = self.member_id
  <2> DEFINE next == Await(mid, h)
  <2>1. /\ DOMAIN next = Fields
        /\ Asks(next, h)
        /\ \A x \in Watched : Asks(next, x) => x = h \/ Asks(member[m], x)
        /\ next.synch_finished = mid.synch_finished
        /\ next.last_member_synch_token_sending_triggered
              = mid.last_member_synch_token_sending_triggered
        /\ next.member_id = mid.member_id
        /\ next.is_sponsor = mid.is_sponsor
        /\ next.response_message_cache = mid.response_message_cache
        /\ next.finish_message_rcvd = mid.finish_message_rcvd
        /\ next.timeout_wait = mid.timeout_wait
        /\ next.status = mid.status
        /\ next.synch_token_rcvd = mid.synch_token_rcvd
        /\ next.higher_member_id_assigned = mid.higher_member_id_assigned
        /\ next.higher_member_id_synching = mid.higher_member_id_synching
    BY <1>1, AwaitWhere DEF OwnTimer
  <2> HIDE DEF next
  <2>2. /\ HeardBy(member, m, next) <=> HeardBy(member, m, mid)
        /\ HasHigher(member, next) <=> HasHigher(member, mid)
        /\ IsLastMember(m, next) <=> IsLastMember(m, mid)
        /\ IsAssigned(next) <=> IsAssigned(mid)
    BY <2>1 DEF HeardBy, HasHigher, IsAssigned, IsLastMember
  <2>3. HasIt(m, next)
    BY <1>3, <2>1, <2>2 DEF HasIt, SignsSeen
  <2> QED
    BY <1>1, <2>1, <2>2, <2>3 DEF next
<1>5. CASE /\ IsLastMember(m, self)
           /\ Become(m, Await(mid, "finish"), {Finish(m)})
  <2> DEFINE next == Await(mid, "finish")
             msg == Finish(m)
  <2>1. /\ HasIt(m, next)
        /\ Asks(next, "finish")
        /\ \A x \in Watched : Asks(next, x) => x = "finish" \/ Asks(member[m], x)
        /\ next.synch_finished = member[m].synch_finished
        /\ next.last_member_synch_token_sending_triggered
              = member[m].last_member_synch_token_sending_triggered
        /\ IsLastMember(m, next)
    BY <1>4, <1>5
  <2>2. Become(m, next, {msg})
    BY <1>5
  <2> HIDE DEF next
  <2>3. SaysNow(m, next, msg) /\ msg.type # "synch_response"
    BY <2>1 DEF SaysNow, Finish, HasIt
  <2> HIDE DEF msg
  <2>4. \A x \in {msg} : SaysNow(m, next, x) /\ x.type # "synch_response"
    BY <2>3
  <2> QED
    BY <2>1, <2>2, <2>4, TokenDuty
<1>6. CASE ~ IsLastMember(m, self) /\ PassSynchToken(m, mid)
  BY <1>1, <1>3, <1>6, PassDuty
<1>7. CASE /\ ~ IsLastMember(m, self)
           /\ Become(m, Await(mid, "successors"),
                     {SynchRequest(m, UnknownSuccessors(m, self))})
  <2> DEFINE next == Await(mid, "successors")
             msg == SynchRequest(m, UnknownSuccessors(m, self))
  <2>1. /\ HasIt(m, next)
        /\ Asks(next, "successors")
        /\ \A x \in Watched : Asks(next, x) => x = "successors" \/ Asks(member[m], x)
        /\ next.synch_finished = member[m].synch_finished
        /\ next.member_id = self.member_id
        /\ ~ IsLastMember(m, next)
    BY <1>4, <1>7
  <2>2. Become(m, next, {msg})
    BY <1>7
  <2>3. ~ member[m].synch_finished
    <3>1. DutyOK(m, member[m])
      BY DutyFacts
    <3>2. ~ IsLastMember(m, member[m])
      BY <2>1 DEF HasIt, IsLastMember, IsAssigned
    <3> QED
      BY <3>1, <3>2 DEF DutyOK, Passed
  <2> HIDE DEF next
  <2>4. member_count[Service(m)] \in Nat /\ self.member_id \in Nat
    BY <2>1, DutyFacts, MemberFacts DEF HasIt
  <2>5. SaysNow(m, next, msg) /\ msg.type # "synch_response"
    BY <2>1, <2>4 DEF SaysNow, SynchRequest, UnknownSuccessors, HasIt
  <2> HIDE DEF msg
  <2>6. \A x \in {msg} : SaysNow(m, next, x) /\ x.type # "synch_response"
    BY <2>5
  <2> QED
    BY <2>1, <2>2, <2>3, <2>6, TokenDuty
<1> QED
  BY <1>2, <1>5, <1>6, <1>7

-----------------------------------------------------------------------------
(***************************************************************************)
(* Who is free to arm its timer for an answer.                             *)
(***************************************************************************)
LEMMA FreeUnassigned ==
    ASSUME DutyInv, NEW m \in Members, ~ IsAssigned(member[m])
    PROVE  Free(m, member[m])
BY DutyFacts, NoFlags DEF Free, Holds, GaveOver, FounderHeard, IsLastMember, DutyInv

\* Everybody is but the sponsor, as long as there is one.
LEMMA FreeWhileSponsor ==
    ASSUME OneGroup, DutyInv, NEW m \in Members, NEW n \in Members, n # m,
           member[n].is_sponsor
    PROVE  /\ Free(m, member[m])
           /\ ~ HasLast(member)
<1>1. IInv
  BY DutyFacts
<1>2. ~ HasLast(member)
  BY <1>1, LastAlone
<1>3. ~ member[m].synch_token_rcvd /\ ~ member[m].synch_finished
  BY <1>2, NoFlags DEF DutyInv
<1>4. ~ member[m].is_sponsor
  <2>1. Service(m) = Service(n) /\ Service(n) \in Services
    BY ServiceTypes DEF OneGroup, OneService
  <2>2. OneSponsor(member, Service(n))
    BY <1>1, <2>1 DEF IInv, Inv, BatonOK
  <2> QED
    BY <2>1, <2>2 DEF OneSponsor, IsSponsor
<1>5. GaveOver(member, member[m])
  <2> SUFFICES ASSUME NEW x \in member[m].response_message_cache,
                      ~ IsAssigned(member[x.new_sponsor])
               PROVE  FALSE
    BY DEF GaveOver
  <2>1. x \in History(member)
    BY HistoryMember
  <2> QED
    BY <1>1, <2>1, TransitTop
<1> QED
  BY <1>2, <1>3, <1>4, <1>5 DEF Free, Holds, FounderHeard

\* Whoever comes after a member that has the token is.
LEMMA FreeInSynch ==
    ASSUME OneGroup, DutyInv, NEW m \in Members, IsAssigned(member[m]), NEW n \in Members,
           Holds(member[n]), member[m].member_id > member[n].member_id
    PROVE  Free(m, member[m])
<1>1. /\ IInv
      /\ HasLast(member)
      /\ IsAssigned(member[n])
      /\ member[n].member_id \in Nat
      /\ member[m].member_id \in Nat
      /\ DutyOK(m, member[m])
  BY DutyFacts, NoFlags, MemberFacts DEF Holds, DutyInv
<1>2. ~ member[m].synch_token_rcvd
  BY <1>1, NobodyPast DEF Holds
<1>3. ~ member[m].is_sponsor /\ GaveOver(member, member[m])
  BY <1>1, LastAlone
<1>4. member[m].synch_finished => HeardBy(member, m, member[m])
  BY <1>1, <1>2 DEF DutyOK, Passed, HeardBy, Holds
<1> QED
  BY <1>2, <1>3, <1>4 DEF Free, Holds, TokenHeard, FounderHeard

\* When the last member has the token back everybody passed it on.
LEMMA AtEnd ==
    ASSUME OneGroup, DutyInv, LastHasToken(member), NEW m \in Members
    PROVE  /\ HasLast(member)
           /\ IsAssigned(member[m]) =>
                 /\ member[m].synch_finished
                 /\ HeardBy(member, m, member[m])
                 /\ IsLastMember(m, member[m]) => member[m].synch_token_rcvd
<1>1. PICK l \in Members : IsLastMember(l, member[l]) /\ member[l].synch_token_rcvd
  BY DEF LastHasToken
<1>2. HasLast(member)
  BY <1>1 DEF HasLast
<1>3. ASSUME IsAssigned(member[m])
      PROVE  /\ member[m].synch_finished
             /\ HeardBy(member, m, member[m])
             /\ IsLastMember(m, member[m]) => member[m].synch_token_rcvd
  <2>1. /\ IInv
        /\ DutyOK(m, member[m])
        /\ AllBefore(member, member[l].member_id)
        /\ member[m].member_id \in 1 .. member_count[Service(m)]
        /\ member[l].member_id = member_count[Service(l)]
        /\ Service(l) = Service(m)
        /\ member_count[Service(m)] \in Nat
        /\ IsAssigned(member[l])
    BY <1>1, <1>3, DutyFacts, MemberFacts, OtherIds
    DEF SignsOK, SignsRight, IsLastMember, OneGroup, OneService
  <2>2. CASE member[m].member_id = member[l].member_id
    <3>1. m = l
      BY <2>1, <2>2, IdsOnce DEF OneGroup
    <3> QED
      BY <1>1, <2>1, <3>1 DEF DutyOK, HeardBy
  <2>3. CASE member[m].member_id # member[l].member_id
    <3>1. member[m].member_id \in 1 .. member[l].member_id - 1
      BY <2>1, <2>3
    <3>2. PICK k \in Members :
              member[k].member_id = member[m].member_id /\ member[k].synch_finished
      BY <2>1, <3>1 DEF AllBefore
    <3>3. k = m
      BY <1>3, <2>1, <3>2, IdsOnce DEF OneGroup
    <3>4. HeardBy(member, m, member[m])
      BY <1>1, <2>1, <3>1 DEF HeardBy
    <3>5. ~ IsLastMember(m, member[m])
      BY <2>1, <2>3 DEF IsLastMember
    <3> QED
      BY <3>2, <3>3, <3>4, <3>5
  <2> QED
    BY <2>2, <2>3
<1> QED
  BY <1>2, <1>3

LEMMA FreeAtEnd ==
    ASSUME OneGroup, DutyInv, LastHasToken(member), NEW m \in Members,
           FounderHeard(member, m, member[m])
    PROVE  Free(m, member[m])
<1>1. IInv /\ HasLast(member)
  BY DutyFacts, AtEnd
<1>2. ~ member[m].is_sponsor /\ GaveOver(member, member[m])
  BY <1>1, LastAlone
<1>3. /\ ~ Holds(member[m])
      /\ member[m].synch_finished => HeardBy(member, m, member[m])
  BY AtEnd, NoFlags DEF Holds, DutyInv
<1> QED
  BY <1>2, <1>3 DEF Free, TokenHeard

LEMMA FreeStays ==
    ASSUME DutyInv, IInv', NEW m \in Members, NEW next, member'[m] = next,
           Free(m, member[m]), Stays(member[m], next)
    PROVE  Free(m, next)
<1> DEFINE old == member[m]
<1>1. IInv /\ (~ IsAssigned(old) => ~ old.synch_token_rcvd)
  BY DutyFacts, NoFlags
<1>2. /\ IsLastMember(m, next) <=> IsLastMember(m, old)
      /\ HeardBy(member, m, next) <=> HeardBy(member, m, old)
      /\ GaveOver(member, next) <=> GaveOver(member, old)
      /\ TokenHeard(member, m, next) <=> TokenHeard(member, m, old)
      /\ FounderHeard(member, m, next) <=> FounderHeard(member, m, old)
      /\ Holds(next) <=> Holds(old)
  BY DEF Stays, IsLastMember, IsAssigned, HeardBy, GaveOver, TokenHeard, FounderHeard, Holds
<1>3. Holds(old) /\ AllSuccessorsKnown(m, old) => AllSuccessorsKnown(m, next)
  BY <1>1, AllSuccessorsStay DEF Stays, Holds
<1> QED
  BY <1>2, <1>3 DEF Free, Stays

(***************************************************************************)
(* The two kinds of steps at which a member stays where it is.             *)
(***************************************************************************)
Noted(a, b) ==
    /\ Stays(a, b)
    /\ DOMAIN b = DOMAIN a
    /\ b.finish_message_rcvd = a.finish_message_rcvd
    /\ b.timeout_wait = a.timeout_wait
    /\ b.scatter_wait = a.scatter_wait
    /\ b.scatter_queue = a.scatter_queue

LEMMA KeepStep ==
    ASSUME DutyInv, IInv', NEW m \in Members, NEW next,
           Noted(member[m], next), SignsSeen(m, member[m], next),
           StatusRight(m, member[m], next),
           next.is_sponsor /\ AllPredecessorsKnown(next) =>
               \/ Asks(member[m], "offer")
               \/ next.assigned_endpoints = member[m].assigned_endpoints,
           Become(m, next, {})
    PROVE  Duties'
<1> DEFINE old == member[m]
<1>1. IInv
  BY DutyFacts
<1>2. member'[m] = next
  BY <1>1, Becomes
<1>3. \A x : Asks(next, x) <=> Asks(old, x)
  BY SameAsks DEF Noted
<1>4. Stays(old, next) /\ TimeoutRight(m, old, next)
  BY DEF Noted, TimeoutRight
<1>5. Harmless(m, old, next)
  BY <1>3 DEF Harmless
<1>6. next.status = "stopped" => old.status = "stopped" \/ FounderHeard(member, m, next)
  BY DEF StatusRight
<1> HIDE DEF old
<1>7. GoesOn(member, m, next)
  BY <1>2, <1>3, <1>4, <1>6, GoesOnKept DEF old
<1> QED
  BY <1>4, <1>5, <1>7, StaysStep DEF old

\* m arms its timer for h, and may cancel what it was armed for.
LEMMA AwaitStays ==
    ASSUME NEW m \in Members, NEW mid, Stays(member[m], mid),
           mid.scatter_queue \in Seq(Handlers), DOMAIN mid = Fields,
           \A x \in Watched : Asks(mid, x) => Asks(member[m], x),
           SignsSeen(m, member[m], mid), NEW h
    PROVE  LET next == Await(mid, h)
           IN  /\ Stays(member[m], next)
               /\ SignsSeen(m, member[m], next)
               /\ Asks(next, h)
               /\ \A x \in Watched : Asks(next, x) => x = h \/ Asks(member[m], x)
               /\ next.timeout_wait = mid.timeout_wait
               /\ next.finish_message_rcvd = mid.finish_message_rcvd
               /\ next.status = mid.status
               /\ next.higher_member_id_assigned = mid.higher_member_id_assigned
               /\ next.higher_member_id_synching = mid.higher_member_id_synching
               /\ next.assigned_endpoints = mid.assigned_endpoints
               /\ DOMAIN next = Fields
<1> DEFINE next == Await(mid, h)
<1>1. /\ Asks(next, h)
      /\ \A x \in Watched : Asks(next, x) => x = h \/ Asks(mid, x)
      /\ next.status = mid.status
      /\ next.is_sponsor = mid.is_sponsor
      /\ next.higher_member_id_synching = mid.higher_member_id_synching
      /\ next.higher_member_id_assigned = mid.higher_member_id_assigned
      /\ next.synch_token_rcvd = mid.synch_token_rcvd
      /\ next.synch_finished = mid.synch_finished
      /\ next.last_member_synch_token_sending_triggered
            = mid.last_member_synch_token_sending_triggered
      /\ next.finish_message_rcvd = mid.finish_message_rcvd
      /\ next.member_id = mid.member_id
      /\ next.response_message_cache = mid.response_message_cache
      /\ next.assigned_keys = mid.assigned_keys
      /\ next.assigned_endpoints = mid.assigned_endpoints
      /\ next.timeout_wait = mid.timeout_wait
      /\ DOMAIN next = Fields
  BY AwaitWhere
<1> HIDE DEF next
<1>2. Stays(member[m], next)
  BY <1>1 DEF Stays
<1>3. /\ HeardBy(member, m, next) <=> HeardBy(member, m, mid)
      /\ HasHigher(member, next) <=> HasHigher(member, mid)
      /\ IsAssigned(next) <=> IsAssigned(mid)
  BY <1>1 DEF HeardBy, HasHigher, IsAssigned, IsLastMember
<1>4. SignsSeen(m, member[m], next)
  BY <1>1, <1>3 DEF SignsSeen
<1> QED
  BY <1>1, <1>2, <1>4 DEF next

LEMMA ArmStep ==
    ASSUME DutyInv, IInv', NEW m \in Members, NEW mid,
           Noted(member[m], mid), SignsSeen(m, member[m], mid),
           mid.status = member[m].status,
           Free(m, member[m]),
           NEW h \in {"request", "info", "synch_info"},
           h = "synch_info" => HasLast(member),
           Become(m, Await(mid, h), {})
    PROVE  Duties'
<1> DEFINE old == member[m]
           next == Await(mid, h)
<1>1. /\ IInv
      /\ DOMAIN mid = Fields
      /\ mid.scatter_queue \in Seq(Handlers)
      /\ \A x : Asks(mid, x) <=> Asks(old, x)
  BY DutyFacts, MemberFacts, SameAsks DEF Noted, IInv, TimersOK, TimerTypes
<1>2. /\ Stays(old, next)
      /\ SignsSeen(m, old, next)
      /\ \A x \in Watched : Asks(next, x) => x = h \/ Asks(old, x)
      /\ next.timeout_wait = old.timeout_wait
      /\ next.finish_message_rcvd = old.finish_message_rcvd
      /\ next.status = old.status
  BY <1>1, AwaitStays DEF Noted
<1>3. member'[m] = next
  BY <1>1, Becomes
<1>4. Become(m, next, {})
  OBVIOUS
<1> HIDE DEF next
<1>5. GoesOn(member, m, next)
  BY <1>2, <1>3, FreeStays, FreeGoesOn
<1>6. /\ Harmless(m, old, next)
      /\ TimeoutRight(m, old, next)
      /\ StatusRight(m, old, next)
  BY <1>2 DEF Harmless, TimeoutRight, StatusRight, Watched, Cyclic
<1> HIDE DEF old
<1> QED
  BY <1>2, <1>4, <1>5, <1>6, StaysStep DEF old

-----------------------------------------------------------------------------
(***************************************************************************)
(* What a member gets to know.                                             *)
(***************************************************************************)
SameSigns(a, b) ==
    /\ b.higher_member_id_assigned = a.higher_member_id_assigned
    /\ b.higher_member_id_synching = a.higher_member_id_synching

Learnt(a, b) == Noted(a, b) /\ SameSigns(a, b) /\ b.status = a.status

LEMMA TellsTrans ==
    ASSUME NEW a, NEW b, NEW c, Learnt(a, b), Learnt(b, c)
    PROVE  Learnt(a, c)
BY DEF Learnt, Noted, SameSigns, Stays

LEMMA TellsSame == ASSUME NEW a PROVE Learnt(a, a)
BY DEF Learnt, Noted, SameSigns, Stays

LEMMA TellsNote ==
    ASSUME NEW m, NEW self, DOMAIN self = Fields, NEW e, NEW id
    PROVE  Learnt(self, Note(m, self, e, id))
<1>1. CASE e = m \/ e \in DOMAIN self.assigned_endpoints
  BY <1>1, TellsSame DEF Note
<1>2. CASE ~ (e = m \/ e \in DOMAIN self.assigned_endpoints)
  <2> DEFINE next == [self EXCEPT
                        !.assigned_keys = Put(self.assigned_keys, id, e),
                        !.assigned_endpoints = Put(self.assigned_endpoints, e, id)]
  <2>1. Note(m, self, e, id) = next
    BY <1>2 DEF Note
  <2>2. Learnt(self, next)
    BY DEF Learnt, Noted, SameSigns, Stays, Fields, Put
  <2> QED
    BY <2>1, <2>2
<1> QED
  BY <1>1, <1>2

LEMMA TellsPending ==
    ASSUME NEW self, DOMAIN self = Fields, NEW set
    PROVE  Learnt(self, [self EXCEPT !.pending_requests = set])
BY DEF Learnt, Noted, SameSigns, Stays, Fields

LEMMA TellsLearn ==
    ASSUME NEW m, NEW self, DOMAIN self = Fields, NEW msg
    PROVE  Learnt(self, Learn(m, self, msg))
<1> DEFINE new == Note(m, self, msg.new_sponsor, msg.assigned_id)
           old == Note(m, new, msg.from, msg.assigned_id - 1)
           next == [old EXCEPT !.pending_requests = @ \ {msg.new_sponsor, msg.from}]
<1>1. Learnt(self, new) /\ DOMAIN new = Fields
  BY TellsNote DEF Learnt, Noted
<1> HIDE DEF new
<1>2. Learnt(new, old) /\ DOMAIN old = Fields
  BY <1>1, TellsNote DEF Learnt, Noted
<1>3. Learn(m, self, msg) = next
  BY DEF Learn, new
<1> HIDE DEF old
<1>4. Learnt(old, next)
  BY <1>2, TellsPending
<1> QED
  BY <1>1, <1>2, <1>3, <1>4, TellsTrans

LEMMA TellsAddKeys ==
    ASSUME NEW self, DOMAIN self = Fields, NEW next \in CheckAndAddNextBlindedKeys(self)
    PROVE  Learnt(self, next) /\ next.assigned_endpoints = self.assigned_endpoints
<1>1. CASE next = self
  BY <1>1, TellsSame
<1>2. ASSUME NEW top, next = AddKeys(self, top)
      PROVE  Learnt(self, next) /\ next.assigned_endpoints = self.assigned_endpoints
  BY <1>2 DEF AddKeys, Learnt, Noted, SameSigns, Stays, Fields
<1> QED
  BY <1>1, <1>2 DEF CheckAndAddNextBlindedKeys

LEMMA TellsInfo ==
    ASSUME NEW m, NEW self, DOMAIN self = Fields, NEW msg, NEW next \in LearnInfo(m, self, msg)
    PROVE  Learnt(self, next)
<1> DEFINE noted == Note(m, self, msg.from, msg.member_id)
           told == [noted EXCEPT !.pending_requests = @ \ {msg.from}]
<1>1. Learnt(self, noted) /\ DOMAIN noted = Fields
  BY TellsNote DEF Learnt, Noted
<1>2. next = self \/ next \in CheckAndAddNextBlindedKeys(told)
  BY DEF LearnInfo
<1> HIDE DEF noted
<1>3. Learnt(noted, told) /\ DOMAIN told = Fields
  BY <1>1, TellsPending DEF Learnt, Noted
<1> HIDE DEF told
<1>4. next \in CheckAndAddNextBlindedKeys(told) => Learnt(told, next)
  BY <1>3, TellsAddKeys
<1> QED
  BY <1>1, <1>2, <1>3, <1>4, TellsSame, TellsTrans

\* What a response makes of a member: it takes over, or stays where it is.
TakesOver(m, msg, a, b) ==
    /\ ~ IsAssigned(a)
    /\ msg.new_sponsor = m
    /\ b.is_sponsor = TRUE
    /\ DOMAIN b = Fields
    /\ SameSynch(a, b)
    /\ SameSigns(a, b)
    /\ b.response_message_cache = a.response_message_cache
    /\ b.timeout_wait = a.timeout_wait
    /\ b.status = a.status
    /\ b.scatter_wait = a.scatter_wait
    /\ b.scatter_queue = a.scatter_queue
    /\ b.last_member_synch_token_sending_triggered
          = a.last_member_synch_token_sending_triggered

LEMMA TellsResponse ==
    ASSUME NEW m, NEW self, DOMAIN self = Fields, NEW msg
    PROVE  \/ Learnt(self, AfterResponse(m, self, msg))
           \/ TakesOver(m, msg, self, AfterResponse(m, self, msg))
<1> DEFINE learnt == Learn(m, self, msg)
           next == AfterResponse(m, self, msg)
<1>1. Learnt(self, learnt)
  BY TellsLearn
<1>2. \/ next = self
      \/ next = learnt
      \/ /\ msg.service = Service(m)
         /\ msg.new_sponsor = m
         /\ ~ IsAssigned(learnt)
         /\ next = TakeOver(m, learnt, msg)
  BY DEF AfterResponse, BecomeSponsor, Addressed
<1> HIDE DEF learnt
<1>3. CASE next = self \/ next = learnt
  BY <1>1, <1>3, TellsSame
<1>4. CASE /\ msg.service = Service(m)
           /\ msg.new_sponsor = m
           /\ ~ IsAssigned(learnt)
           /\ next = TakeOver(m, learnt, msg)
  <2>1. DOMAIN learnt = Fields /\ ~ IsAssigned(self)
    BY <1>1, <1>4 DEF Learnt, Noted, Stays, IsAssigned
  <2>2. /\ next.is_sponsor = TRUE
        /\ DOMAIN next = Fields
        /\ SameSynch(learnt, next)
        /\ SameSigns(learnt, next)
        /\ next.response_message_cache = learnt.response_message_cache
        /\ next.timeout_wait = learnt.timeout_wait
        /\ next.status = learnt.status
        /\ next.scatter_wait = learnt.scatter_wait
        /\ next.scatter_queue = learnt.scatter_queue
        /\ next.last_member_synch_token_sending_triggered
              = learnt.last_member_synch_token_sending_triggered
    BY <1>4, <2>1 DEF TakeOver, Fields, SameSynch, SameSigns
  <2> HIDE DEF next
  <2> QED
    BY <1>1, <1>4, <2>1, <2>2 DEF TakesOver, Learnt, Noted, Stays, SameSigns, SameSynch, next
<1> QED
  BY <1>2, <1>3, <1>4

LEMMA TellsNoSign ==
    ASSUME NEW m, NEW a, NEW b, SameSigns(a, b)
    PROVE  SignsSeen(m, a, b)
BY DEF SameSigns, SignsSeen

\* A message of the sponsor is a sign for whoever has an id.
LEMMA SponsorIsSign ==
    ASSUME OneGroup, DutyInv, NEW m \in Members, NEW n \in Members, n # m,
           member[n].is_sponsor
    PROVE  LET next == CheckIfHigherMemberIdAssigned(m, member[m], n)
           IN  /\ Noted(member[m], next)
               /\ SignsSeen(m, member[m], next)
               /\ DOMAIN next = Fields
               /\ next.assigned_endpoints = member[m].assigned_endpoints
               /\ next.response_scheduled = member[m].response_scheduled
               /\ next.request_scheduled = member[m].request_scheduled
               /\ next.status = member[m].status
<1> DEFINE old == member[m]
           next == CheckIfHigherMemberIdAssigned(m, old, n)
<1>1. /\ IInv
      /\ DOMAIN old = Fields
      /\ old.member_id \in Nat
      /\ member[n].member_id \in Nat
      /\ member[n].member_id >= old.member_id
      /\ IsAssigned(old) => member[n].member_id # old.member_id
  BY DutyFacts, MemberFacts, SponsorBeyond, IdsOnce DEF OneGroup
<1>2. IsAssigned(old) => HasHigher(member, old)
  BY <1>1 DEF HasHigher
<1> HIDE DEF old
<1>3. /\ Noted(old, next)
      /\ DOMAIN next = Fields
      /\ next.assigned_endpoints = old.assigned_endpoints
      /\ next.response_scheduled = old.response_scheduled
      /\ next.request_scheduled = old.request_scheduled
      /\ next.status = old.status
      /\ next.member_id = old.member_id
      /\ next.higher_member_id_synching = old.higher_member_id_synching
      /\ next.higher_member_id_assigned => old.higher_member_id_assigned \/ IsAssigned(old)
  BY <1>1 DEF CheckIfHigherMemberIdAssigned, Noted, Stays, Fields
<1> HIDE DEF next
<1>4. HasHigher(member, old) => HasHigher(member, next)
  BY <1>3 DEF HasHigher, IsAssigned
<1>5. SignsSeen(m, old, next)
  BY <1>2, <1>3, <1>4 DEF SignsSeen
<1> QED
  BY <1>3, <1>5 DEF old, next

-----------------------------------------------------------------------------
(***************************************************************************)
(* The handlers of messages.                                               *)
(***************************************************************************)
LEMMA MessageSays ==
    ASSUME DutyInv, NEW n \in Members, NEW msg \in net[n]
    PROVE  /\ SaysNow(n, member[n], msg)
           /\ msg.type = "synch_response" => HasLast(member)
           /\ msg.from = n
BY DutyFacts, Received DEF DutyInv, Duties

LEMMA OfferDuty ==
    ASSUME OneGroup, DutyInv, IInv', NEW m \in Members, NEW n \in Members, n # m,
           NEW msg \in net[n], ~ Stale(n, msg), ProcessOffer(m, msg)
    PROVE  Duties'
<1> DEFINE self == CheckIfHigherMemberIdAssigned(m, member[m], msg.from)
           mid == [self EXCEPT !.request_scheduled = TRUE]
<1>1. msg.from = n /\ member[n].is_sponsor
  BY MessageSays DEF ProcessOffer, Stale
<1>2. /\ Noted(member[m], self)
      /\ SignsSeen(m, member[m], self)
      /\ DOMAIN self = Fields
      /\ self.assigned_endpoints = member[m].assigned_endpoints
      /\ self.status = member[m].status
  BY <1>1, SponsorIsSign
<1>3. \/ Become(m, self, {})
      \/ Become(m, Await(mid, "request"), {})
  BY DEF ProcessOffer
<1> HIDE DEF self
<1>4. CASE Become(m, self, {})
  BY <1>2, <1>4, KeepStep DEF StatusRight
<1>5. CASE Become(m, Await(mid, "request"), {})
  <2>1. /\ Noted(self, mid)
        /\ SameSigns(self, mid)
        /\ mid.member_id = self.member_id
        /\ mid.status = self.status
    BY <1>2 DEF Noted, Stays, SameSigns, Fields
  <2> HIDE DEF mid
  <2>2. Noted(member[m], mid)
    BY <1>2, <2>1 DEF Noted, Stays
  <2>3. SignsSeen(m, member[m], mid)
    BY <1>2, <2>1 DEF SignsSeen, SameSigns, HasHigher, HeardBy, IsAssigned, IsLastMember
  <2> QED
    BY <1>1, <1>2, <1>5, <2>1, <2>2, <2>3, FreeWhileSponsor, ArmStep
<1> QED
  BY <1>3, <1>4, <1>5

\* process_member_info_request_ at a member that is free, or not asked.
LEMMA ScheduleDuty ==
    ASSUME OneGroup, DutyInv, IInv', NEW m \in Members, NEW self,
           Noted(member[m], self), SignsSeen(m, member[m], self), DOMAIN self = Fields,
           self.assigned_endpoints = member[m].assigned_endpoints,
           self.status = member[m].status,
           NEW msg, NEW h \in {"info", "synch_info"},
           h = "synch_info" => HasLast(member),
           IsAssigned(member[m]) /\ member[m].member_id \in msg.requested
              => Free(m, member[m]),
           Become(m, ScheduleResponse(m, self, msg, h), {})
    PROVE  Duties'
<1> DEFINE mid == [self EXCEPT !.response_scheduled = TRUE]
<1>1. \/ Become(m, self, {})
      \/ /\ IsAssigned(self)
         /\ self.member_id \in msg.requested
         /\ Become(m, Await(mid, h), {})
  BY DEF ScheduleResponse
<1>2. CASE Become(m, self, {})
  BY <1>2, KeepStep DEF StatusRight
<1>3. CASE /\ IsAssigned(self)
           /\ self.member_id \in msg.requested
           /\ Become(m, Await(mid, h), {})
  <2>1. /\ Noted(self, mid)
        /\ SameSigns(self, mid)
        /\ mid.member_id = self.member_id
        /\ mid.status = self.status
    BY DEF Noted, Stays, SameSigns, Fields
  <2> HIDE DEF mid
  <2>2. Noted(member[m], mid)
    BY <2>1 DEF Noted, Stays
  <2>3. SignsSeen(m, member[m], mid)
    BY <2>1 DEF SignsSeen, SameSigns, HasHigher, HeardBy, IsAssigned, IsLastMember
  <2>4. Free(m, member[m])
    BY <1>3 DEF Noted, Stays, IsAssigned
  <2> QED
    BY <1>3, <2>1, <2>2, <2>3, <2>4, ArmStep
<1> QED
  BY <1>1, <1>2, <1>3

LEMMA InfoRequestDuty ==
    ASSUME OneGroup, DutyInv, IInv', NEW m \in Members, NEW n \in Members, n # m,
           NEW msg \in net[n], ~ Stale(n, msg), ProcessMemberInfoRequest(m, msg)
    PROVE  Duties'
<1> DEFINE self == CheckIfHigherMemberIdAssigned(m, member[m], msg.from)
<1>1. msg.from = n /\ member[n].is_sponsor
  BY MessageSays DEF ProcessMemberInfoRequest, Stale
<1>2. /\ Noted(member[m], self)
      /\ SignsSeen(m, member[m], self)
      /\ DOMAIN self = Fields
      /\ self.assigned_endpoints = member[m].assigned_endpoints
      /\ self.status = member[m].status
  BY <1>1, SponsorIsSign
<1>3. Become(m, ScheduleResponse(m, self, msg, "info"), {})
  BY DEF ProcessMemberInfoRequest
<1> HIDE DEF self
<1> QED
  BY <1>1, <1>2, <1>3, FreeWhileSponsor, ScheduleDuty

\* What a member knows of another one is its id.
LEMMA KnownId ==
    ASSUME OneService, IInv, NEW m \in Members, NEW n \in Members, IsAssigned(member[n]),
           n \in DOMAIN member[m].assigned_endpoints
    PROVE  member[m].assigned_endpoints[n] = member[n].member_id
<1>1. Gives(History(member), Service(m), member[m].assigned_endpoints[n], n)
  BY MemberFacts DEF MemberOK, MapsOK
<1>2. Gives(History(member), Service(n), member[n].member_id, n)
  BY AssignedAre
<1>3. Service(n) = Service(m)
  BY MemberFacts DEF OneService
<1> QED
  BY <1>1, <1>2, <1>3, MemberFacts, GivesUnique

\* The ids of later members are compared with the rank.
LEMMA Ranks ==
    ASSUME IInv, NEW m \in Members, IsAssigned(member[m])
    PROVE  /\ member[m].member_id \in 1 .. member_count[Service(m)]
           /\ IsLastMember(m, member[m]) => Rank(m, member[m]) = 0
           /\ ~ IsLastMember(m, member[m]) => Rank(m, member[m]) = member[m].member_id
<1>1. /\ member[m].member_id \in 1 .. member_count[Service(m)]
      /\ member_count[Service(m)] \in Nat \ {0}
  BY MemberFacts, OtherIds
<1>2. ASSUME IsLastMember(m, member[m]) PROVE Rank(m, member[m]) = 0
  BY <1>1, <1>2 DEF IsLastMember, Rank
<1>3. ASSUME ~ IsLastMember(m, member[m]) PROVE Rank(m, member[m]) = member[m].member_id
  BY <1>1, <1>3 DEF IsLastMember, Rank
<1> QED
  BY <1>1, <1>2, <1>3

\* m got a sign that the token is past it, or that it is about.
LEMMA SynchSign ==
    ASSUME DutyInv, NEW m \in Members, HasLast(member), NEW seen,
           seen => (IsAssigned(member[m]) => HeardBy(member, m, member[m]))
    PROVE  LET self == [member[m] EXCEPT
                           !.higher_member_id_assigned = TRUE,
                           !.higher_member_id_synching = @ \/ seen]
           IN  /\ Noted(member[m], self)
               /\ SignsSeen(m, member[m], self)
               /\ DOMAIN self = Fields
               /\ self.assigned_endpoints = member[m].assigned_endpoints
               /\ self.status = member[m].status
<1> DEFINE old == member[m]
           self == [old EXCEPT
                       !.higher_member_id_assigned = TRUE,
                       !.higher_member_id_synching = @ \/ seen]
<1>1. DOMAIN old = Fields
  BY DutyFacts, MemberFacts
<1> HIDE DEF old
<1>2. /\ Noted(old, self)
      /\ DOMAIN self = Fields
      /\ self.assigned_endpoints = old.assigned_endpoints
      /\ self.status = old.status
      /\ self.member_id = old.member_id
      /\ self.higher_member_id_synching => old.higher_member_id_synching \/ seen
  BY <1>1 DEF Noted, Stays, Fields
<1> HIDE DEF self
<1>3. /\ HeardBy(member, m, old) => HeardBy(member, m, self)
      /\ IsAssigned(self) <=> IsAssigned(old)
  BY <1>2 DEF HeardBy, IsAssigned, IsLastMember
<1>4. SignsSeen(m, old, self)
  BY <1>2, <1>3 DEF SignsSeen, old
<1> QED
  BY <1>2, <1>4 DEF old, self

LEMMA SynchRequestDuty ==
    ASSUME OneGroup, DutyInv, IInv', NEW m \in Members, NEW n \in Members, n # m,
           NEW msg \in net[n], ~ Stale(n, msg), ProcessMemberInfoSynchRequest(m, msg)
    PROVE  Duties'
<1> DEFINE seen == KnownLater(m, member[m], msg.from)
           self == [member[m] EXCEPT
                       !.higher_member_id_assigned = TRUE,
                       !.higher_member_id_synching = @ \/ seen]
<1>1. /\ msg.from = n
      /\ Holds(member[n])
      /\ \A id \in msg.requested : id > member[n].member_id
  BY MessageSays DEF ProcessMemberInfoSynchRequest, SaysNow, Stale, Holds
<1>2. IInv /\ HasLast(member) /\ IsAssigned(member[n])
  BY <1>1, DutyFacts, NoFlags DEF Holds
<1>3. ASSUME seen, IsAssigned(member[m]) PROVE HeardBy(member, m, member[m])
  <2>1. member[n].member_id > Rank(m, member[m])
    BY <1>1, <1>2, <1>3, KnownId DEF KnownLater, OneGroup
  <2> QED
    BY <1>1, <1>2, <1>3, <2>1, Ranks DEF HeardBy, Holds
<1>4. Become(m, ScheduleResponse(m, self, msg, "synch_info"), {})
  BY DEF ProcessMemberInfoSynchRequest
<1> HIDE DEF seen
<1>5. /\ Noted(member[m], self)
      /\ SignsSeen(m, member[m], self)
      /\ DOMAIN self = Fields
      /\ self.assigned_endpoints = member[m].assigned_endpoints
      /\ self.status = member[m].status
  BY <1>2, <1>3, SynchSign
<1> HIDE DEF self
<1>6. ASSUME IsAssigned(member[m]), member[m].member_id \in msg.requested
      PROVE  Free(m, member[m])
  BY <1>1, <1>6, FreeInSynch
<1> QED
  BY <1>2, <1>4, <1>5, <1>6, ScheduleDuty

LEMMA SynchTokenDuty ==
    ASSUME OneGroup, DutyInv, IInv', NEW m \in Members, member[m].status = "running",
           NEW n \in Members, n # m, NEW msg \in net[n], ProcessSynchToken(m, msg)
    PROVE  Duties'
<1> DEFINE seen == msg.member_id > Rank(m, member[m])
           old == member[m]
           self == [old EXCEPT
                       !.higher_member_id_assigned = TRUE,
                       !.higher_member_id_synching = @ \/ seen]
<1>1. /\ member[n].synch_finished
      /\ IsAssigned(member[n])
      /\ msg.member_id = IF IsLastMember(n, member[n]) THEN 1 ELSE member[n].member_id + 1
  BY MessageSays DEF ProcessSynchToken, SaysNow
<1>2. /\ IInv
      /\ HasLast(member)
      /\ IsAssigned(member[n])
      /\ member[n].member_id \in Nat \ {0}
      /\ old.member_id \in Nat
      /\ DOMAIN old = Fields
      /\ ~ IsLastMember(n, member[n]) => member[n].synch_token_rcvd
      /\ AllBefore(member, msg.member_id)
      /\ ~ IsLastMember(m, old) \/ ~ IsLastMember(n, member[n])
      /\ IsAssigned(old) => old.member_id # member[n].member_id
  <2>1. /\ IInv
        /\ HasLast(member)
        /\ IsAssigned(member[n])
        /\ member[n].member_id \in Nat \ {0}
        /\ old.member_id \in Nat
        /\ DOMAIN old = Fields
        /\ ~ IsLastMember(n, member[n]) => member[n].synch_token_rcvd
    BY <1>1, DutyFacts, NoFlags, MemberFacts DEF DutyOK, Passed, IsAssigned, DEFAULT_MEMBER_ID
  <2>2. IsAssigned(old) => old.member_id # member[n].member_id
    BY <2>1, IdsOnce DEF OneGroup
  <2>3. ~ IsLastMember(m, old) \/ ~ IsLastMember(n, member[n])
    BY <2>1, <2>2, MemberFacts DEF IsLastMember, OneGroup, OneService
  <2>4. CASE IsLastMember(n, member[n])
    BY <1>1, <2>1, <2>2, <2>3, <2>4 DEF AllBefore
  <2>5. CASE ~ IsLastMember(n, member[n])
    <3>1. AllBefore(member, member[n].member_id)
      BY <2>1, <2>5, DutyFacts DEF SignsOK, SignsRight
    <3>2. ASSUME NEW id \in 1 .. msg.member_id - 1
          PROVE  \E k \in Members : member[k].member_id = id /\ member[k].synch_finished
      <4>1. id \in 1 .. member[n].member_id - 1 \/ id = member[n].member_id
        BY <1>1, <2>1, <2>5
      <4> QED
        BY <1>1, <3>1, <4>1 DEF AllBefore
    <3> QED
      BY <2>1, <2>2, <2>3, <3>2 DEF AllBefore
  <2> QED
    BY <2>4, <2>5
<1>3. ASSUME seen, IsAssigned(old) PROVE HeardBy(member, m, old)
  <2>1. ~ IsLastMember(n, member[n])
    <3> SUFFICES ASSUME IsLastMember(n, member[n]) PROVE FALSE
      OBVIOUS
    <3> QED
      BY <1>1, <1>2, <1>3, Ranks
  <2> QED
    BY <1>1, <1>2, <1>3, <2>1, Ranks DEF HeardBy
<1>4. IF ForMe(m, self, msg) THEN TakeSynchToken(m, self) ELSE Become(m, self, {})
  BY DEF ProcessSynchToken
<1>5. /\ Noted(old, self)
      /\ SignsSeen(m, old, self)
      /\ DOMAIN self = Fields
      /\ self.assigned_endpoints = old.assigned_endpoints
      /\ self.status = old.status
  BY <1>2, <1>3, SynchSign
<1>6. old.status = "running" /\ (IsLastMember(m, old) => seen)
  BY <1>1, <1>2, Ranks DEF IsLastMember
<1>10. self.higher_member_id_assigned /\ (seen => self.higher_member_id_synching)
  BY <1>2 DEF Fields
<1> HIDE DEF old, self, seen
<1>7. CASE Become(m, self, {})
  BY <1>5, <1>7, KeepStep DEF StatusRight, old
<1>8. CASE ForMe(m, self, msg) /\ TakeSynchToken(m, self)
  <2> DEFINE mid == [self EXCEPT !.synch_token_rcvd = TRUE]
  <2>1. /\ self.member_id = old.member_id
        /\ msg.member_id = old.member_id
        /\ ~ old.synch_token_rcvd
        /\ self.synch_finished = old.synch_finished
        /\ self.last_member_synch_token_sending_triggered
              = old.last_member_synch_token_sending_triggered
        /\ IsAssigned(self)
    BY <1>1, <1>2, <1>5, <1>8 DEF ForMe, Noted, Stays, IsAssigned, DEFAULT_MEMBER_ID
  <2>2. /\ OwnTimer(m, self)
        /\ IsLastMember(m, self) => self.higher_member_id_synching
    <3>1. old.scatter_queue \in Seq(Handlers)
      BY <1>2 DEF IInv, TimersOK, TimerTypes, old
    <3>2. /\ self.scatter_queue = old.scatter_queue
          /\ self.scatter_wait = old.scatter_wait
          /\ IsLastMember(m, self) <=> IsLastMember(m, old)
      BY <1>5 DEF Noted, Stays, IsLastMember, IsAssigned
    <3> QED
      BY <1>6, <1>10, <3>1, <3>2, SameAsks DEF OwnTimer, old
  <2>3. /\ DOMAIN mid = Fields
        /\ mid.synch_token_rcvd
        /\ mid.member_id = self.member_id
        /\ mid.is_sponsor = self.is_sponsor
        /\ mid.response_message_cache = self.response_message_cache
        /\ mid.finish_message_rcvd = self.finish_message_rcvd
        /\ mid.timeout_wait = self.timeout_wait
        /\ mid.status = self.status
        /\ mid.higher_member_id_assigned = self.higher_member_id_assigned
        /\ mid.higher_member_id_synching = self.higher_member_id_synching
    BY <1>5 DEF Fields
  <2> HIDE DEF mid
  <2>4. /\ HeardBy(member, m, self) => HeardBy(member, m, mid)
        /\ HasHigher(member, self) => HasHigher(member, mid)
        /\ IsAssigned(mid)
        /\ IsLastMember(m, mid) <=> IsLastMember(m, self)
    BY <2>1, <2>3 DEF HeardBy, HasHigher, IsAssigned, IsLastMember
  <2>5. SignsSeen(m, old, mid)
    BY <1>5, <2>1, <2>3, <2>4 DEF SignsSeen
  <2>6. HasIt(m, mid)
    BY <1>2, <1>5, <1>6, <1>10, <2>1, <2>2, <2>3, <2>4, <2>5 DEF HasIt, old, Noted, Stays
  <2> QED
    BY <1>5, <1>8, <2>1, <2>2, <2>6, TakeDuty DEF old, mid
<1> QED
  BY <1>4, <1>7, <1>8

\* m goes on after it learnt of others: only the sponsor has something to do.
LEMMA GoOnDuty ==
    ASSUME OneGroup, DutyInv, IInv', NEW m \in Members, NEW self, Good(m, self),
           Learnt(member[m], self), ProcessPendingRequest(m, self)
    PROVE  Duties'
<1> DEFINE old == member[m]
<1>1. /\ IInv
      /\ DutyOK(m, old)
      /\ SignsOK(member, m, old)
  BY DutyFacts
<1>2. /\ self.is_sponsor = old.is_sponsor
      /\ self.member_id = old.member_id
      /\ SameSynch(old, self)
      /\ self.higher_member_id_synching = old.higher_member_id_synching
      /\ self.higher_member_id_assigned = old.higher_member_id_assigned
      /\ self.timeout_wait = old.timeout_wait
      /\ self.scatter_wait = old.scatter_wait
      /\ self.scatter_queue = old.scatter_queue
  <2>1. self.finish_message_rcvd = old.finish_message_rcvd
    BY DEF Learnt, Noted
  <2> QED
    BY <2>1 DEF Learnt, Noted, Stays, SameSigns, SameSynch
<1> HIDE DEF old
<1>3. CASE ~ self.is_sponsor
  <2>1. Become(m, self, {})
    BY <1>3 DEF ProcessPendingRequest
  <2>2. /\ Noted(old, self)
        /\ SignsSeen(m, old, self)
        /\ StatusRight(m, old, self)
    BY TellsNoSign DEF Learnt, StatusRight, old
  <2> QED
    BY <1>3, <2>1, <2>2, KeepStep DEF old
<1>4. CASE self.is_sponsor
  <2>1. ~ HasLast(member)
    BY <1>1, <1>2, <1>4, LastAlone DEF old
  <2>2. self.member_id < member_count[Service(m)]
    BY <1>1, <1>2, <1>4, SponsorBeyond DEF OneGroup, old
  <2>3. ~ HasHigher(member, old)
    <3> SUFFICES ASSUME NEW n \in Members, member[n].member_id > old.member_id PROVE FALSE
      BY DEF HasHigher
    <3>1. /\ member[n].member_id <= old.member_id
          /\ member[n].member_id \in Nat
          /\ old.member_id \in Nat
      BY <1>1, <1>2, <1>4, SponsorBeyond, MemberFacts DEF OneGroup, old
    <3> QED
      BY <3>1
  <2>4. ~ self.higher_member_id_assigned
    BY <1>1, <1>2, <2>1, <2>3 DEF SignsOK, SignsRight
  <2> QED
    BY <1>2, <1>4, <2>1, <2>2, <2>4, PendingDuty DEF old
<1> QED
  BY <1>3, <1>4

LEMMA RequestDuty ==
    ASSUME OneGroup, DutyInv, IInv', NEW m \in Members, member[m].status = "running",
           NEW n \in Members, n # m, NEW msg \in net[n], ProcessRequest(m, msg)
    PROVE  Duties'
<1> DEFINE old == member[m]
           noted == NoteRequest(m, old, msg)
           recorded == RecordTimestamp(noted, "KEY_AGREEMENT_START")
<1>1. /\ IInv
      /\ msg.from = n
      /\ msg.type = "request" => msg.service = Service(n)
      /\ Good(m, old)
      /\ DOMAIN old = Fields
      /\ DutyOK(m, old)
  <2>1. IInv /\ DutyOK(m, old)
    BY DutyFacts
  <2> QED
    BY <2>1, Received, GoodStart, MemberFacts DEF Truthful
<1>2. Good(m, noted) /\ Learnt(old, noted)
  <2> DEFINE set == old.pending_requests \cup {n}
  <2>1. CASE noted = old
    BY <1>1, <2>1, TellsSame
  <2>2. CASE noted = [old EXCEPT !.pending_requests = set] /\ msg.service = Service(m)
    <3>1. \A e \in set : e \in Members /\ e # m /\ Service(e) = Service(m)
      <4>1. MemberOK(History(member), m, old)
        BY <1>1 DEF IInv, Inv
      <4> QED
        BY <1>1, <2>2, <4>1 DEF MemberOK, CoreTypes, PendingOK, ProcessRequest
    <3> HIDE DEF old, set, noted
    <3> QED
      BY <1>1, <2>2, <3>1, GoodPending, TellsPending
  <2> QED
    BY <1>1, <2>1, <2>2 DEF NoteRequest
<1>3. DOMAIN noted = Fields /\ noted.status = "running"
  BY <1>1, <1>2, GoodMember DEF Good
<1>4. \/ /\ recorded.status = "crashed"
         /\ noted.member_id = INITIAL_SPONSOR_ID
         /\ Become(m, recorded, {})
      \/ /\ recorded.status # "crashed"
         /\ ProcessPendingRequest(m, recorded)
      \/ ProcessPendingRequest(m, noted)
  BY <1>3 DEF ProcessRequest
<1> HIDE DEF noted
<1>5. /\ SameKeys(noted, recorded)
      /\ recorded.status \in {"running", "crashed"}
      /\ recorded.is_sponsor = noted.is_sponsor
      /\ recorded.blinded_group_secret = noted.blinded_group_secret
      /\ recorded.pending_requests = noted.pending_requests
      /\ recorded.response_message_cache = noted.response_message_cache
      /\ SameTimers(noted, recorded)
      /\ recorded.last_member_synch_token_sending_triggered
            = noted.last_member_synch_token_sending_triggered
  BY <1>3 DEF RecordTimestamp, SameKeys, SameTimers, Fields
<1>6. /\ Noted(noted, recorded)
      /\ SameSigns(noted, recorded)
      /\ recorded.assigned_endpoints = noted.assigned_endpoints
  BY <1>3 DEF RecordTimestamp, Fields, Noted, Stays, SameSigns
<1> HIDE DEF recorded
<1>7. Noted(old, recorded) /\ SameSigns(old, recorded)
  BY <1>2, <1>6 DEF Learnt, Noted, Stays, SameSigns
<1>8. CASE /\ recorded.status = "crashed"
           /\ noted.member_id = INITIAL_SPONSOR_ID
           /\ Become(m, recorded, {})
  <2>1. recorded.assigned_endpoints = old.assigned_endpoints
    <3>1. noted.assigned_endpoints = old.assigned_endpoints
      BY <1>1 DEF noted, NoteRequest, Fields
    <3> QED
      BY <1>6, <3>1
  <2>2. SignsSeen(m, old, recorded)
    BY <1>7, TellsNoSign
  <2>3. IsFounder(m)
    <3>1. old.member_id = INITIAL_SPONSOR_ID /\ IsAssigned(old)
      BY <1>2, <1>8 DEF Learnt, Noted, Stays, IsAssigned, INITIAL_SPONSOR_ID, DEFAULT_MEMBER_ID
    <3> QED
      BY <1>1, <3>1, FounderIsFirst DEF OneGroup
  <2>4. StatusRight(m, old, recorded)
    BY <1>8, <2>3 DEF StatusRight
  <2> QED
    BY <1>7, <1>8, <2>1, <2>2, <2>4, KeepStep
<1>9. CASE recorded.status # "crashed" /\ ProcessPendingRequest(m, recorded)
  <2>1. SameCore(noted, recorded)
    BY <1>3, <1>5, <1>9 DEF SameCore
  <2>2. Good(m, recorded)
    BY <1>1, <1>2, <1>5, <2>1, GoodFlags
  <2>3. Learnt(old, recorded)
    BY <1>3, <1>5, <1>7, <1>9 DEF Learnt
  <2> QED
    BY <1>9, <2>2, <2>3, GoOnDuty
<1>10. CASE ProcessPendingRequest(m, noted)
  BY <1>2, <1>10, GoOnDuty
<1> QED
  BY <1>4, <1>8, <1>9, <1>10

LEMMA InfoResponseDuty ==
    ASSUME OneGroup, DutyInv, IInv', NEW m \in Members, member[m].status = "running",
           NEW n \in Members, n # m, NEW msg \in net[n], ProcessMemberInfoResponse(m, msg)
    PROVE  Duties'
<1>1. PICK self \in LearnInfo(m, member[m], msg) :
          IF self.is_sponsor /\ AllPredecessorsKnown(self)
          THEN ProcessPendingRequest(m, self)
          ELSE Become(m, self, {})
  BY DEF ProcessMemberInfoResponse
<1>2. IInv /\ DOMAIN member[m] = Fields /\ DutyOK(m, member[m])
  BY DutyFacts, MemberFacts
<1>3. Good(m, self) /\ Learnt(member[m], self)
  BY <1>2, GoodLearnInfo, TellsInfo DEF ProcessMemberInfoResponse
<1>4. CASE ProcessPendingRequest(m, self)
  BY <1>3, <1>4, GoOnDuty
<1>5. CASE ~ (self.is_sponsor /\ AllPredecessorsKnown(self)) /\ Become(m, self, {})
  <2>1. StatusRight(m, member[m], self) /\ SignsSeen(m, member[m], self)
    BY <1>3, TellsNoSign DEF Learnt, StatusRight
  <2> QED
    BY <1>3, <1>5, <2>1, KeepStep DEF Learnt
<1> QED
  BY <1>1, <1>4, <1>5

LEMMA ResponseDuty ==
    ASSUME OneGroup, DutyInv, IInv', NEW m \in Members, member[m].status = "running",
           NEW n \in Members, n # m, NEW msg \in net[n], ProcessResponse(m, msg)
    PROVE  Duties'
<1> DEFINE old == member[m]
           self == AfterResponse(m, old, msg)
<1>1. /\ IInv
      /\ DOMAIN old = Fields
      /\ DutyOK(m, old)
  BY DutyFacts, MemberFacts
<1>2. msg \in History(member)
  BY <1>1, ResponseKnown DEF ProcessResponse
<1>3. Good(m, self)
  BY <1>1, <1>2, GoodAfterResponse
<1>4. Learnt(old, self) \/ TakesOver(m, msg, old, self)
  BY <1>1, TellsResponse
<1>5. \/ /\ IsLastMember(m, self)
         /\ self.last_member_synch_token_sending_triggered
         /\ Become(m, self, {})
      \/ /\ IsLastMember(m, self)
         /\ ~ self.last_member_synch_token_sending_triggered
         /\ Become(m, StartSynchToken(m, self), {SynchToken(m, self)})
      \/ /\ ~ IsLastMember(m, self)
         /\ \E next \in CheckAndAddNextBlindedKeys(self) : ProcessPendingRequest(m, next)
  BY DEF ProcessResponse
<1>6. /\ ~ IsAssigned(old) => /\ ~ old.last_member_synch_token_sending_triggered
                              /\ old.response_message_cache = {}
      /\ IsLastMember(m, old) => old.last_member_synch_token_sending_triggered
  BY <1>1, NoFlags DEF DutyOK, DutyInv
<1>7. old.scatter_queue \in Seq(Handlers)
  BY <1>1 DEF IInv, TimersOK, TimerTypes
<1> HIDE DEF self
<1>8. CASE Learnt(old, self)
  <2>1. IsLastMember(m, self) <=> IsLastMember(m, old)
    BY <1>8 DEF Learnt, Noted, Stays, IsLastMember, IsAssigned
  <2>2. CASE IsLastMember(m, self)
    <3>1. Become(m, self, {})
      BY <1>5, <1>6, <1>8, <2>1, <2>2 DEF Learnt, Noted, Stays
    <3>2. HasLast(member)
      BY <2>1, <2>2 DEF HasLast
    <3>3. ~ self.is_sponsor
      BY <1>1, <1>8, <3>2, LastAlone DEF Learnt, Noted, Stays
    <3>4. StatusRight(m, old, self) /\ SignsSeen(m, old, self)
      BY <1>8, TellsNoSign DEF Learnt, StatusRight
    <3> QED
      BY <1>8, <3>1, <3>3, <3>4, KeepStep DEF Learnt
  <2>3. CASE ~ IsLastMember(m, self)
    <3>1. PICK next \in CheckAndAddNextBlindedKeys(self) : ProcessPendingRequest(m, next)
      BY <1>5, <2>3
    <3>2. DOMAIN self = Fields
      BY <1>1, <1>8 DEF Learnt, Noted
    <3>3. Learnt(old, next)
      BY <1>8, <3>1, <3>2, TellsAddKeys, TellsTrans
    <3>4. Good(m, next)
      BY <1>1, <1>3, GoodAddKeys
    <3> QED
      BY <3>1, <3>3, <3>4, GoOnDuty
  <2> QED
    BY <2>2, <2>3
<1>9. CASE TakesOver(m, msg, old, self)
  <2>1. /\ ~ IsAssigned(old)
        /\ msg.new_sponsor = m
        /\ self.is_sponsor
        /\ DOMAIN self = Fields
        /\ SameSynch(old, self)
        /\ SameSigns(old, self)
        /\ self.response_message_cache = old.response_message_cache
        /\ self.timeout_wait = old.timeout_wait
        /\ self.status = old.status
        /\ self.scatter_wait = old.scatter_wait
        /\ self.scatter_queue = old.scatter_queue
        /\ self.last_member_synch_token_sending_triggered
              = old.last_member_synch_token_sending_triggered
    BY <1>9 DEF TakesOver
  <2>2. ~ HasLast(member)
    BY <1>1, <1>2, <2>1, TransitTop
  <2>3. /\ self.scatter_queue \in Seq(Handlers)
        /\ \A x : Asks(self, x) <=> Asks(old, x)
        /\ self.status = "running"
        /\ self.response_message_cache = {}
        /\ ~ self.last_member_synch_token_sending_triggered
        /\ self.higher_member_id_synching = old.higher_member_id_synching
        /\ self.higher_member_id_assigned = old.higher_member_id_assigned
    BY <1>6, <1>7, <2>1, SameAsks DEF SameSigns
  <2>4. self.member_id \in Nat
    BY <1>1, <1>3, GoodMember DEF CoreTypes
  <2>5. CASE IsLastMember(m, self)
    <3>1. Become(m, StartSynchToken(m, self), {SynchToken(m, self)})
      BY <1>5, <2>3, <2>5
    <3> QED
      BY <2>1, <2>2, <2>3, <2>4, <2>5, <3>1, StartDuty
  <2>6. CASE ~ IsLastMember(m, self)
    <3>1. PICK next \in CheckAndAddNextBlindedKeys(self) : ProcessPendingRequest(m, next)
      BY <1>5, <2>6
    <3>2. next = self
      BY <2>1 DEF CheckAndAddNextBlindedKeys
    <3>3. self.member_id < member_count[Service(m)]
      BY <1>1, <1>3, <2>1, <2>6, GoodRoom
    <3> QED
      BY <1>3, <2>1, <2>2, <2>3, <3>1, <3>2, <3>3, PendingDuty
  <2> QED
    BY <2>5, <2>6
<1> QED
  BY <1>4, <1>8, <1>9

LEMMA SynchResponseDuty ==
    ASSUME OneGroup, DutyInv, IInv', NEW m \in Members, member[m].status = "running",
           NEW n \in Members, n # m, NEW msg \in net[n],
           ProcessMemberInfoSynchResponse(m, msg)
    PROVE  Duties'
<1>1. PICK next \in LearnInfo(m, member[m], msg) :
          LET self == [next EXCEPT !.higher_member_id_assigned = TRUE]
          IN  IF /\ AllSuccessorsKnown(m, self)
                 /\ ~ self.synch_finished
                 /\ self.synch_token_rcvd
              THEN PassSynchToken(m, self)
              ELSE Become(m, self, {})
  BY DEF ProcessMemberInfoSynchResponse
<1> DEFINE old == member[m]
           self == [next EXCEPT !.higher_member_id_assigned = TRUE]
<1>2. /\ IInv
      /\ DOMAIN old = Fields
      /\ DutyOK(m, old)
      /\ SignsOK(member, m, old)
      /\ HasLast(member)
  BY DutyFacts, MemberFacts, MessageSays DEF ProcessMemberInfoSynchResponse
<1>3. Learnt(old, next) /\ DOMAIN next = Fields /\ next.status = "running"
  <2>1. Learnt(old, next)
    BY <1>2, TellsInfo
  <2>2. Good(m, next)
    BY <1>2, GoodLearnInfo DEF ProcessMemberInfoSynchResponse
  <2> QED
    BY <1>2, <2>1, <2>2 DEF Learnt, Noted, Good
<1>4. \/ /\ ~ self.synch_finished
         /\ self.synch_token_rcvd
         /\ PassSynchToken(m, self)
      \/ Become(m, self, {})
  BY <1>1
<1>5. /\ Noted(next, self)
      /\ self.status = "running"
      /\ self.higher_member_id_synching = next.higher_member_id_synching
      /\ self.higher_member_id_assigned
      /\ DOMAIN self = Fields
  BY <1>3 DEF Noted, Stays, Fields
<1> HIDE DEF self, old
<1>6. Noted(old, self)
  BY <1>3, <1>5 DEF Learnt, Noted, Stays
<1>7. SignsSeen(m, old, self)
  BY <1>2, <1>3, <1>5 DEF SignsSeen, Learnt, SameSigns
<1>8. CASE Become(m, self, {})
  <2>1. ~ self.is_sponsor
    BY <1>2, <1>6, LastAlone DEF Noted, Stays, old
  <2>2. StatusRight(m, old, self)
    BY <1>5 DEF StatusRight, old
  <2> QED
    BY <1>6, <1>7, <1>8, <2>1, <2>2, KeepStep DEF old
<1>9. CASE /\ ~ self.synch_finished
           /\ self.synch_token_rcvd
           /\ PassSynchToken(m, self)
  <2>1. /\ old.synch_token_rcvd
        /\ ~ old.synch_finished
        /\ self.member_id = old.member_id
        /\ self.scatter_wait = old.scatter_wait
        /\ self.scatter_queue = old.scatter_queue
    BY <1>6, <1>9 DEF Noted, Stays
  <2>2. IsAssigned(old) /\ AllBefore(member, old.member_id)
    BY <1>2, <2>1, NoFlags DEF SignsOK, SignsRight, DutyInv, old
  <2>3. ~ IsLastMember(m, self)
    BY <1>2, <2>1 DEF DutyOK, IsLastMember, IsAssigned
  <2>4. HasIt(m, self)
    BY <1>2, <1>5, <1>6, <1>7, <1>9, <2>1, <2>2, <2>3 DEF HasIt, Noted, Stays, IsAssigned, old
  <2>5. OwnTimer(m, self)
    BY <1>2, <2>1, SameAsks DEF IInv, TimersOK, TimerTypes, OwnTimer, old
  <2> QED
    BY <1>9, <2>3, <2>4, <2>5, PassDuty
<1> QED
  BY <1>4, <1>8, <1>9

-----------------------------------------------------------------------------
(***************************************************************************)
(* The handlers of finish and the timeout.                                 *)
(***************************************************************************)
\* What a member is after Cancel and contribute_statistics.
LEMMA DoneStays ==
    ASSUME OneGroup, DutyInv, NEW m \in Members, NEW mid, Stays(member[m], mid),
           mid.scatter_queue \in Seq(Handlers), DOMAIN mid = Fields,
           \A x \in Watched : Asks(mid, x) => Asks(member[m], x),
           SignsSeen(m, member[m], mid)
    PROVE  LET next == Done(m, mid)
           IN  /\ Stays(member[m], next)
               /\ SignsSeen(m, member[m], next)
               /\ \A x \in Watched : Asks(next, x) => Asks(member[m], x)
               /\ next.timeout_wait = mid.timeout_wait
               /\ next.finish_message_rcvd = mid.finish_message_rcvd
               /\ next.status = IF KeyComplete(m, mid) THEN "stopped" ELSE mid.status
<1> DEFINE stay == Cancel(mid)
           next == Done(m, mid)
<1>1. /\ Stays(member[m], stay)
      /\ SignsSeen(m, member[m], stay)
      /\ \A x \in Watched : Asks(stay, x) => x = "none" \/ Asks(member[m], x)
      /\ stay.timeout_wait = mid.timeout_wait
      /\ stay.finish_message_rcvd = mid.finish_message_rcvd
      /\ stay.status = mid.status
      /\ DOMAIN stay = Fields
  BY AwaitStays DEF Cancel
<1>2. /\ stay.member_id = mid.member_id
      /\ stay.assigned_keys = mid.assigned_keys
      /\ stay.assigned_endpoints = mid.assigned_endpoints
      /\ stay.keys_computed_count = mid.keys_computed_count
  BY DEF Cancel, Await, Fields
<1>3. KeyComplete(m, stay) <=> KeyComplete(m, mid)
  BY <1>2 DEF KeyComplete, IsAssigned
<1>4. next = IF KeyComplete(m, mid) THEN [stay EXCEPT !.status = "stopped"] ELSE stay
  BY <1>3 DEF Done, ContributeStatistics
<1>5. "none" \notin Watched
  BY DEF Watched, Cyclic
<1> HIDE DEF stay, next
<1>6. /\ next.member_id = stay.member_id
      /\ next.higher_member_id_assigned = stay.higher_member_id_assigned
      /\ next.higher_member_id_synching = stay.higher_member_id_synching
      /\ next.scatter_queue = stay.scatter_queue
      /\ next.scatter_wait = stay.scatter_wait
      /\ next.timeout_wait = stay.timeout_wait
      /\ next.finish_message_rcvd = stay.finish_message_rcvd
      /\ next.status = IF KeyComplete(m, mid) THEN "stopped" ELSE stay.status
      /\ Stays(stay, next)
  BY <1>1, <1>4 DEF Fields, Stays
<1>7. Stays(member[m], next)
  BY <1>1, <1>6 DEF Stays
<1>8. /\ HeardBy(member, m, next) <=> HeardBy(member, m, stay)
      /\ HasHigher(member, next) <=> HasHigher(member, stay)
      /\ IsAssigned(next) <=> IsAssigned(stay)
  BY <1>6 DEF HeardBy, HasHigher, IsAssigned, IsLastMember
<1>9. SignsSeen(m, member[m], next)
  BY <1>1, <1>6, <1>8 DEF SignsSeen
<1>10. \A x \in Watched : Asks(next, x) => Asks(member[m], x)
  BY <1>1, <1>5, <1>6, SameAsks
<1> QED
  BY <1>1, <1>6, <1>7, <1>9, <1>10 DEF next

\* m cancels its timer once the last member has the token back.
LEMMA DoneDuty ==
    ASSUME OneGroup, DutyInv, IInv', NEW m \in Members, LastHasToken(member),
           FounderHeard(member, m, member[m]), NEW mid, Stays(member[m], mid),
           mid.scatter_wait = member[m].scatter_wait,
           mid.scatter_queue = member[m].scatter_queue, DOMAIN mid = Fields,
           mid.status = member[m].status,
           \/ /\ mid.timeout_wait = member[m].timeout_wait
              /\ mid.finish_message_rcvd = member[m].finish_message_rcvd
           \/ /\ mid.finish_message_rcvd
              /\ mid.timeout_wait => IsFounder(m)
              /\ IsFounder(m) => mid.timeout_wait \/ KeyComplete(m, mid),
           Become(m, Done(m, mid), {})
    PROVE  Duties'
<1> DEFINE next == Done(m, mid)
<1>1. IInv
  BY DutyFacts
<1>2. HasLast(member) /\ (IsAssigned(member[m]) => HeardBy(member, m, member[m]))
  BY AtEnd
<1>3. SignsSeen(m, member[m], mid)
  <2>1. mid.member_id = member[m].member_id
    BY DEF Stays
  <2>2. /\ HeardBy(member, m, mid) <=> HeardBy(member, m, member[m])
        /\ IsAssigned(mid) <=> IsAssigned(member[m])
    BY <2>1 DEF HeardBy, IsAssigned, IsLastMember
  <2> QED
    BY <1>2, <2>2 DEF SignsSeen
<1>4. /\ mid.scatter_queue \in Seq(Handlers)
      /\ \A x \in Watched : Asks(mid, x) => Asks(member[m], x)
  BY <1>1, SameAsks DEF IInv, TimersOK, TimerTypes
<1>5. /\ Stays(member[m], next)
      /\ SignsSeen(m, member[m], next)
      /\ \A x \in Watched : Asks(next, x) => Asks(member[m], x)
      /\ next.timeout_wait = mid.timeout_wait
      /\ next.finish_message_rcvd = mid.finish_message_rcvd
      /\ next.status = IF KeyComplete(m, mid) THEN "stopped" ELSE mid.status
  BY <1>3, <1>4, DoneStays
<1>6. member'[m] = next
  BY <1>1, Becomes
<1>7. Become(m, next, {})
  OBVIOUS
<1> HIDE DEF next
<1>8. Free(m, next)
  BY <1>5, <1>6, FreeAtEnd, FreeStays
<1>9. StatusRight(m, member[m], next)
  BY <1>5, <1>8 DEF StatusRight, Free
<1>10. TimeoutRight(m, member[m], next) /\ Harmless(m, member[m], next)
  BY <1>5 DEF TimeoutRight, Harmless
<1>11. GoesOn(member, m, next)
  BY <1>8, FreeGoesOn
<1> QED
  BY <1>5, <1>7, <1>9, <1>10, <1>11, StaysStep

\* The founder knows the last member, and is complete.
LEMMA FounderAtEnd ==
    ASSUME OneGroup, TokenInv, LastHasToken(member), NEW m \in Members, IsFounder(m)
    PROVE  /\ IsAssigned(member[m])
           /\ ~ IsLastMember(m, member[m])
           /\ KeyComplete(m, member[m])
           /\ \A l \in Members : IsLastMember(l, member[l]) => FromLastMember(m, member[m], l)
<1> DEFINE s == Service(m)
           top == member_count[s]
           old == member[m]
<1>1. /\ IInv
      /\ KnowInv
      /\ old.member_id = 1
      /\ s \in Services
      /\ top \in Nat
      /\ top >= 2
      /\ MemberOK(History(member), m, old)
      /\ HistoryOK(History(member))
  BY FounderThere, MemberFacts
  DEF TokenInv, KnowInv, INITIAL_SPONSOR_ID, OneGroup, SomebodyToAgreeWith
<1>2. IsAssigned(old) /\ ~ IsLastMember(m, old)
  BY <1>1 DEF IsAssigned, DEFAULT_MEMBER_ID, IsLastMember
<1>3. PICK k \in Members : IsLastMember(k, member[k]) /\ member[k].synch_token_rcvd
  BY DEF LastHasToken
<1>4. member[k].member_id = top /\ Reached(member, top)
  <2>1. Service(k) = s
    BY <1>1, MemberFacts DEF OneGroup, OneService
  <2> QED
    BY <1>3, <2>1 DEF TokenInv, FlagsTell, IsLastMember
<1>5. m \in Assigned(s) /\ 1 < top
  BY <1>1, <1>2 DEF Assigned
<1>6. KeyComplete(m, old)
  BY <1>1, <1>4, <1>5, ReachedComplete DEF OneGroup
<1>7. ASSUME NEW l \in Members, IsLastMember(l, member[l]) PROVE FromLastMember(m, old, l)
  <2>1. 1 \in 1 .. top - 1
    BY <1>1
  <2>2. PICK i \in Members : member[i].member_id = 1 /\ KnowsEverybody(i, member[i])
    BY <1>4, <2>1 DEF Reached
  <2>3. i = m
    BY <1>1, <1>2, <2>2, IdsOnce DEF OneGroup
  <2>4. top \in DOMAIN old.assigned_keys
    BY <1>1, <2>2, <2>3 DEF KnowsEverybody, OtherMembers
  <2>5. /\ old.assigned_keys[top] \in DOMAIN old.assigned_endpoints
        /\ old.assigned_endpoints[old.assigned_keys[top]] = top
        /\ Gives(History(member), s, top, old.assigned_keys[top])
    BY <1>1, <2>4 DEF MemberOK, MapsOK
  <2>6. Service(l) = s /\ IsAssigned(member[l]) /\ member[l].member_id = top
    BY <1>1, <1>7, ServiceTypes DEF OneGroup, OneService, IsLastMember
  <2>7. Gives(History(member), s, top, l)
    BY <1>1, <2>6, AssignedAre
  <2>8. old.assigned_keys[top] = l
    BY <1>1, <2>5, <2>7, GivesUnique
  <2> QED
    BY <2>5, <2>8 DEF FromLastMember
<1> QED
  BY <1>2, <1>6, <1>7

LEMMA FinishDuty ==
    ASSUME OneGroup, DutyInv, IInv', NEW m \in Members, member[m].status = "running",
           NEW n \in Members, n # m, NEW msg \in net[n], ProcessFinish(m, msg)
    PROVE  Duties'
<1> DEFINE old == member[m]
           rcvd == [Finishing(old) EXCEPT !.finish_message_rcvd = TRUE]
           self == IF old.finish_message_rcvd THEN rcvd
                                              ELSE RecordTimestamp(rcvd, "DURATION_END")
           waiting == Await(self, "founder_finish")
           next == [waiting EXCEPT !.timeout_wait = TRUE]
<1>1. /\ TokenInv
      /\ IInv
      /\ DOMAIN old = Fields
      /\ DutyOK(m, old)
      /\ LastHasToken(member)
      /\ msg.from = n
      /\ \/ IsLastMember(n, member[n])
         \/ IsFounder(n) /\ member[n].finish_message_rcvd
  BY DutyFacts, MemberFacts, MessageSays DEF ProcessFinish, TokenInv, NetTells, SaysNow
<1>2. IsFounder(n) => ~ IsFounder(m) /\ founder[Service(m)] = n
  BY MemberFacts, <1>1 DEF IsFounder, OneGroup, OneService
<1>3. \/ old.member_id # INITIAL_SPONSOR_ID /\ Become(m, Done(m, rcvd), {})
      \/ /\ old.member_id = INITIAL_SPONSOR_ID
         /\ \/ ~ FromLastMember(m, self, msg.from)
            \/ Become(m, next, {FinishAck(m), Finish(m)})
  BY DEF ProcessFinish
<1> HIDE DEF old
<1>4. /\ Stays(old, rcvd)
      /\ rcvd.scatter_wait = old.scatter_wait
      /\ rcvd.scatter_queue = old.scatter_queue
      /\ rcvd.timeout_wait = old.timeout_wait
      /\ rcvd.finish_message_rcvd
      /\ rcvd.assigned_endpoints = old.assigned_endpoints
      /\ rcvd.status = old.status
      /\ DOMAIN rcvd = Fields
  BY <1>1 DEF Finishing, Stays, Fields
<1>5. ~ IsFounder(m) => ~ rcvd.timeout_wait
  BY <1>1, <1>4 DEF DutyOK
<1> HIDE DEF rcvd
<1>6. CASE old.member_id # INITIAL_SPONSOR_ID /\ Become(m, Done(m, rcvd), {})
  <2>1. ~ IsFounder(m)
    BY <1>1, <1>6, FounderThere DEF old
  <2>2. FounderHeard(member, m, old)
    <3>1. CASE IsFounder(n) /\ member[n].finish_message_rcvd
      BY <1>2, <3>1 DEF FounderHeard
    <3>2. CASE IsLastMember(n, member[n])
      <4>1. ~ IsLastMember(m, old)
        BY <1>1, <3>2, IdsOnce, MemberFacts DEF IsLastMember, OneGroup, OneService, old
      <4> QED
        BY <4>1 DEF FounderHeard
    <3> QED
      BY <1>1, <3>1, <3>2
  <2> QED
    BY <1>1, <1>4, <1>5, <1>6, <2>1, <2>2, DoneDuty DEF old
<1>7. CASE old.member_id = INITIAL_SPONSOR_ID
  <2>1. IsFounder(m)
    BY <1>1, <1>7, FounderIsFirst
    DEF OneGroup, old, IsAssigned, DEFAULT_MEMBER_ID, INITIAL_SPONSOR_ID
  <2>2. IsLastMember(n, member[n])
    BY <1>1, <1>2, <2>1
  <2>3. ~ IsLastMember(m, old) /\ FromLastMember(m, old, n)
    BY <1>1, <2>1, <2>2, FounderAtEnd DEF old
  <2>4. /\ Stays(old, self)
        /\ self.scatter_wait = old.scatter_wait
        /\ self.scatter_queue = old.scatter_queue
        /\ self.finish_message_rcvd
        /\ self.assigned_endpoints = old.assigned_endpoints
        /\ self.status \in {"running", "crashed"}
        /\ DOMAIN self = Fields
    <3>1. rcvd.status = "running"
      BY <1>4 DEF old
    <3>2. /\ Stays(rcvd, self)
          /\ self.scatter_wait = rcvd.scatter_wait
          /\ self.scatter_queue = rcvd.scatter_queue
          /\ self.finish_message_rcvd
          /\ self.assigned_endpoints = rcvd.assigned_endpoints
          /\ self.status \in {"running", "crashed"}
          /\ DOMAIN self = Fields
      BY <1>4, <3>1 DEF RecordTimestamp, Stays, Fields
    <3> HIDE DEF self
    <3> QED
      BY <1>4, <3>2 DEF Stays
  <2> HIDE DEF self
  <2>5. Become(m, next, {FinishAck(m), Finish(m)})
    BY <1>1, <1>3, <1>7, <2>3, <2>4 DEF FromLastMember
  <2>6. HasLast(member) /\ (IsAssigned(old) => HeardBy(member, m, old))
    BY <1>1, AtEnd DEF old
  <2>7. SignsSeen(m, old, self)
    <3>1. self.member_id = old.member_id
      BY <2>4 DEF Stays
    <3>2. /\ HeardBy(member, m, self) <=> HeardBy(member, m, old)
          /\ IsAssigned(self) <=> IsAssigned(old)
      BY <3>1 DEF HeardBy, IsAssigned, IsLastMember
    <3> QED
      BY <2>6, <3>2 DEF SignsSeen
  <2>8. self.scatter_queue \in Seq(Handlers) /\ \A x : Asks(self, x) <=> Asks(old, x)
    BY <1>1, <2>4, SameAsks DEF IInv, TimersOK, TimerTypes, old
  <2>9. /\ Stays(old, waiting)
        /\ SignsSeen(m, old, waiting)
        /\ \A x \in Watched : Asks(waiting, x) => x = "founder_finish" \/ Asks(old, x)
        /\ waiting.finish_message_rcvd
        /\ waiting.status \in {"running", "crashed"}
        /\ DOMAIN waiting = Fields
    BY <2>4, <2>7, <2>8, AwaitStays DEF old
  <2> HIDE DEF waiting
  <2>10. /\ Stays(waiting, next)
         /\ SameSigns(waiting, next)
         /\ next.member_id = waiting.member_id
         /\ next.scatter_wait = waiting.scatter_wait
         /\ next.scatter_queue = waiting.scatter_queue
         /\ next.finish_message_rcvd
         /\ next.timeout_wait
         /\ next.status = waiting.status
    BY <2>9 DEF Stays, SameSigns, Fields
  <2> HIDE DEF next
  <2>11. Stays(old, next)
    BY <2>9, <2>10 DEF Stays
  <2>12. SignsSeen(m, old, next)
    BY <2>9, <2>10 DEF SignsSeen, SameSigns, HasHigher, HeardBy, IsAssigned, IsLastMember
  <2>13. member'[m] = next
    BY <1>1, <2>5, Becomes
  <2>14. Free(m, next) /\ GoesOn(member, m, next)
    <3>1. FounderHeard(member, m, old)
      BY <2>3 DEF FounderHeard
    <3> QED
      BY <1>1, <2>11, <2>13, <3>1, FreeAtEnd, FreeStays, FreeGoesOn DEF old
  <2>15. TimeoutRight(m, old, next) /\ StatusRight(m, old, next)
    BY <2>1, <2>9, <2>10 DEF TimeoutRight, StatusRight, old
  <2>16. Harmless(m, old, next)
    BY <2>1, <2>9, <2>10, SameAsks DEF Harmless
  <2>17. ASSUME NEW x \in {FinishAck(m), Finish(m)}
         PROVE  SaysNow(m, next, x) /\ x.type # "synch_response"
    <3>1. x.type \in {"finish", "finish_ack"}
      BY DEF FinishAck, Finish
    <3> QED
      BY <2>1, <2>10, <3>1 DEF SaysNow
  <2> QED
    BY <2>5, <2>11, <2>12, <2>14, <2>15, <2>16, <2>17, StaysStep DEF old
<1> QED
  BY <1>3, <1>6, <1>7

LEMMA FinishAckDuty ==
    ASSUME OneGroup, DutyInv, IInv', NEW m \in Members, member[m].status = "running",
           NEW n \in Members, n # m, NEW msg \in net[n], ProcessFinishAck(m, msg)
    PROVE  Duties'
<1> DEFINE old == member[m]
           self == Finishing(old)
<1>1. /\ TokenInv
      /\ IInv
      /\ DOMAIN old = Fields
      /\ IsFounder(n)
      /\ member[n].finish_message_rcvd
  BY DutyFacts, MemberFacts, MessageSays DEF ProcessFinishAck, SaysNow
<1>2. LastHasToken(member)
  BY <1>1 DEF TokenInv, FlagsTell
<1>3. founder[Service(m)] = n
  BY <1>1, MemberFacts DEF IsFounder, OneGroup, OneService
<1>4. FounderHeard(member, m, old)
  BY <1>1, <1>3 DEF FounderHeard
<1>5. old.member_id # INITIAL_SPONSOR_ID
  <2> SUFFICES ASSUME old.member_id = INITIAL_SPONSOR_ID PROVE FALSE
    OBVIOUS
  <2>1. IsFounder(m)
    BY <1>1, FounderIsFirst DEF OneGroup, IsAssigned, DEFAULT_MEMBER_ID, INITIAL_SPONSOR_ID
  <2> QED
    BY <1>3, <2>1 DEF IsFounder
<1>6. self.member_id = old.member_id
  BY <1>1 DEF Finishing, Fields
<1>7. Become(m, Done(m, self), {})
  BY <1>5, <1>6 DEF ProcessFinishAck
<1> HIDE DEF old
<1>8. /\ Stays(old, self)
      /\ self.scatter_wait = old.scatter_wait
      /\ self.status = old.status
      /\ self.scatter_queue = old.scatter_queue
      /\ self.timeout_wait = old.timeout_wait
      /\ self.finish_message_rcvd = old.finish_message_rcvd
      /\ DOMAIN self = Fields
  BY <1>1 DEF Finishing, Stays, Fields
<1> HIDE DEF self
<1> QED
  BY <1>2, <1>4, <1>7, <1>8, DoneDuty DEF old

LEMMA TimeoutDuty ==
    ASSUME OneGroup, DutyInv, IInv', NEW m \in Members, Timeout(m)
    PROVE  Duties'
<1> DEFINE old == member[m]
           self == [old EXCEPT !.timeout_wait = FALSE]
<1>1. /\ TokenInv
      /\ IInv
      /\ DOMAIN old = Fields
      /\ IsFounder(m)
      /\ old.finish_message_rcvd
  BY DutyFacts, MemberFacts DEF Timeout, DutyOK
<1>2. LastHasToken(member)
  BY <1>1 DEF TokenInv, FlagsTell
<1>3. KeyComplete(m, old) /\ ~ IsLastMember(m, old)
  BY <1>1, <1>2, FounderAtEnd
<1>4. FounderHeard(member, m, old)
  BY <1>3 DEF FounderHeard
<1>5. Become(m, Done(m, self), {})
  BY DEF Timeout
<1> HIDE DEF old
<1>6. /\ Stays(old, self)
      /\ self.scatter_wait = old.scatter_wait
      /\ self.status = old.status
      /\ self.scatter_queue = old.scatter_queue
      /\ self.finish_message_rcvd
      /\ ~ self.timeout_wait
      /\ self.member_id = old.member_id
      /\ self.assigned_keys = old.assigned_keys
      /\ self.assigned_endpoints = old.assigned_endpoints
      /\ self.keys_computed_count = old.keys_computed_count
      /\ DOMAIN self = Fields
  BY <1>1 DEF Stays, Fields
<1> HIDE DEF self
<1>7. KeyComplete(m, self)
  BY <1>3, <1>6 DEF KeyComplete, IsAssigned
<1> QED
  BY <1>2, <1>4, <1>5, <1>6, <1>7, DoneDuty DEF old

-----------------------------------------------------------------------------
(***************************************************************************)
(* The start of a member, and of its handlers.                             *)
(***************************************************************************)
\* Before the founder is there, nobody is the last member.
LEMMA NobodyYet ==
    ASSUME OneGroup, IInv, NEW m \in Members, IsFounder(m), member[m].status = "down"
    PROVE  ~ HasLast(member)
<1> SUFFICES ASSUME NEW l \in Members, IsLastMember(l, member[l])
             PROVE  FALSE
  BY DEF HasLast
<1>1. IsAssigned(member[l])
  BY DEF IsLastMember
<1>2. member[founder[Service(l)]].status # "down"
  BY <1>1, AssignedAre
<1>3. founder[Service(l)] = m
  BY MemberFacts DEF IsFounder, OneGroup, OneService
<1> QED
  BY <1>2, <1>3

LEMMA LaunchDuty ==
    ASSUME OneGroup, DutyInv, IInv', NEW m \in Members, Launch(m)
    PROVE  Duties'
<1> DEFINE old == member[m]
<1>1. /\ IInv
      /\ DOMAIN old = Fields
      /\ member_count[Service(m)] >= 2
      /\ old = InitialMember
      /\ old.status = "down"
  <2>1. /\ IInv
        /\ DOMAIN old = Fields
        /\ MemberOK(History(member), m, old)
        /\ Service(m) \in Services
    BY DutyFacts, MemberFacts
  <2> QED
    BY <2>1 DEF Launch, MemberOK, StoppedOK, OneGroup, SomebodyToAgreeWith
<1>2. /\ ~ IsAssigned(old)
      /\ old.scatter_queue = <<>>
      /\ old.scatter_wait = "none"
      /\ old.response_message_cache = {}
      /\ ~ old.synch_finished
      /\ old.higher_member_id_assigned = FALSE
  BY <1>1 DEF InitialMember, IsAssigned
<1>3. CASE IsFounder(m) /\ Become(m, Founded(m), {Offer(m)})
  <2> DEFINE mid == Founder(m)
             next == Await(mid, "offer")
  <2>1. next = Founded(m)
    BY DEF Founded, Founder
  <2>2. /\ mid.is_sponsor
        /\ mid.member_id = 1
        /\ mid.status = "running"
        /\ SameSynch(old, mid)
        /\ mid.last_member_synch_token_sending_triggered
              = old.last_member_synch_token_sending_triggered
        /\ mid.higher_member_id_synching = old.higher_member_id_synching
        /\ mid.higher_member_id_assigned = old.higher_member_id_assigned
        /\ mid.timeout_wait = old.timeout_wait
        /\ mid.response_message_cache = {}
        /\ mid.scatter_queue = old.scatter_queue
        /\ mid.scatter_wait = old.scatter_wait
        /\ DOMAIN mid = Fields
    BY <1>1, <1>2 DEF Founder, Fields, SameSynch, INITIAL_SPONSOR_ID
  <2> HIDE DEF mid
  <2>3. mid.scatter_queue \in Seq(Handlers) /\ \A x : Asks(mid, x) <=> Asks(old, x)
    BY <1>2, <2>2, SameAsks
  <2>4. /\ Asks(next, "offer")
        /\ \A x \in Watched : Asks(next, x) => x = "offer" \/ Asks(mid, x)
        /\ next.status = mid.status
        /\ next.is_sponsor = mid.is_sponsor
        /\ next.member_id = mid.member_id
        /\ next.synch_token_rcvd = mid.synch_token_rcvd
        /\ next.synch_finished = mid.synch_finished
        /\ next.finish_message_rcvd = mid.finish_message_rcvd
        /\ next.last_member_synch_token_sending_triggered
              = mid.last_member_synch_token_sending_triggered
        /\ next.higher_member_id_synching = mid.higher_member_id_synching
        /\ next.higher_member_id_assigned = mid.higher_member_id_assigned
        /\ next.timeout_wait = mid.timeout_wait
        /\ next.response_message_cache = mid.response_message_cache
    <3>1. DOMAIN mid = Fields /\ mid.scatter_queue \in Seq(Handlers)
      BY <2>2, <2>3
    <3> QED
      BY <3>1, AwaitWhere
  <2> HIDE DEF next
  <2>5. /\ next.is_sponsor
        /\ next.member_id = 1
        /\ next.status = "running"
        /\ SameSynch(old, next)
        /\ next.higher_member_id_synching = old.higher_member_id_synching
        /\ ~ next.higher_member_id_assigned
        /\ next.timeout_wait = old.timeout_wait
        /\ next.response_message_cache = {}
        /\ \A x \in Watched : Asks(next, x) => x = "offer" \/ Asks(old, x)
    BY <1>2, <2>2, <2>3, <2>4 DEF SameSynch
  <2>6. ~ HasLast(member)
    BY <1>1, <1>3, NobodyYet
  <2>7. SaysNow(m, next, Offer(m)) /\ Offer(m).type # "synch_response"
    <3>1. Offer(m).type = "offer"
      BY DEF Offer
    <3> QED
      BY <3>1 DEF SaysNow
  <2>8. /\ next.member_id \in Nat
        /\ next.member_id < member_count[Service(m)]
        /\ IsAssigned(next)
    BY <1>1, <2>5, MemberFacts DEF IsAssigned, DEFAULT_MEMBER_ID
  <2>9. Become(m, next, {Offer(m)})
    BY <1>3, <2>1
  <2> DEFINE msgs == {Offer(m)}
  <2>10. /\ Become(m, next, msgs)
         /\ \A msg \in msgs : SaysNow(m, next, msg) /\ msg.type # "synch_response"
    BY <2>7, <2>9
  <2> HIDE DEF msgs
  <2> QED
    BY <1>2, <2>4, <2>5, <2>6, <2>8, <2>10, SponsorGoesOn
<1>4. CASE Become(m, [old EXCEPT !.status = "running"], {})
  <2> DEFINE next == [old EXCEPT !.status = "running"]
  <2>1. Become(m, next, {})
    BY <1>4
  <2> HIDE DEF old
  <2>2. /\ Noted(old, next)
        /\ SameSigns(old, next)
        /\ next.assigned_endpoints = old.assigned_endpoints
        /\ next.status = "running"
    BY <1>1, <1>2 DEF Noted, Stays, SameSigns, Fields
  <2> HIDE DEF next
  <2>3. SignsSeen(m, old, next) /\ StatusRight(m, old, next)
    BY <1>1, <2>2, TellsNoSign DEF StatusRight
  <2> QED
    BY <2>1, <2>2, <2>3, KeepStep DEF old
<1> QED
  BY <1>3, <1>4 DEF Launch

LEMMA ExpireDuty ==
    ASSUME OneGroup, DutyInv, IInv', NEW m \in Members, ScatterExpires(m)
    PROVE  Duties'
<1> DEFINE old == member[m]
           next == [old EXCEPT !.scatter_wait = "none",
                               !.scatter_queue = Append(@, old.scatter_wait)]
<1>1. /\ IInv
      /\ DOMAIN old = Fields
      /\ old.scatter_queue \in Seq(Handlers)
      /\ old.scatter_wait \in Waits
      /\ old.scatter_wait # "none"
      /\ member \in [Members -> {member[n] : n \in Members}]
  BY DutyFacts, MemberFacts DEF IInv, Inv, TimersOK, TimerTypes, ScatterExpires
<1>2. Become(m, next, {})
  BY <1>1 DEF ScatterExpires, Become
<1> HIDE DEF old
<1>3. /\ Stays(old, next)
      /\ SameSigns(old, next)
      /\ next.scatter_wait = "none"
      /\ next.scatter_queue = Append(old.scatter_queue, old.scatter_wait)
      /\ next.timeout_wait = old.timeout_wait
      /\ next.finish_message_rcvd = old.finish_message_rcvd
      /\ next.assigned_endpoints = old.assigned_endpoints
      /\ next.status = old.status
  BY <1>1 DEF Stays, SameSigns, Fields
<1> HIDE DEF next
<1>4. \A x \in Watched : Asks(next, x) <=> Asks(old, x)
  <2>1. old.scatter_wait \in Handlers
    BY <1>1 DEF Waits, Handlers
  <2> QED
    BY <1>1, <1>3, <2>1, ExpiresAsks
<1>5. member'[m] = next
  BY <1>1, <1>2, Becomes
<1>6. /\ StatusRight(m, old, next)
      /\ TimeoutRight(m, old, next)
      /\ SignsSeen(m, old, next)
      /\ Harmless(m, old, next)
  BY <1>3, <1>4, TellsNoSign DEF StatusRight, TimeoutRight, Harmless
<1>7. /\ {"offer", "predecessors", "response", "successors", "token", "finish"} \subseteq Watched
  BY DEF Watched, Cyclic
<1>8. GoesOn(member, m, next)
  BY <1>3, <1>4, <1>5, <1>7, GoesOnKept DEF old
<1> QED
  BY <1>2, <1>3, <1>6, <1>8, StaysStep DEF old

-----------------------------------------------------------------------------
(***************************************************************************)
(* The handlers of scatter_timer_.                                         *)
(***************************************************************************)
\* self is m when the handler h of its timer starts.
Started(m, h, self) ==
    /\ Asks(member[m], h)
    /\ self.scatter_queue \in Seq(Handlers)
    /\ \A x \in Watched : Asks(self, x) => Asks(member[m], x)
    /\ \A x : Asks(member[m], x) => x = h \/ Asks(self, x)
    /\ Stays(member[m], self)
    /\ SameSigns(member[m], self)
    /\ self.status = "running" /\ member[m].status = "running"
    /\ self.assigned_endpoints = member[m].assigned_endpoints
    /\ self.assigned_keys = member[m].assigned_keys
    /\ self.timeout_wait = member[m].timeout_wait
    /\ self.finish_message_rcvd = member[m].finish_message_rcvd
    /\ DOMAIN self = Fields

LEMMA HandlerStarts ==
    ASSUME DutyInv, NEW m \in Members, HandleScatter(m)
    PROVE  \E h, self : Started(m, h, self) /\ RunHandler(m, self, h)
<1> DEFINE old == member[m]
<1>1. /\ DOMAIN old = Fields
      /\ old.scatter_queue \in Seq(Handlers)
      /\ old.status = "running"
  BY DutyFacts, MemberFacts DEF IInv, TimersOK, TimerTypes, HandleScatter
<1>2. PICK h, self :
          /\ RunHandler(m, self, h)
          /\ \/ /\ old.scatter_queue # <<>>
                /\ h = Head(old.scatter_queue)
                /\ self = [old EXCEPT !.scatter_queue = Tail(@)]
             \/ /\ old.scatter_queue = <<>>
                /\ h = old.scatter_wait
                /\ self = [old EXCEPT !.scatter_wait = "none"]
  BY DEF HandleScatter
<1> HIDE DEF old
<1>3. /\ Starts(old, h, self)
      /\ Stays(old, self)
      /\ SameSigns(old, self)
      /\ self.status = "running"
      /\ self.assigned_endpoints = old.assigned_endpoints
      /\ self.assigned_keys = old.assigned_keys
      /\ self.timeout_wait = old.timeout_wait
      /\ self.finish_message_rcvd = old.finish_message_rcvd
      /\ DOMAIN self = Fields
  <2>1. CASE /\ old.scatter_queue # <<>>
             /\ h = Head(old.scatter_queue)
             /\ self = [old EXCEPT !.scatter_queue = Tail(@)]
    BY <1>1, <2>1 DEF Starts, Stays, SameSigns, Fields
  <2>2. CASE /\ old.scatter_queue = <<>>
             /\ h = old.scatter_wait
             /\ self = [old EXCEPT !.scatter_wait = "none"]
    BY <1>1, <2>2 DEF Starts, Stays, SameSigns, Fields
  <2> QED
    BY <1>2, <2>1, <2>2
<1>4. /\ Asks(old, h)
      /\ self.scatter_queue \in Seq(Handlers)
      /\ \A x \in Watched : Asks(self, x) => Asks(old, x)
      /\ \A x : Asks(old, x) => x = h \/ Asks(self, x)
  BY <1>1, <1>3, StartsAsks
<1>5. Started(m, h, self)
  BY <1>1, <1>3, <1>4 DEF Started, old
<1> QED
  BY <1>2, <1>5

\* When h is over, m goes on with all the rest, and has no need of h.
LEMMA GoesOnBut ==
    ASSUME DutyInv, IInv', NEW m \in Members, NEW next, member'[m] = next,
           Stays(member[m], next),
           next.assigned_endpoints = member[m].assigned_endpoints,
           next.status = "running",
           NEW h, h # "finish", \A x : Asks(member[m], x) => x = h \/ Asks(next, x),
           h = "offer" => ~ member[m].is_sponsor,
           h = "predecessors" => AllPredecessorsKnown(member[m]),
           h = "response" => GaveOver(member, member[m]),
           h = "successors" => AllSuccessorsKnown(m, member[m]),
           h = "token" /\ member[m].synch_finished => TokenHeard(member, m, member[m])
    PROVE  GoesOn(member, m, next)
<1> DEFINE old == member[m]
<1>1. /\ IInv
      /\ GoesOn(member, m, old)
      /\ ~ IsAssigned(old) => ~ old.synch_token_rcvd
  BY DutyFacts, NoFlags DEF SignsOK
<1>2. /\ IsLastMember(m, next) <=> IsLastMember(m, old)
      /\ Holds(next) <=> Holds(old)
      /\ HeardBy(member, m, next) <=> HeardBy(member, m, old)
      /\ GaveOver(member, next) <=> GaveOver(member, old)
      /\ AllPredecessorsKnown(next) <=> AllPredecessorsKnown(old)
  BY DEF Stays, IsLastMember, IsAssigned, Holds, HeardBy, GaveOver, AllPredecessorsKnown
<1>3. /\ TokenHeard(member, m, next) <=> TokenHeard(member, m, old)
      /\ FounderHeard(member, m, next) <=> FounderHeard(member, m, old)
  BY <1>2 DEF Stays, TokenHeard, FounderHeard
<1>4. Holds(old) /\ AllSuccessorsKnown(m, old) => AllSuccessorsKnown(m, next)
  BY <1>1, AllSuccessorsStay DEF Stays, Holds
<1>5. next.is_sponsor => Looks(next)
  BY <1>1, <1>2 DEF Stays, GoesOn, Looks
<1>6. GaveOver(member, next) \/ Asks(next, "response")
  BY <1>1, <1>2 DEF GoesOn
<1>7. Holds(next) => AllSuccessorsKnown(m, next) \/ Asks(next, "successors")
  BY <1>1, <1>2, <1>4 DEF GoesOn
<1>8. next.synch_finished => TokenHeard(member, m, next) \/ Asks(next, "token")
  BY <1>1, <1>3 DEF GoesOn, Stays
<1>9. FounderHeard(member, m, next) \/ (Asks(next, "finish") /\ next.status # "stopped")
  BY <1>1, <1>3 DEF GoesOn
<1> QED
  BY <1>5, <1>6, <1>7, <1>8, <1>9 DEF GoesOn

\* The handlers that answer once, or were cancelled before they did.
LEMMA AnswerDuty ==
    ASSUME OneGroup, DutyInv, IInv', NEW m \in Members, NEW h, NEW self,
           Started(m, h, self), AnswerOnce(m, self, h)
    PROVE  Duties'
<1> DEFINE old == member[m]
<1>1. IInv /\ (Asks(old, "synch_info") => HasLast(member))
  BY DutyFacts DEF SignsOK, SignsRight
<1>2. /\ Asks(old, h)
      /\ \A x \in Watched : Asks(self, x) => Asks(old, x)
      /\ \A x : Asks(old, x) => x = h \/ Asks(self, x)
      /\ Stays(old, self)
      /\ SameSigns(old, self)
      /\ self.status = "running"
      /\ old.status = "running"
      /\ self.assigned_endpoints = old.assigned_endpoints
      /\ self.timeout_wait = old.timeout_wait
      /\ self.finish_message_rcvd = old.finish_message_rcvd
      /\ DOMAIN self = Fields
  BY DEF Started
<1>3. h \in {"request", "request_aborted", "info", "synch_info", "info_aborted"}
  BY DEF AnswerOnce
<1> HIDE DEF old
<1>4. PICK next, msgs :
          /\ Become(m, next, msgs)
          /\ \/ next = [self EXCEPT !.request_scheduled = ~ @]
             \/ next = [self EXCEPT !.response_scheduled = ~ @]
          /\ \A msg \in msgs :
                /\ msg.type \in {"request", "info_response", "synch_response"}
                /\ msg.type = "synch_response" => HasLast(member)
  <2>1. CASE h \in {"request", "request_aborted"}
    <3> DEFINE msgs == IF h = "request" THEN {Request(m)} ELSE {}
    <3>1. Become(m, [self EXCEPT !.request_scheduled = ~ @], msgs)
      BY <2>1 DEF AnswerOnce
    <3>2. \A msg \in msgs : msg.type = "request"
      BY DEF Request
    <3> HIDE DEF msgs
    <3> QED
      BY <3>1, <3>2
  <2>2. CASE h \in {"info", "synch_info", "info_aborted"}
    <3> DEFINE msgs == CASE h = "info" -> {InfoResponse(m, self)}
                         [] h = "synch_info" -> {SynchResponse(m, self)}
                         [] OTHER -> {}
    <3>1. Become(m, [self EXCEPT !.response_scheduled = ~ @], msgs)
      BY <2>2 DEF AnswerOnce
    <3>2. ASSUME NEW msg \in msgs
          PROVE  /\ msg.type \in {"info_response", "synch_response"}
                 /\ msg.type = "synch_response" => h = "synch_info"
      <4>1. CASE h = "info"
        <5>1. msgs = {InfoResponse(m, self)}
          BY <4>1
        <5> QED
          BY <5>1 DEF InfoResponse
      <4>2. CASE h = "synch_info"
        <5>1. msgs = {SynchResponse(m, self)}
          BY <4>2
        <5> QED
          BY <4>2, <5>1 DEF SynchResponse
      <4>3. CASE h = "info_aborted"
        <5>1. msgs = {}
          BY <4>3
        <5> QED
          BY <5>1
      <4> QED
        BY <2>2, <4>1, <4>2, <4>3
    <3> HIDE DEF msgs
    <3> QED
      BY <1>1, <1>2, <3>1, <3>2
  <2> QED
    BY <1>3, <2>1, <2>2
<1>5. /\ Stays(self, next)
      /\ SameSigns(self, next)
      /\ next.scatter_queue = self.scatter_queue
      /\ next.scatter_wait = self.scatter_wait
      /\ next.timeout_wait = self.timeout_wait
      /\ next.finish_message_rcvd = self.finish_message_rcvd
      /\ next.assigned_endpoints = self.assigned_endpoints
      /\ next.status = self.status
  BY <1>2, <1>4 DEF Stays, SameSigns, Fields
<1>6. Stays(old, next) /\ SameSigns(old, next)
  BY <1>2, <1>5 DEF Stays, SameSigns
<1>7. \A x : Asks(next, x) <=> Asks(self, x)
  BY <1>5, SameAsks
<1>8. member'[m] = next
  BY <1>1, <1>4, Becomes
<1>9. GoesOn(member, m, next)
  <2>1. h \notin {"offer", "predecessors", "response", "successors", "token", "finish"}
    BY <1>3
  <2> QED
    BY <1>2, <1>5, <1>6, <1>7, <1>8, <2>1, GoesOnBut DEF old
<1>10. /\ StatusRight(m, old, next)
       /\ TimeoutRight(m, old, next)
       /\ SignsSeen(m, old, next)
       /\ Harmless(m, old, next)
  BY <1>2, <1>5, <1>6, <1>7, TellsNoSign DEF StatusRight, TimeoutRight, Harmless
<1>11. \A msg \in msgs :
          SaysNow(m, next, msg) /\ (msg.type = "synch_response" => HasLast(member))
  BY <1>4 DEF SaysNow
<1> QED
  BY <1>4, <1>6, <1>9, <1>10, <1>11, StaysStep DEF old

\* What a cyclic handler sends again is still so.
LEMMA RepeatSays ==
    ASSUME OneGroup, DutyInv, NEW m \in Members, NEW self,
           self.member_id = member[m].member_id,
           self.response_message_cache = member[m].response_message_cache,
           NEW h \in Cyclic, Asks(member[m], h),
           NEW msg \in Repeated(m, self, h)
    PROVE  SaysNow(m, member[m], msg) /\ msg.type # "synch_response"
<1> DEFINE old == member[m]
<1>1. /\ IInv
      /\ DutyOK(m, old)
      /\ TimersTell(m, old)
      /\ Some(old, {h})
      /\ old.member_id \in Nat
      /\ member_count[Service(m)] \in Nat
      /\ old.synch_finished => IsAssigned(old)
      /\ old.synch_token_rcvd => IsAssigned(old)
  <2>1. /\ IInv
        /\ DutyOK(m, old)
        /\ TimersTell(m, old)
        /\ old.scatter_queue \in Seq(Handlers)
    BY DutyFacts DEF LocalOK, IInv, TimersOK, TimerTypes
  <2>2. Some(old, {h})
    BY <2>1, AsksSome
  <2> QED
    BY <2>1, <2>2, MemberFacts, NoFlags DEF DutyInv
<1> HIDE DEF old
<1>2. CASE h = "offer"
  <2>1. msg = Offer(m)
    BY <1>2 DEF Repeated
  <2> QED
    BY <2>1 DEF SaysNow, Offer
<1>3. CASE h = "response"
  <2>1. msg \in member[m].response_message_cache
    BY <1>3 DEF Repeated
  <2>2. msg \in History(member)
    BY <2>1, HistoryMember
  <2>3. msg.type = "response"
    BY <1>1, <2>2 DEF IInv, Inv, HistoryOK, AssignmentOK, Assignments
  <2> QED
    BY <2>3 DEF SaysNow
<1>4. CASE h = "predecessors"
  <2>1. msg = InfoRequest(m, UnknownPredecessors(self))
    BY <1>4 DEF Repeated
  <2>2. /\ msg.type = "info_request"
        /\ msg.requested = UnknownPredecessors(self)
        /\ IsAssigned(old)
    BY <1>1, <1>4, <2>1 DEF InfoRequest, DutyOK, old
  <2>3. \A id \in msg.requested : id < old.member_id
    BY <1>1, <2>2 DEF UnknownPredecessors, old
  <2> QED
    BY <2>2, <2>3 DEF SaysNow, old
<1>5. CASE h = "successors"
  <2>1. msg = SynchRequest(m, UnknownSuccessors(m, self))
    BY <1>5 DEF Repeated
  <2>2. /\ msg.type = "synch_request"
        /\ msg.requested = UnknownSuccessors(m, self)
        /\ IsAssigned(old)
    BY <1>1, <1>5, <2>1 DEF SynchRequest, DutyOK, old
  <2>3. \A id \in msg.requested : id > old.member_id
    BY <1>1, <2>2 DEF UnknownSuccessors, old
  <2> QED
    BY <2>2, <2>3 DEF SaysNow, old
<1>6. CASE h = "token"
  <2>1. msg = SynchToken(m, self)
    BY <1>6 DEF Repeated
  <2>2. /\ msg.type = "synch_token"
        /\ msg.member_id = IF old.member_id # member_count[Service(m)]
                           THEN old.member_id + 1 ELSE 1
    BY <2>1 DEF SynchToken, old
  <2>3. old.synch_finished /\ IsAssigned(old)
    BY <1>1, <1>6 DEF TimersTell
  <2>4. msg.member_id = IF IsLastMember(m, old) THEN 1 ELSE old.member_id + 1
    BY <2>2, <2>3 DEF IsLastMember
  <2> QED
    BY <2>2, <2>3, <2>4 DEF SaysNow, old
<1>7. CASE h \in {"finish", "founder_finish"}
  <2>1. msg = Finish(m)
    BY <1>7 DEF Repeated
  <2>2. msg.type = "finish"
    BY <2>1 DEF Finish
  <2>3. \/ IsLastMember(m, old) /\ old.synch_token_rcvd
        \/ IsFounder(m) /\ old.finish_message_rcvd
    <3>1. CASE h = "finish"
      BY <1>1, <3>1 DEF TimersTell
    <3>2. CASE h = "founder_finish"
      BY <1>1, <3>2 DEF TimersTell, DutyOK, old
    <3> QED
      BY <1>7, <3>1, <3>2
  <2> QED
    BY <2>2, <2>3 DEF SaysNow, old
<1> QED
  BY <1>2, <1>3, <1>4, <1>5, <1>6, <1>7 DEF Cyclic

\* A member that was given the role, or the token, repeats nothing else.
LEMMA NothingElse ==
    ASSUME OneGroup, DutyInv, NEW m \in Members
    PROVE  /\ member[m].is_sponsor =>
                 /\ ~ HasLast(member)
                 /\ ~ member[m].synch_token_rcvd
                 /\ ~ member[m].synch_finished
                 /\ GaveOver(member, member[m])
           /\ member[m].response_message_cache # {} => ~ member[m].is_sponsor
           /\ member[m].synch_token_rcvd \/ member[m].synch_finished =>
                 /\ ~ member[m].is_sponsor
                 /\ GaveOver(member, member[m])
           /\ member[m].synch_finished /\ ~ IsLastMember(m, member[m]) =>
                 AllSuccessorsKnown(m, member[m])
<1> DEFINE old == member[m]
<1>1. /\ IInv
      /\ MemberOK(History(member), m, old)
      /\ HistoryOK(History(member))
      /\ old.synch_token_rcvd \/ old.synch_finished => HasLast(member)
  BY DutyFacts, MemberFacts, NoFlags DEF DutyInv
<1>2. old.response_message_cache # {} => ~ old.is_sponsor
  BY <1>1 DEF MemberOK, CacheOK
<1>3. HasLast(member) => ~ old.is_sponsor /\ GaveOver(member, old)
  BY <1>1, LastAlone
<1>4. old.is_sponsor => GaveOver(member, old)
  BY <1>2 DEF GaveOver
<1>5. ASSUME old.synch_finished, ~ IsLastMember(m, old) PROVE AllSuccessorsKnown(m, old)
  <2>1. IsAssigned(old) /\ Reached(member, old.member_id + 1)
    BY <1>5, DutyFacts DEF TokenInv, FlagsTell
  <2>2. old.member_id \in 1 .. old.member_id
    BY <1>1, <2>1, OwnId
  <2>3. old.member_id \in 1 .. (old.member_id + 1) - 1
    BY <2>2
  <2>4. PICK n \in Members :
            member[n].member_id = old.member_id /\ KnowsEverybody(n, member[n])
    BY <2>1, <2>3 DEF Reached
  <2>5. n = m
    BY <1>1, <2>1, <2>4, IdsOnce DEF OneGroup
  <2> QED
    BY <1>1, <2>1, <2>4, <2>5, OtherIds
<1> QED
  BY <1>1, <1>2, <1>3, <1>4, <1>5

\* What is repeated is all that m has to repeat.
LEMMA GoesOnRepeating ==
    ASSUME OneGroup, DutyInv, IInv', NEW m \in Members, NEW h \in Cyclic, NEW self,
           Started(m, h, self), Repeats(m, self, h),
           NEW next, member'[m] = next, Stays(member[m], next),
           next.assigned_endpoints = member[m].assigned_endpoints,
           next.status = "running",
           Asks(next, h)
    PROVE  GoesOn(member, m, next)
<1> DEFINE old == member[m]
<1>1. /\ IInv
      /\ KnowInv
      /\ TokenInv
      /\ DutyOK(m, old)
      /\ GoesOn(member, m, old)
      /\ TimersTell(m, old)
      /\ LocalOK(m, old)
      /\ Asks(old, h)
      /\ Some(old, {h})
  <2>1. /\ IInv
        /\ KnowInv
        /\ TokenInv
        /\ DutyOK(m, old)
        /\ GoesOn(member, m, old)
        /\ LocalOK(m, old)
        /\ Asks(old, h)
        /\ old.scatter_queue \in Seq(Handlers)
    BY DutyFacts DEF SignsOK, TokenInv, Started, IInv, TimersOK, TimerTypes
  <2>2. Some(old, {h})
    BY <2>1, AsksSome
  <2> QED
    BY <2>1, <2>2 DEF LocalOK
<1>2. /\ old.is_sponsor =>
            /\ ~ HasLast(member)
            /\ ~ old.synch_token_rcvd
            /\ ~ old.synch_finished
            /\ GaveOver(member, old)
      /\ old.response_message_cache # {} => ~ old.is_sponsor
      /\ old.synch_token_rcvd \/ old.synch_finished =>
            /\ ~ old.is_sponsor
            /\ GaveOver(member, old)
      /\ old.synch_finished /\ ~ IsLastMember(m, old) => AllSuccessorsKnown(m, old)
  BY NothingElse
<1>3. /\ self.is_sponsor = old.is_sponsor
      /\ self.higher_member_id_assigned = old.higher_member_id_assigned
      /\ self.higher_member_id_synching = old.higher_member_id_synching
      /\ AllPredecessorsKnown(self) <=> AllPredecessorsKnown(old)
      /\ AllSuccessorsKnown(m, self) <=> AllSuccessorsKnown(m, old)
  BY DEF Started, Stays, SameSigns, AllPredecessorsKnown, AllSuccessorsKnown, IsAssigned
<1> HIDE DEF old
<1>4. /\ IsLastMember(m, next) <=> IsLastMember(m, old)
      /\ Holds(next) <=> Holds(old)
      /\ HeardBy(member, m, next) <=> HeardBy(member, m, old)
      /\ GaveOver(member, next) <=> GaveOver(member, old)
      /\ AllPredecessorsKnown(next) <=> AllPredecessorsKnown(old)
      /\ next.is_sponsor = old.is_sponsor
      /\ next.synch_finished = old.synch_finished
      /\ next.synch_token_rcvd = old.synch_token_rcvd
  BY DEF Stays, IsLastMember, IsAssigned, Holds, HeardBy, GaveOver, AllPredecessorsKnown, old
<1>5. TokenHeard(member, m, next) <=> TokenHeard(member, m, old)
  BY <1>4 DEF TokenHeard
<1>6. CASE h \in {"offer", "predecessors"}
  <2>1. old.is_sponsor /\ (h = "predecessors" => ~ AllPredecessorsKnown(old))
    <3>1. CASE h = "offer"
      BY <1>3, <3>1 DEF Repeats
    <3>2. CASE h = "predecessors"
      <4>1. ~ AllPredecessorsKnown(old) /\ IsAssigned(old) /\ ~ IsLastMember(m, old)
        BY <1>1, <1>3, <3>2 DEF Repeats, DutyOK
      <4>2. UnknownPredecessors(old) # {}
        BY <1>1, <4>1, PredecessorsCounted DEF old
      <4>3. old.is_sponsor
        BY <1>1, <4>1, <4>2 DEF LocalOK, PredecessorsKnown, UnknownPredecessors
      <4> QED
        BY <4>1, <4>3
    <3> QED
      BY <1>6, <3>1, <3>2
  <2>2. Looks(next)
    BY <1>4, <1>6, <2>1 DEF Looks
  <2> QED
    BY <1>2, <1>4, <2>1, <2>2 DEF GoesOn, Holds, FounderHeard
<1>7. CASE h = "response"
  <2>1. old.response_message_cache # {} /\ ~ old.higher_member_id_assigned
    BY <1>1, <1>3, <1>7 DEF Repeats, DutyOK
  <2>2. ~ old.is_sponsor /\ ~ old.synch_token_rcvd /\ ~ old.synch_finished
    BY <1>1, <1>2, <2>1 DEF DutyOK
  <2> QED
    BY <1>4, <1>7, <2>2 DEF GoesOn, Holds, FounderHeard
<1>8. CASE h = "successors"
  <2>1. /\ old.synch_token_rcvd
        /\ ~ IsLastMember(m, old)
        /\ ~ AllSuccessorsKnown(m, old)
    BY <1>1, <1>3, <1>8 DEF Repeats, DutyOK
  <2>2. ~ old.synch_finished /\ ~ old.is_sponsor /\ GaveOver(member, old)
    BY <1>2, <2>1
  <2> QED
    BY <1>4, <1>8, <2>1, <2>2 DEF GoesOn, FounderHeard
<1>9. CASE h = "token"
  <2>1. ~ old.higher_member_id_synching /\ old.synch_finished
    BY <1>1, <1>3, <1>9 DEF Repeats, TimersTell, Some
  <2>2. /\ ~ (IsLastMember(m, old) /\ old.synch_token_rcvd)
        /\ ~ old.is_sponsor
        /\ GaveOver(member, old)
    BY <1>1, <1>2, <2>1 DEF DutyOK
  <2> QED
    BY <1>4, <1>9, <2>1, <2>2 DEF GoesOn, Holds, FounderHeard
<1>10. CASE h = "finish"
  <2>1. IsLastMember(m, old) /\ old.synch_token_rcvd
    BY <1>1, <1>10 DEF TimersTell
  <2>2. old.synch_finished /\ ~ old.is_sponsor /\ GaveOver(member, old)
    BY <1>1, <1>2, <2>1 DEF DutyOK
  <2> QED
    BY <1>4, <1>5, <1>10, <2>1, <2>2 DEF GoesOn, Holds, TokenHeard
<1>11. CASE h = "founder_finish"
  <2>1. IsFounder(m) /\ old.finish_message_rcvd
    BY <1>1, <1>11 DEF TimersTell, DutyOK
  <2>2. LastHasToken(member)
    BY <1>1, <2>1 DEF TokenInv, FlagsTell, old
  <2>3. FounderHeard(member, m, old)
    BY <1>1, <2>1, <2>2, FounderAtEnd DEF FounderHeard, old
  <2>4. Free(m, next)
    BY <2>2, <2>3, FreeAtEnd, FreeStays DEF old
  <2> QED
    BY <2>4, FreeGoesOn
<1> QED
  BY <1>6, <1>7, <1>8, <1>9, <1>10, <1>11 DEF Cyclic

LEMMA RepeatDuty ==
    ASSUME OneGroup, DutyInv, IInv', NEW m \in Members, NEW h \in Cyclic, NEW self,
           Started(m, h, self), Repeats(m, self, h),
           Become(m, Await(self, h), Repeated(m, self, h))
    PROVE  Duties'
<1> DEFINE old == member[m]
           next == Await(self, h)
           msgs == Repeated(m, self, h)
<1>1. IInv
  BY DutyFacts
<1>2. /\ Asks(old, h)
      /\ Stays(old, self)
      /\ SameSigns(old, self)
      /\ self.scatter_queue \in Seq(Handlers)
      /\ \A x \in Watched : Asks(self, x) => Asks(old, x)
      /\ self.status = "running"
      /\ old.status = "running"
      /\ self.assigned_endpoints = old.assigned_endpoints
      /\ self.timeout_wait = old.timeout_wait
      /\ self.finish_message_rcvd = old.finish_message_rcvd
      /\ DOMAIN self = Fields
  BY DEF Started
<1>3. SignsSeen(m, old, self)
  BY <1>2, TellsNoSign
<1>4. /\ Stays(old, next)
      /\ SignsSeen(m, old, next)
      /\ Asks(next, h)
      /\ \A x \in Watched : Asks(next, x) => x = h \/ Asks(old, x)
      /\ next.timeout_wait = self.timeout_wait
      /\ next.finish_message_rcvd = self.finish_message_rcvd
      /\ next.status = self.status
      /\ next.assigned_endpoints = self.assigned_endpoints
  BY <1>2, <1>3, AwaitStays
<1>5. Become(m, next, msgs)
  OBVIOUS
<1>6. member'[m] = next
  BY <1>1, Becomes
<1>7. ASSUME NEW msg \in msgs
      PROVE  SaysNow(m, old, msg) /\ msg.type # "synch_response"
  <2>1. /\ self.response_message_cache = old.response_message_cache
        /\ self.member_id = old.member_id
    BY <1>2 DEF Stays
  <2> QED
    BY <1>2, <2>1, RepeatSays
<1> HIDE DEF next, msgs, old
<1>8. GoesOn(member, m, next)
  BY <1>2, <1>4, <1>6, GoesOnRepeating DEF old
<1>9. /\ StatusRight(m, old, next)
      /\ TimeoutRight(m, old, next)
      /\ Harmless(m, old, next)
  BY <1>2, <1>4 DEF StatusRight, TimeoutRight, Harmless
<1>10. \A msg \in msgs : SaysNow(m, next, msg) /\ msg.type # "synch_response"
  BY <1>4, <1>7, SaysOn DEF Onward, Stays
<1> QED
  BY <1>4, <1>5, <1>8, <1>9, <1>10, StaysStep DEF old

\* Who gives over repeating its response knows of the next member.
LEMMA ResponseGivenOver ==
    ASSUME OneGroup, DutyInv, NEW m \in Members, ~ Repeats(m, member[m], "response")
    PROVE  GaveOver(member, member[m])
<1> DEFINE old == member[m]
           id == old.member_id
           keys == DOMAIN old.assigned_keys
<1> SUFFICES ASSUME NEW x \in old.response_message_cache, ~ IsAssigned(member[x.new_sponsor])
             PROVE  FALSE
  BY DEF GaveOver
<1>1. /\ IInv
      /\ MemberOK(History(member), m, old)
      /\ HistoryOK(History(member))
      /\ id \in Nat \ {0}
      /\ Service(m) \in Services
      /\ IsAssigned(old)
      /\ x.assigned_id = id + 1
      /\ x \in History(member)
      /\ SignsRight(member, m, old)
  BY DutyFacts, MemberFacts, HistoryMember
  DEF MemberOK, CacheOK, IsAssigned, DEFAULT_MEMBER_ID, SignsOK
<1>2. /\ \A n \in Members : member[n].member_id < id + 1
      /\ \A y \in History(member) : y.assigned_id <= id + 1
      /\ ~ HasLast(member)
  BY <1>1, TransitTop
<1>3. ~ HasHigher(member, old)
  <2>1. \A n \in Members : member[n].member_id \in Nat
    BY <1>1, MemberFacts
  <2> QED
    BY <1>1, <1>2, <2>1 DEF HasHigher
<1>4. Cardinality(keys) > id
  <2>1. ~ old.higher_member_id_assigned
    BY <1>1, <1>2, <1>3 DEF SignsRight
  <2>2. Cardinality(keys) \in Nat
    BY <1>1, OtherIds
  <2> QED
    BY <1>1, <2>1, <2>2 DEF Repeats
<1>5. keys \subseteq (1 .. id + 1) \ {id}
  <2> SUFFICES ASSUME NEW k \in keys PROVE k \in 1 .. id + 1 /\ k # id
    OBVIOUS
  <2>1. Gives(History(member), Service(m), k, old.assigned_keys[k])
    BY <1>1 DEF MemberOK, MapsOK
  <2>2. k \in Nat /\ k >= 1
    BY <1>1, <2>1, GivesType
  <2>3. k <= id + 1
    BY <1>1, <1>2, <2>1, <2>2 DEF Gives, INITIAL_SPONSOR_ID
  <2>4. k # id
    BY <1>1, OtherIds DEF OtherMembers
  <2> QED
    BY <1>1, <2>2, <2>3, <2>4
<1> HIDE DEF keys, id, old
<1>6. IsFiniteSet((1 .. id + 1) \ {id}) /\ Cardinality((1 .. id + 1) \ {id}) = id
  <2>1. IsFiniteSet(1 .. id + 1) /\ Cardinality(1 .. id + 1) = id + 1
    <3>1. 1 \in Int /\ id + 1 \in Int /\ ~ 1 > id + 1 /\ (id + 1) - 1 + 1 = id + 1
      BY <1>1
    <3> QED
      BY <3>1, FS_Interval
  <2>2. id \in 1 .. id + 1
    BY <1>1
  <2>3. /\ IsFiniteSet((1 .. id + 1) \ {id})
        /\ Cardinality((1 .. id + 1) \ {id}) = Cardinality(1 .. id + 1) - 1
    BY <2>1, <2>2, FS_RemoveElement
  <2>4. (id + 1) - 1 = id
    BY <1>1
  <2> QED
    BY <2>1, <2>3, <2>4
<1>7. Cardinality(keys) <= id
  BY <1>5, <1>6, FS_Subset
<1>8. Cardinality(keys) \in Nat
  BY <1>5, <1>6, FS_Subset, FS_CardinalityType
<1> QED
  BY <1>1, <1>4, <1>7, <1>8

\* Whoever stops repeating a message does not need it any more.
LEMMA StopDuty ==
    ASSUME OneGroup, DutyInv, IInv', NEW m \in Members, NEW h \in Cyclic, NEW self,
           Started(m, h, self), ~ Repeats(m, self, h), Become(m, self, {})
    PROVE  Duties'
<1> DEFINE old == member[m]
<1>1. /\ IInv
      /\ SignsRight(member, m, old)
      /\ MemberOK(History(member), m, old)
      /\ HistoryOK(History(member))
      /\ old.synch_finished => IsAssigned(old)
      /\ old.is_sponsor => IsAssigned(old)
  BY DutyFacts, MemberFacts, NoFlags DEF SignsOK, DutyInv
<1>2. /\ Stays(old, self)
      /\ SameSigns(old, self)
      /\ \A x \in Watched : Asks(self, x) => Asks(old, x)
      /\ \A x : Asks(old, x) => x = h \/ Asks(self, x)
      /\ self.status = "running"
      /\ old.status = "running"
      /\ self.assigned_endpoints = old.assigned_endpoints
      /\ self.assigned_keys = old.assigned_keys
      /\ self.timeout_wait = old.timeout_wait
      /\ self.finish_message_rcvd = old.finish_message_rcvd
  BY DEF Started
<1>3. member'[m] = self
  BY <1>1, Becomes
<1>4. ~ Repeats(m, old, h)
  BY <1>2
  DEF Repeats, Stays, SameSigns, AllPredecessorsKnown, AllSuccessorsKnown, IsAssigned, Cyclic
<1>5. h = "offer" => ~ old.is_sponsor
  <2> SUFFICES ASSUME h = "offer", old.is_sponsor PROVE FALSE
    OBVIOUS
  <2>1. DOMAIN old.assigned_keys \subseteq 1 .. old.member_id - 1
    BY <1>1, SponsorIsHighest, SponsorKeys
  <2>2. old.member_id \in Nat \ {0}
    BY <1>1, OwnId
  <2>3. /\ IsFiniteSet(1 .. old.member_id - 1)
        /\ Cardinality(1 .. old.member_id - 1) = old.member_id - 1
    <3> DEFINE top == old.member_id - 1
    <3>1. 1 \in Int /\ top \in Int /\ IF 1 > top THEN top = 0 ELSE top - 1 + 1 = top
      BY <2>2
    <3> HIDE DEF top
    <3> QED
      BY <3>1, FS_Interval DEF top
  <2>4. /\ Cardinality(DOMAIN old.assigned_keys) <= old.member_id - 1
        /\ Cardinality(DOMAIN old.assigned_keys) \in Nat
    BY <2>1, <2>3, FS_Subset, FS_CardinalityType
  <2>5. Cardinality(DOMAIN old.assigned_keys) < old.member_id
    BY <2>2, <2>4
  <2> QED
    BY <1>4, <2>5 DEF Repeats
<1>6. /\ h = "predecessors" => AllPredecessorsKnown(old)
      /\ h = "response" => GaveOver(member, old)
      /\ h = "successors" => AllSuccessorsKnown(m, old)
      /\ h # "finish"
  BY <1>4, ResponseGivenOver DEF Repeats
<1>7. h = "token" /\ old.synch_finished => TokenHeard(member, m, old)
  BY <1>1, <1>4 DEF Repeats, SignsRight, TokenHeard
<1>8. GoesOn(member, m, self)
  BY <1>2, <1>3, <1>5, <1>6, <1>7, GoesOnBut
<1>9. /\ StatusRight(m, old, self)
      /\ TimeoutRight(m, old, self)
      /\ SignsSeen(m, old, self)
      /\ Harmless(m, old, self)
  BY <1>2, TellsNoSign DEF StatusRight, TimeoutRight, Harmless
<1> HIDE DEF old
<1> QED
  BY <1>2, <1>8, <1>9, StaysStep DEF old

LEMMA ScatterDuty ==
    ASSUME OneGroup, DutyInv, IInv', NEW m \in Members, HandleScatter(m)
    PROVE  Duties'
<1>1. PICK h, self : Started(m, h, self) /\ RunHandler(m, self, h)
  BY HandlerStarts
<1>2. CASE AnswerOnce(m, self, h)
  BY <1>1, <1>2, AnswerDuty
<1>3. CASE /\ h \in Cyclic
           /\ Repeats(m, self, h)
           /\ Become(m, Await(self, h), Repeated(m, self, h))
  BY <1>1, <1>3, RepeatDuty
<1>4. CASE h \in Cyclic /\ ~ Repeats(m, self, h) /\ Become(m, self, {})
  BY <1>1, <1>4, StopDuty
<1> QED
  BY <1>1, <1>2, <1>3, <1>4 DEF RunHandler

-----------------------------------------------------------------------------
(***************************************************************************)
(* Every step.                                                             *)
(***************************************************************************)
LEMMA ReceiveDuty ==
    ASSUME OneGroup, DutyInv, IInv', NEW m \in Members, NEW type, FreshReceive(m, type)
    PROVE  Duties'
<1>1. PICK n \in Members \ {m} : \E msg \in net[n] : ~ Stale(n, msg) /\ Process(m, msg)
  BY DEF FreshReceive
<1>2. PICK msg \in net[n] : ~ Stale(n, msg) /\ Process(m, msg)
  BY <1>1
<1>3. n \in Members /\ n # m /\ member[m].status = "running"
  BY DEF FreshReceive
<1>4. CASE ProcessOffer(m, msg)
  BY <1>2, <1>3, <1>4, OfferDuty
<1>5. CASE ProcessRequest(m, msg)
  BY <1>3, <1>5, RequestDuty
<1>6. CASE ProcessResponse(m, msg)
  BY <1>3, <1>6, ResponseDuty
<1>7. CASE ProcessMemberInfoRequest(m, msg)
  BY <1>2, <1>3, <1>7, InfoRequestDuty
<1>8. CASE ProcessMemberInfoResponse(m, msg)
  BY <1>3, <1>8, InfoResponseDuty
<1>9. CASE ProcessSynchToken(m, msg)
  BY <1>3, <1>9, SynchTokenDuty
<1>10. CASE ProcessMemberInfoSynchRequest(m, msg)
  BY <1>2, <1>3, <1>10, SynchRequestDuty
<1>11. CASE ProcessMemberInfoSynchResponse(m, msg)
  BY <1>3, <1>11, SynchResponseDuty
<1>12. CASE ProcessFinish(m, msg)
  BY <1>3, <1>12, FinishDuty
<1>13. CASE ProcessFinishAck(m, msg)
  BY <1>3, <1>13, FinishAckDuty
<1> QED
  BY <1>2, <1>4, <1>5, <1>6, <1>7, <1>8, <1>9, <1>10, <1>11, <1>12, <1>13 DEF Process

LEMMA FreshIsNext == FreshNext => Next
<1> SUFFICES ASSUME FreshNext PROVE Next
  OBVIOUS
<1>1. PICK m \in Members : \/ Launch(m)
                           \/ \E type \in MessageTypes : FreshReceive(m, type)
                           \/ ScatterExpires(m)
                           \/ HandleScatter(m)
                           \/ Timeout(m)
                           \/ Lose(m)
  BY DEF FreshNext
<1>2. \A type : FreshReceive(m, type) => Receive(m, type)
  BY DEF FreshReceive, Receive
<1> QED
  BY <1>1, <1>2 DEF Next

LEMMA DutyNext == ASSUME OneGroup, DutyInv, [FreshNext]_vars PROVE DutyInv'
<1>1. TokenInv /\ KnowInv /\ IInv /\ Duties /\ SomebodyToAgreeWith
  BY DEF DutyInv, TokenInv, KnowInv, OneGroup
<1>2. TokenInv'
  BY <1>1, FreshIsNext, TokenNext
<1>3. IInv'
  BY <1>2 DEF TokenInv, KnowInv
<1> SUFFICES Duties'
  BY <1>2 DEF DutyInv
<1>4. ASSUME member' = member, \A n \in Members : net'[n] \subseteq net[n]
      PROVE  Duties'
  <2>1. \A m \in Members : DutyOK(m, member'[m]) /\ SignsOK(member', m, member'[m])
    BY <1>1, <1>4 DEF Duties
  <2>2. \A m \in Members : \A msg \in net'[m] :
            /\ SaysNow(m, member'[m], msg)
            /\ msg.type = "synch_response" => HasLast(member')
    BY <1>1, <1>4 DEF Duties
  <2>3. HasLast(member') => \E p \in Members : TokenAt(member', p)
    BY <1>1, <1>4 DEF Duties
  <2> QED
    BY <2>1, <2>2, <2>3 DEF Duties
<1>5. CASE FreshNext
  <2> PICK m \in Members : \/ Launch(m)
                           \/ \E type \in MessageTypes : FreshReceive(m, type)
                           \/ ScatterExpires(m)
                           \/ HandleScatter(m)
                           \/ Timeout(m)
                           \/ Lose(m)
    BY <1>5 DEF FreshNext
  <2>1. CASE Launch(m)
    BY <1>3, <2>1, LaunchDuty
  <2>2. CASE \E type \in MessageTypes : FreshReceive(m, type)
    BY <1>3, <2>2, ReceiveDuty
  <2>3. CASE ScatterExpires(m)
    BY <1>3, <2>3, ExpireDuty
  <2>4. CASE HandleScatter(m)
    BY <1>3, <2>4, ScatterDuty
  <2>5. CASE Timeout(m)
    BY <1>3, <2>5, TimeoutDuty
  <2>6. CASE Lose(m)
    BY <1>1, <1>4, <2>6, LoseKeeps
  <2> QED
    BY <2>1, <2>2, <2>3, <2>4, <2>5, <2>6
<1>6. CASE UNCHANGED vars
  BY <1>4, <1>6 DEF vars
<1> QED
  BY <1>5, <1>6

LEMMA DutyInit == Init => DutyInv
<1> SUFFICES ASSUME Init PROVE DutyInv
  OBVIOUS
<1>1. \A m \in Members : net[m] = {} /\ member[m] = InitialMember
  BY DEF Init
<1>2. TokenInv
  BY TokenInit
<1>3. \A m \in Members : ~ IsAssigned(member[m])
  BY <1>1 DEF InitialMember, IsAssigned
<1>4. ~ HasLast(member)
  BY <1>3 DEF HasLast, IsLastMember
<1>5. /\ ~ InitialMember.is_sponsor
      /\ ~ InitialMember.synch_token_rcvd
      /\ ~ InitialMember.synch_finished
      /\ ~ InitialMember.finish_message_rcvd
      /\ ~ InitialMember.timeout_wait
      /\ ~ InitialMember.higher_member_id_assigned
      /\ ~ InitialMember.higher_member_id_synching
      /\ InitialMember.response_message_cache = {}
      /\ InitialMember.status = "down"
      /\ ~ IsAssigned(InitialMember)
  BY DEF InitialMember, IsAssigned
<1>6. \A h \in Watched : ~ Asks(InitialMember, h)
  <2>1. InitialMember.scatter_wait = "none" /\ InitialMember.scatter_queue = <<>>
    BY DEF InitialMember
  <2>2. Pending(InitialMember) = {"none"}
    BY <2>1 DEF Pending
  <2> QED
    BY <2>2 DEF Asks, Watched, Cyclic
<1>7. /\ ~ Asks(InitialMember, "predecessors")
      /\ ~ Asks(InitialMember, "successors")
      /\ ~ Asks(InitialMember, "response")
      /\ ~ Asks(InitialMember, "founder_finish")
      /\ ~ Asks(InitialMember, "synch_info")
  BY <1>6 DEF Watched, Cyclic
<1>8. ASSUME NEW m \in Members
      PROVE  DutyOK(m, InitialMember) /\ SignsOK(member, m, InitialMember)
  <2>1. ~ IsLastMember(m, InitialMember)
    BY <1>5 DEF IsLastMember
  <2>2. DutyOK(m, InitialMember)
    BY <1>5, <1>7, <2>1 DEF DutyOK, Passed
  <2>3. SignsRight(member, m, InitialMember)
    BY <1>5, <1>7 DEF SignsRight
  <2>4. GoesOn(member, m, InitialMember)
    BY <1>5, <2>1 DEF GoesOn, GaveOver, FounderHeard, Holds
  <2> QED
    BY <2>2, <2>3, <2>4 DEF SignsOK
<1> QED
  BY <1>1, <1>2, <1>4, <1>8 DEF DutyInv, Duties

LEMMA DutyTells == ASSUME OneGroup PROVE FreshSpec => []DutyInv
<1>1. DutyInv /\ [FreshNext]_vars => DutyInv'
  BY DutyNext
<1> QED
  BY <1>1, DutyInit, PTL DEF FreshSpec

-----------------------------------------------------------------------------
(***************************************************************************)
(* RoleGoesOn: a sponsor's timer is armed for its offer, or for the        *)
(* predecessors it does not know, and that of a member that gave the role  *)
(* away for its response as long as the addressee has no id                *)
(* (send_cyclic_offer, request_unknown_predecessors and                    *)
(* send_cyclic_response), whatever is lost and however late the handlers   *)
(* run, in one group in which no late request is received.                 *)
(***************************************************************************)
THEOREM RoleIsKept ==
    ASSUME SomebodyToAgreeWith, OneService
    PROVE  FreshSpec => []RoleGoesOn
<1>1. ASSUME DutyInv PROVE RoleGoesOn
  <2> SUFFICES ASSUME NEW s \in Services
               PROVE  /\ \A m \in Sponsors(s) :
                            Pending(member[m]) \cap {"offer", "predecessors"} # {}
                      /\ \A msg \in Unanswered(s) : "response" \in Pending(member[msg.from])
    BY DEF RoleGoesOn
  <2>1. ASSUME NEW m \in Sponsors(s)
        PROVE  Pending(member[m]) \cap {"offer", "predecessors"} # {}
    <3>1. m \in Members /\ member[m].is_sponsor
      BY DEF Sponsors
    <3>2. Looks(member[m])
      BY <1>1, <3>1, DutyFacts DEF SignsOK, GoesOn
    <3> QED
      BY <3>2 DEF Looks, Asks
  <2>2. ASSUME NEW msg \in Unanswered(s)
        PROVE  "response" \in Pending(member[msg.from])
    <3>1. PICK m \in Members : msg \in member[m].response_message_cache
      BY DEF Unanswered, Given
    <3>2. msg.from = m
      BY <1>1, <3>1, DutyFacts, MemberFacts DEF MemberOK, CacheOK
    <3>3. ~ GaveOver(member, member[m])
      BY <3>1 DEF GaveOver, Unanswered
    <3>4. Asks(member[m], "response")
      BY <1>1, <3>3, DutyFacts DEF SignsOK, GoesOn
    <3> QED
      BY <3>2, <3>4 DEF Asks
  <2> QED
    BY <2>1, <2>2
<1>2. FreshSpec => []DutyInv
  BY DutyTells DEF OneGroup
<1> QED
  BY <1>1, <1>2, PTL

\* In a silent group nobody has anything left to repeat.
LEMMA SilentFree ==
    ASSUME OneGroup, DutyInv, NEW s \in Services, member[founder[s]].status = "running",
           Silent(s), NEW m \in Members
    PROVE  Free(m, member[m]) /\ ~ member[m].timeout_wait
<1>1. /\ Service(m) = s
      /\ IsFounder(m) => m = founder[s]
  BY ServiceTypes DEF OneGroup, OneService, IsFounder
<1>2. DutyOK(m, member[m]) /\ SignsOK(member, m, member[m])
  BY DutyFacts
<1>3. member[m].status = "running" =>
          Pending(member[m]) = {"none"} /\ ~ member[m].timeout_wait
  BY <1>1 DEF Silent
<1>4. ~ member[m].timeout_wait
  BY <1>1, <1>2, <1>3 DEF DutyOK
<1>5. CASE member[m].status = "running"
  <2>1. \A h \in Watched : ~ Asks(member[m], h)
    BY <1>3, <1>5 DEF Asks, Watched, Cyclic
  <2>2. /\ ~ Asks(member[m], "offer")
        /\ ~ Asks(member[m], "predecessors")
        /\ ~ Asks(member[m], "response")
        /\ ~ Asks(member[m], "successors")
        /\ ~ Asks(member[m], "token")
        /\ ~ Asks(member[m], "finish")
    BY <2>1 DEF Watched, Cyclic
  <2>3. Free(m, member[m])
    BY <1>2, <2>2 DEF SignsOK, GoesOn, Looks, Free
  <2> QED
    BY <1>4, <2>3
<1>6. CASE ~ IsAssigned(member[m])
  BY <1>4, <1>6, FreeUnassigned
<1>7. CASE member[m].status = "stopped"
  <2>1. LastHasToken(member) /\ FounderHeard(member, m, member[m])
    BY <1>2, <1>7 DEF SignsOK, SignsRight, GoesOn
  <2> QED
    BY <1>4, <2>1, FreeAtEnd
<1> QED
  BY <1>1, <1>2, <1>5, <1>6, <1>7 DEF DutyOK

(***************************************************************************)
(* SilentOnlyWhenTokenStuck: the handlers of scatter_timer_ go on with     *)
(* what nobody heard, as long as the founder runs, but for                 *)
(* send_cyclic_member_info_synch_request, in which the member that has the *)
(* token asks its successors.  Whoever has nothing to repeat gave its role *)
(* over, and its token was received; so when no timer is armed there is a  *)
(* last member, the token is with a member that knows all its successors,  *)
(* and none of them will answer it.  That holds on any network, with any   *)
(* handlers queued, in one group in which no late request is received.     *)
(***************************************************************************)
THEOREM SilentOnlyWhenStuck ==
    ASSUME SomebodyToAgreeWith, OneService
    PROVE  FreshSpec => []SilentOnlyWhenTokenStuck
<1>1. ASSUME DutyInv PROVE SilentOnlyWhenTokenStuck
  <2> SUFFICES ASSUME NEW s \in Services, member[founder[s]].status = "running", Silent(s)
               PROVE  \E p \in Assigned(s) : TokenStuck(p)
    BY DEF SilentOnlyWhenTokenStuck
  <2>1. /\ \A m \in Members : Service(m) = s
        /\ IInv
        /\ founder[s] \in Members
        /\ IsFounder(founder[s])
        /\ \A m \in Members : founder[Service(m)] = founder[s]
        /\ member_count[s] \in Nat \ {0}
    BY <1>1, ServiceTypes DEF OneService, DutyInv, TokenInv, KnowInv
  <2>2. \A m \in Members : Free(m, member[m]) /\ ~ member[m].timeout_wait
    BY <1>1, SilentFree DEF OneGroup
  <2>3. HasLast(member)
    <3>1. BatonSomewhere(member, s)
      BY <2>1 DEF IInv, Inv, BatonOK
    <3>2. \A m \in Members : ~ IsSponsor(member, s, m)
      BY <2>2 DEF IsSponsor, Free
    <3>3. ASSUME NEW x \in History(member) PROVE ~ OnItsWay(member, s, x)
      <4>1. PICK m \in Members : x \in member[m].response_message_cache
        BY <3>3 DEF History
      <4>2. IsAssigned(member[x.new_sponsor])
        BY <2>2, <4>1 DEF Free, GaveOver
      <4> QED
        BY <4>2 DEF OnItsWay
    <3>4. PICK l \in Members : IsLast(member, s, l)
      BY <3>1, <3>2, <3>3 DEF BatonSomewhere
    <3>5. IsLastMember(l, member[l])
      BY <2>1, <3>4 DEF IsLast, IsLastMember, IsAssigned, DEFAULT_MEMBER_ID
    <3> QED
      BY <3>5 DEF HasLast
  <2>4. PICK p \in Members : TokenAt(member, p)
    BY <1>1, <2>3 DEF DutyInv, Duties
  <2>5. ~ (IsLastMember(p, member[p]) /\ member[p].synch_token_rcvd)
    <3> SUFFICES ASSUME IsLastMember(p, member[p]), member[p].synch_token_rcvd
                 PROVE  FALSE
      OBVIOUS
    <3>1. member[founder[s]].finish_message_rcvd
      BY <2>1, <2>2 DEF Free, FounderHeard
    <3>2. ~ member[founder[s]].timeout_wait
      BY <2>1, <2>2
    <3> QED
      BY <1>1, <2>1, <3>1, <3>2, DutyFacts DEF DutyOK
  <2>6. member[p].synch_finished => HeardBy(member, p, member[p])
    BY <2>2, <2>5 DEF Free, TokenHeard
  <2>7. Holds(member[p])
    BY <2>4, <2>5, <2>6 DEF TokenAt
  <2>8. IsAssigned(member[p])
    BY <1>1, <2>7, NoFlags DEF Holds, DutyInv
  <2>9. p \in Assigned(s) /\ TokenStuck(p)
    BY <2>1, <2>2, <2>7, <2>8 DEF Assigned, TokenStuck, Free, Holds
  <2> QED
    BY <2>9
<1>2. FreshSpec => []DutyInv
  BY DutyTells DEF OneGroup
<1> QED
  BY <1>1, <1>2, PTL
=============================================================================
