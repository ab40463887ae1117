-------------------------- MODULE StrDhOrderProofs --------------------------
(***************************************************************************)
(* Proofs about StrDh where all members receive all messages in one order  *)
(* and none twice (InOrder, MaxDuplicates = 0), for any number of members  *)
(* and groups, launched in any order: what the members believe of each     *)
(* other is right and complete enough that the role is never handed to a   *)
(* member with an id nor to one too many, and StrDh implements             *)
(* GroupKeyAgreement.                                                      *)
(***************************************************************************)
EXTENDS StrDhProofs

Known(m, self, e) == e = m \/ e \in DOMAIN self.assigned_endpoints

\* m knows the two members that the response msg speaks of.
KnowsBoth(m, self, msg) == Known(m, self, msg.new_sponsor) /\ Known(m, self, msg.from)

\* The two maps of a member are the inverse of each other, and of others.
MapsOK(m, self) ==
    /\ m \notin DOMAIN self.assigned_endpoints
    /\ \A id \in DOMAIN self.assigned_keys :
          /\ self.assigned_keys[id] \in DOMAIN self.assigned_endpoints
          /\ self.assigned_endpoints[self.assigned_keys[id]] = id
    /\ \A e \in DOMAIN self.assigned_endpoints :
          /\ self.assigned_endpoints[e] \in DOMAIN self.assigned_keys
          /\ self.assigned_keys[self.assigned_endpoints[e]] = e

FounderAssigned(m, self) ==
    IsFounder(m) /\ self.status # "down" => IsAssigned(self)

IsRequest(l, i, e) == i \in DOMAIN l /\ l[i].type = "request" /\ l[i].from = e

\* A request is pending only if it was sent, by another member.
PendingOK(l, m, self) ==
    \A e \in self.pending_requests : e # m /\ \E i \in DOMAIN l : IsRequest(l, i, e)

OrderedMemberOK(l, m, self) ==
    MapsOK(m, self) /\ FounderAssigned(m, self) /\ PendingOK(l, m, self)

\* What a member took, or missed before its launch, is an initial part.
TakenFirst(l, tk) ==
    \A m \in Members : \A i \in tk[m] : \A j \in 1 .. i - 1 :
        j \in tk[m] \/ l[j].from = m

OfferFirst(l) ==
    \A s \in Services : \A i, j \in DOMAIN l :
        l[i].type = "offer" /\ l[i].service = s /\ IsResponse(l, s, j) => i < j

\* Who requested is not a founder, and has missed no response of its group.
RequesterInformed(l, tk, mem) ==
    \A m \in Members, i \in DOMAIN l :
        IsRequest(l, i, m) =>
            /\ ~ IsFounder(m)
            /\ mem[m].status # "down"
            /\ \A j \in DOMAIN l :
                  IsResponse(l, Service(m), j) /\ (j \in tk[m] \/ l[j].from = m)
                  => KnowsBoth(m, mem[m], l[j])

(***************************************************************************)
(* The responses of a group: each is for another member that requested,    *)
(* they give the ids from 2 on, a sponsor knows them all and has the last  *)
(* id, and the one whose addressee did not take it yet is the last.        *)
(***************************************************************************)
ResponsesOf(l, s) == {i \in DOMAIN l : IsResponse(l, s, i)}

LastId(l, s) == Cardinality(ResponsesOf(l, s)) + 1

Requested(l, s) ==
    \A j \in ResponsesOf(l, s) : \E i \in DOMAIN l : IsRequest(l, i, l[j].new_sponsor)

OncePerMember(l, s) ==
    \A i, j \in ResponsesOf(l, s) : l[i].new_sponsor = l[j].new_sponsor => i = j

IdsConsecutive(l, s) ==
    /\ \A i \in ResponsesOf(l, s) : l[i].assigned_id \in 2 .. LastId(l, s)
    /\ \A id \in 2 .. LastId(l, s) : \E i \in ResponsesOf(l, s) : l[i].assigned_id = id

SponsorInformed(l, mem, s) ==
    \A m \in Members : IsSponsor(mem, s, m) =>
        /\ mem[m].member_id = LastId(l, s)
        /\ \A j \in ResponsesOf(l, s) : KnowsBoth(m, mem[m], l[j])

TransitLast(l, mem, s) ==
    \A i \in ResponsesOf(l, s) : ~ IsAssigned(mem[l[i].new_sponsor]) =>
        \A j \in ResponsesOf(l, s) : j <= i

GroupOK(l, mem, s) ==
    /\ Requested(l, s)
    /\ OncePerMember(l, s)
    /\ IdsConsecutive(l, s)
    /\ SponsorInformed(l, mem, s)
    /\ TransitLast(l, mem, s)

Ordered(l, tk, mem) ==
    /\ tk \in [Members -> SUBSET (DOMAIN l)]
    /\ \A m \in Members : OrderedMemberOK(l, m, mem[m])
    /\ TakenFirst(l, tk)
    /\ OfferFirst(l)
    /\ RequesterInformed(l, tk, mem)
    /\ \A s \in Services : GroupOK(l, mem, s)

OInv(l, tk, mem) == Inv(l, mem) /\ Ordered(l, tk, mem)

OrderedInv == OInv(log, taken, member)

\* A running sponsor could still give one more id.
RoomLeft(m, self) ==
    self.is_sponsor /\ self.status = "running" => self.member_id < member_count[Service(m)]

\* No response gives an id beyond the group.
SizeOK(l, mem) ==
    /\ \A s \in Services : \A i \in ResponsesOf(l, s) :
          l[i].assigned_id <= member_count[s]
    /\ \A m \in Members : RoomLeft(m, mem[m])

SizeInv == OrderedInv /\ SizeOK(log, member)

-----------------------------------------------------------------------------
(***************************************************************************)
(* What the parts of process_response leave in the maps.                   *)
(***************************************************************************)
LEMMA NoteEffect ==
    ASSUME NEW l, LogOK(l), NEW m \in Members, NEW self, MemberOK(l, m, self),
           MapsOK(m, self),
           NEW e \in Members, NEW id \in MemberIds, Gives(l, Service(m), id, e)
    PROVE  LET new == Note(m, self, e, id)
           IN  /\ MapsOK(m, new)
               /\ Known(m, new, e)
               /\ DOMAIN self.assigned_endpoints \subseteq DOMAIN new.assigned_endpoints
               /\ new.pending_requests = self.pending_requests
               /\ new.group_secret = self.group_secret
<1>1. CASE e = m \/ e \in DOMAIN self.assigned_endpoints
  BY <1>1 DEF Note, Known
<1>2. CASE ~ (e = m \/ e \in DOMAIN self.assigned_endpoints)
  <2> DEFINE keys == Put(self.assigned_keys, id, e)
             ends == Put(self.assigned_endpoints, e, id)
             new == Note(m, self, e, id)
  <2>1. /\ new.assigned_keys = keys
        /\ new.assigned_endpoints = ends
        /\ new.pending_requests = self.pending_requests
        /\ new.group_secret = self.group_secret
    BY <1>2 DEF Note, MemberOK, MemberState, MemberRecords
  <2>2. id \notin DOMAIN self.assigned_keys
    <3> SUFFICES ASSUME id \in DOMAIN self.assigned_keys PROVE FALSE
      OBVIOUS
    <3>1. Gives(l, Service(m), id, self.assigned_keys[id]) /\ Service(m) \in Services
      BY ConfigurationAssumption DEF MemberOK, KeysOK, Service
    <3>2. self.assigned_keys[id] = e
      BY <3>1, GivesUnique
    <3> QED
      BY <1>2, <3>2 DEF MapsOK
  <2>3. /\ DOMAIN keys = DOMAIN self.assigned_keys \cup {id}
        /\ \A x \in DOMAIN keys : keys[x] = IF x = id THEN e ELSE self.assigned_keys[x]
        /\ DOMAIN ends = DOMAIN self.assigned_endpoints \cup {e}
        /\ \A x \in DOMAIN ends :
              ends[x] = IF x = e THEN id ELSE self.assigned_endpoints[x]
    BY DEF Put
  <2> HIDE DEF keys, ends, new
  <2>4. MapsOK(m, new)
    BY <1>2, <2>1, <2>2, <2>3 DEF MapsOK
  <2> QED
    BY <2>1, <2>3, <2>4 DEF Known, new
<1> QED
  BY <1>1, <1>2

LEMMA LearnEffect ==
    ASSUME NEW l, LogOK(l), NEW m \in Members, NEW self, MemberOK(l, m, self),
           MapsOK(m, self), NEW i \in DOMAIN l, IsResponse(l, Service(m), i)
    PROVE  LET new == Learn(m, self, l[i])
           IN  /\ MapsOK(m, new)
               /\ KnowsBoth(m, new, l[i])
               /\ DOMAIN self.assigned_endpoints \subseteq DOMAIN new.assigned_endpoints
               /\ new.pending_requests \subseteq self.pending_requests
               /\ new.group_secret = self.group_secret
<1> DEFINE msg == l[i]
           new == Note(m, self, msg.new_sponsor, msg.assigned_id)
           old == Note(m, new, msg.from, msg.assigned_id - 1)
           learnt == [old EXCEPT !.pending_requests = @ \ {msg.new_sponsor, msg.from}]
<1>1. /\ msg.new_sponsor \in Members
      /\ msg.from \in Members
      /\ msg.assigned_id \in MemberIds
      /\ MessageOK(l, msg)
      /\ msg.service = Service(m)
      /\ msg.type = "response"
  BY DEF LogOK, IsResponse, Messages
<1>2. /\ msg.assigned_id - 1 \in MemberIds
      /\ Gives(l, Service(m), msg.assigned_id, msg.new_sponsor)
      /\ Gives(l, Service(m), msg.assigned_id - 1, msg.from)
  BY <1>1 DEF MessageOK, MemberIds, DEFAULT_MEMBER_ID, Gives
<1>3. Learn(m, self, l[i]) = learnt
  BY DEF Learn
<1> HIDE DEF msg
<1>4. /\ MemberOK(l, m, new)
      /\ MapsOK(m, new)
      /\ Known(m, new, msg.new_sponsor)
      /\ DOMAIN self.assigned_endpoints \subseteq DOMAIN new.assigned_endpoints
      /\ new.pending_requests = self.pending_requests
      /\ new.group_secret = self.group_secret
  BY <1>1, <1>2, NoteOK, NoteEffect
<1> HIDE DEF new
<1>5. /\ MemberOK(l, m, old)
      /\ MapsOK(m, old)
      /\ Known(m, old, msg.from)
      /\ DOMAIN new.assigned_endpoints \subseteq DOMAIN old.assigned_endpoints
      /\ old.pending_requests = new.pending_requests
      /\ old.group_secret = new.group_secret
  BY <1>1, <1>2, <1>4, NoteOK, NoteEffect
<1> HIDE DEF old
<1>6. /\ learnt.assigned_keys = old.assigned_keys
      /\ learnt.assigned_endpoints = old.assigned_endpoints
      /\ learnt.pending_requests \subseteq old.pending_requests
      /\ learnt.group_secret = old.group_secret
  BY <1>5 DEF MemberOK, MemberState, MemberRecords
<1> HIDE DEF learnt
<1> QED
  BY <1>3, <1>4, <1>5, <1>6 DEF KnowsBoth, Known, MapsOK, msg

-----------------------------------------------------------------------------
(***************************************************************************)
(* The parts of a handler on the whole state.                              *)
(***************************************************************************)

\* A change of one member that leaves its id and role alone and forgets
\* nobody keeps the invariant.
LEMMA OrderedLocal ==
    ASSUME NEW l, NEW tk, NEW mem, OInv(l, tk, mem), NEW m \in Members, NEW self,
           MemberOK(l, m, self),
           OrderedMemberOK(l, m, self),
           self.is_sponsor = mem[m].is_sponsor,
           self.member_id = mem[m].member_id,
           self.status = "down" => mem[m].status = "down",
           DOMAIN mem[m].assigned_endpoints \subseteq DOMAIN self.assigned_endpoints
    PROVE  OInv(l, tk, [mem EXCEPT ![m] = self])
<1> DEFINE next == [mem EXCEPT ![m] = self]
<1>1. Inv(l, next)
  BY LocalChange DEF OInv, Ordered
<1>2. next[m] = self /\ \A n \in Members \ {m} : next[n] = mem[n]
  BY DEF OInv, Ordered, Inv
<1> HIDE DEF next
<1>3. \A n \in Members : OrderedMemberOK(l, n, next[n])
  BY <1>2 DEF OInv, Ordered
<1>4. \A n \in Members :
         /\ next[n].is_sponsor = mem[n].is_sponsor
         /\ next[n].member_id = mem[n].member_id
         /\ next[n].status = "down" => mem[n].status = "down"
         /\ \A msg : KnowsBoth(n, mem[n], msg) => KnowsBoth(n, next[n], msg)
  BY <1>2 DEF KnowsBoth, Known
<1>5. RequesterInformed(l, tk, next)
  BY <1>4 DEF OInv, Ordered, RequesterInformed
<1>6. ASSUME NEW s \in Services PROVE GroupOK(l, next, s)
  <2>1. GroupOK(l, mem, s) /\ LogOK(l)
    BY DEF OInv, Ordered, Inv
  <2>2. SponsorInformed(l, next, s)
    BY <1>4, <2>1 DEF GroupOK, SponsorInformed, IsSponsor
  <2>3. \A i \in ResponsesOf(l, s) : l[i].new_sponsor \in Members
    BY <2>1 DEF LogOK, ResponsesOf, IsResponse, Messages
  <2>4. TransitLast(l, next, s)
    BY <1>4, <2>1, <2>3 DEF GroupOK, TransitLast, IsAssigned
  <2> QED
    BY <2>1, <2>2, <2>4 DEF GroupOK
<1>7. OInv(l, tk, next)
  BY <1>1, <1>3, <1>5, <1>6 DEF OInv, Ordered
<1> QED
  BY <1>7 DEF next

\* The same for a part that changes no maps.
LEMMA OrderedSettled ==
    ASSUME NEW l, NEW tk, NEW mem, OInv(l, tk, mem), NEW m \in Members, NEW self,
           MemberOK(l, m, self),
           Settled(mem[m], self),
           self.status = "down" => mem[m].status = "down",
           mem[m].status = "down" => self.status = "down"
    PROVE  OInv(l, tk, [mem EXCEPT ![m] = self])
<1>1. OrderedMemberOK(l, m, mem[m])
  BY DEF OInv, Ordered
<1>2. OrderedMemberOK(l, m, self)
  BY <1>1 DEF OrderedMemberOK, Settled, MapsOK, FounderAssigned, PendingOK, IsAssigned
<1> QED
  BY <1>2, OrderedLocal DEF Settled

\* m takes the message i, all before it being taken, and knows what it says.
LEMMA OrderedTake ==
    ASSUME NEW l, NEW tk, NEW mem, OInv(l, tk, mem), NEW m \in Members,
           NEW i \in DOMAIN l,
           \A j \in 1 .. i - 1 : j \in tk[m] \/ l[j].from = m,
           IsResponse(l, Service(m), i) => KnowsBoth(m, mem[m], l[i])
    PROVE  OInv(l, [tk EXCEPT ![m] = @ \cup {i}], mem)
<1> DEFINE next == [tk EXCEPT ![m] = @ \cup {i}]
<1>1. /\ next \in [Members -> SUBSET (DOMAIN l)]
      /\ next[m] = tk[m] \cup {i}
      /\ \A n \in Members \ {m} : next[n] = tk[n]
  BY DEF OInv, Ordered
<1> HIDE DEF next
<1>2. TakenFirst(l, next)
  BY <1>1 DEF OInv, Ordered, TakenFirst
<1>3. RequesterInformed(l, next, mem)
  BY <1>1 DEF OInv, Ordered, RequesterInformed
<1>4. OInv(l, next, mem)
  BY <1>1, <1>2, <1>3 DEF OInv, Ordered
<1> QED
  BY <1>4 DEF next

\* There are finitely many responses.
LEMMA ResponsesFinite ==
    ASSUME NEW l \in Seq(Messages), NEW s
    PROVE  /\ IsFiniteSet(ResponsesOf(l, s))
           /\ LastId(l, s) \in Nat \ {0}
<1>1. IsFiniteSet(1 .. Len(l)) /\ ResponsesOf(l, s) \subseteq 1 .. Len(l)
  BY FS_Interval DEF ResponsesOf
<1>2. IsFiniteSet(ResponsesOf(l, s))
  BY <1>1, FS_Subset
<1> QED
  BY <1>2, FS_CardinalityType DEF LastId

\* Where the id of the response in transit is: the last one.
LEMMA TransitId ==
    ASSUME NEW l, NEW tk, NEW mem, OInv(l, tk, mem), NEW s \in Services,
           NEW i \in ResponsesOf(l, s), ~ IsAssigned(mem[l[i].new_sponsor])
    PROVE  l[i].assigned_id = LastId(l, s)
<1>1. LogOK(l) /\ TransitHighest(l, mem, s) /\ IdsConsecutive(l, s)
  BY DEF OInv, Ordered, Inv, BatonOK, GroupOK
<1>2. \A j \in ResponsesOf(l, s) :
         l[j].assigned_id <= l[i].assigned_id /\ l[j].assigned_id \in Nat
  BY <1>1 DEF TransitHighest, ResponsesOf, LogOK, IsResponse, Messages, MemberIds
<1>3. LastId(l, s) \in Nat
  BY <1>1, ResponsesFinite DEF LogOK
<1>4. l[i].assigned_id \in 2 .. LastId(l, s)
  BY <1>1 DEF IdsConsecutive
<1>5. PICK j \in ResponsesOf(l, s) : l[j].assigned_id = LastId(l, s)
  BY <1>1, <1>3, <1>4 DEF IdsConsecutive
<1> QED
  BY <1>2, <1>3, <1>4, <1>5

\* The addressee, knowing all responses, becomes the informed sponsor.
LEMMA OrderedTakeOver ==
    ASSUME NEW l, NEW tk, NEW mem, OInv(l, tk, mem), NEW m \in Members,
           mem[m].status = "running", ~ IsAssigned(mem[m]),
           NEW i \in DOMAIN l, IsResponse(l, Service(m), i), l[i].new_sponsor = m,
           \A j \in 1 .. i : j \in tk[m] \/ l[j].from = m
    PROVE  OInv(l, tk, [mem EXCEPT ![m] = TakeOver(m, mem[m], l[i])])
<1> DEFINE S == Service(m)
           self == TakeOver(m, mem[m], l[i])
           next == [mem EXCEPT ![m] = self]
<1>0. Inv(l, mem)
  BY DEF OInv, Ordered
<1>1. /\ Inv(l, next)
      /\ LogOK(l)
      /\ MemberOK(l, m, mem[m])
      /\ S \in Services
  <2>1. Inv(l, next)
    BY <1>0, TakeOverInv
  <2>2. LogOK(l) /\ MemberOK(l, m, mem[m])
    BY <1>0 DEF Inv
  <2> QED
    BY <2>1, <2>2, ConfigurationAssumption DEF Service
<1>2. next[m] = self /\ \A n \in Members \ {m} : next[n] = mem[n]
  BY DEF OInv, Ordered, Inv
<1>3. /\ self.status = "running"
      /\ self.member_id = l[i].assigned_id
      /\ self.assigned_keys = mem[m].assigned_keys
      /\ self.assigned_endpoints = mem[m].assigned_endpoints
      /\ self.pending_requests = mem[m].pending_requests
  BY <1>1, TakeOverEffect
<1>4. /\ i \in ResponsesOf(l, S)
      /\ l[i].assigned_id # DEFAULT_MEMBER_ID
  BY <1>1 DEF ResponsesOf, LogOK, IsResponse, Messages, MemberIds
<1>5. IsAssigned(self)
  BY <1>3, <1>4 DEF IsAssigned
<1> HIDE DEF next, self
<1>6. \A n \in Members : OrderedMemberOK(l, n, next[n])
  <2>1. OrderedMemberOK(l, m, mem[m])
    BY DEF OInv, Ordered
  <2>2. OrderedMemberOK(l, m, self)
    BY <1>3, <1>5, <2>1 DEF OrderedMemberOK, MapsOK, FounderAssigned, PendingOK
  <2> QED
    BY <1>2, <2>2 DEF OInv, Ordered
<1>7. \A n \in Members : \A msg : KnowsBoth(n, mem[n], msg) => KnowsBoth(n, next[n], msg)
  BY <1>2, <1>3 DEF KnowsBoth, Known
<1>8. RequesterInformed(l, tk, next)
  BY <1>2, <1>3, <1>7 DEF OInv, Ordered, RequesterInformed
<1>9. ASSUME NEW s \in Services PROVE GroupOK(l, next, s)
  <2>1. GroupOK(l, mem, s)
    BY DEF OInv, Ordered
  <2>2. \A n \in Members :
           /\ IsAssigned(mem[n]) => IsAssigned(next[n])
           /\ n # m \/ s # S => (IsSponsor(next, s, n) => IsSponsor(mem, s, n))
           /\ n # m => next[n].member_id = mem[n].member_id
    BY <1>2, <1>5 DEF IsSponsor
  <2>3. \A j \in ResponsesOf(l, s) : l[j].new_sponsor \in Members
    BY <1>1 DEF LogOK, ResponsesOf, IsResponse, Messages
  <2>4. TransitLast(l, next, s)
    BY <2>1, <2>2, <2>3 DEF GroupOK, TransitLast
  <2>5. ASSUME NEW n \in Members, IsSponsor(next, s, n)
        PROVE  /\ next[n].member_id = LastId(l, s)
               /\ \A j \in ResponsesOf(l, s) : KnowsBoth(n, next[n], l[j])
    <3>1. CASE n # m \/ s # S
      <4>1. IsSponsor(mem, s, n)
        BY <2>2, <2>5, <3>1
      <4>2. n # m
        BY <2>5, <3>1 DEF IsSponsor
      <4> QED
        BY <1>7, <2>1, <2>2, <4>1, <4>2 DEF GroupOK, SponsorInformed
    <3>2. CASE n = m /\ s = S
      <4>1. next[n].member_id = LastId(l, s)
        BY <1>2, <1>3, <1>4, <3>2, TransitId
      <4>2. PICK r \in DOMAIN l : IsRequest(l, r, m)
        BY <1>4, <2>1, <3>2 DEF GroupOK, Requested
      <4>3. ASSUME NEW j \in ResponsesOf(l, s) PROVE KnowsBoth(n, next[n], l[j])
        <5>1. j <= i /\ j \in DOMAIN l
          BY <1>4, <2>1, <3>2 DEF GroupOK, TransitLast, ResponsesOf
        <5>2. j \in tk[m] \/ l[j].from = m
          BY <1>1, <5>1 DEF LogOK
        <5>3. KnowsBoth(m, mem[m], l[j])
          BY <3>2, <4>2, <5>1, <5>2 DEF OInv, Ordered, RequesterInformed, ResponsesOf
        <5> QED
          BY <1>7, <3>2, <5>3
      <4> QED
        BY <4>1, <4>3
    <3> QED
      BY <3>1, <3>2
  <2> QED
    BY <2>1, <2>4, <2>5 DEF GroupOK, SponsorInformed
<1>10. OInv(l, tk, next)
  BY <1>1, <1>6, <1>8, <1>9 DEF OInv, Ordered
<1> QED
  BY <1>10 DEF next, self

\* Who sent a response has an id.
LEMMA ResponderAssigned ==
    ASSUME NEW l, NEW tk, NEW mem, OInv(l, tk, mem), NEW s \in Services,
           NEW j \in ResponsesOf(l, s)
    PROVE  IsAssigned(mem[l[j].from])
<1>1. /\ LogOK(l)
      /\ j \in DOMAIN l
      /\ IsResponse(l, s, j)
      /\ MessageOK(l, l[j])
      /\ l[j].assigned_id \in Nat
      /\ Gives(l, s, l[j].assigned_id - 1, l[j].from)
  BY DEF OInv, Inv, ResponsesOf, IsResponse, LogOK, MessageOK, Messages, MemberIds
<1>2. CASE l[j].from = founder[s]
  <2>1. founder[s] \in Members /\ IsFounder(founder[s])
    BY ConfigurationAssumption DEF IsFounder, Service
  <2>2. mem[founder[s]].status # "down"
    BY <1>1 DEF OInv, Inv, BatonOK, FounderFirst
  <2> QED
    BY <1>2, <2>1, <2>2 DEF OInv, Ordered, OrderedMemberOK, FounderAssigned
<1>3. ASSUME NEW i \in DOMAIN l, IsResponse(l, s, i),
             l[i].assigned_id = l[j].assigned_id - 1, l[i].new_sponsor = l[j].from
      PROVE  IsAssigned(mem[l[j].from])
  <2>1. TransitHighest(l, mem, s)
    BY DEF OInv, Inv, BatonOK
  <2> QED
    BY <1>1, <1>3, <2>1 DEF TransitHighest
<1> QED
  BY <1>1, <1>2, <1>3 DEF Gives

\* Sending an offer or a request keeps the invariant: the offer is before
\* all responses, and who requests has missed none.
LEMMA OrderedQuietAppend ==
    ASSUME NEW l \in Seq(Messages), NEW tk, NEW mem, Ordered(l, tk, mem),
           NEW msg \in Messages,
           \/ /\ msg.type = "offer"
              /\ ResponsesOf(l, msg.service) = {}
           \/ /\ msg.type = "request"
              /\ ~ IsFounder(msg.from)
              /\ mem[msg.from].status # "down"
              /\ \A j \in ResponsesOf(l, Service(msg.from)) :
                    j \notin tk[msg.from] /\ l[j].from # msg.from
    PROVE  Ordered(Append(l, msg), tk, mem)
<1> DEFINE k == Append(l, msg)
<1>1. /\ k \in Seq(Messages)
      /\ DOMAIN k = DOMAIN l \cup {Len(l) + 1}
      /\ k[Len(l) + 1] = msg
      /\ \A i \in DOMAIN l : k[i] = l[i] /\ i \in Nat /\ i < Len(l) + 1
      /\ Len(l) + 1 \notin DOMAIN l
      /\ DOMAIN l = 1 .. Len(l)
      /\ Len(l) \in Nat
  OBVIOUS
<1> HIDE DEF k
<1>2. \A s, i : IsResponse(k, s, i) <=> IsResponse(l, s, i)
  BY <1>1 DEF IsResponse
<1>3. \A s : ResponsesOf(k, s) = ResponsesOf(l, s) /\ ResponsesOf(l, s) \subseteq DOMAIN l
  <2> TAKE s
  <2>1. \A i : /\ i \in ResponsesOf(k, s) <=> IsResponse(k, s, i)
               /\ i \in ResponsesOf(l, s) <=> IsResponse(l, s, i)
               /\ IsResponse(l, s, i) => i \in DOMAIN l
    BY DEF ResponsesOf, IsResponse
  <2> QED
    BY <1>2, <2>1
<1>4. \A s : LastId(k, s) = LastId(l, s)
  BY <1>3 DEF LastId
<1>5. \A i, e : IsRequest(l, i, e) => IsRequest(k, i, e)
  BY <1>1 DEF IsRequest
<1>6. tk \in [Members -> SUBSET (DOMAIN k)]
  BY <1>1 DEF Ordered
<1>7. \A m \in Members : OrderedMemberOK(k, m, mem[m])
  BY <1>1, <1>5 DEF Ordered, OrderedMemberOK, PendingOK
<1>8. TakenFirst(k, tk)
  <2> SUFFICES ASSUME NEW m \in Members, NEW i \in tk[m], NEW j \in 1 .. i - 1
               PROVE  j \in tk[m] \/ k[j].from = m
    BY DEF TakenFirst
  <2>1. i \in DOMAIN l /\ (j \in tk[m] \/ l[j].from = m)
    BY DEF Ordered, TakenFirst
  <2>2. j \in DOMAIN l
    BY <1>1, <2>1
  <2> QED
    BY <1>1, <2>1, <2>2
<1>9. OfferFirst(k)
  <2> SUFFICES ASSUME NEW s \in Services, NEW i \in DOMAIN k, NEW j \in DOMAIN k,
                      k[i].type = "offer", k[i].service = s, IsResponse(k, s, j)
               PROVE  i < j
    BY DEF OfferFirst
  <2>1. IsResponse(l, s, j) /\ j \in DOMAIN l /\ j \in ResponsesOf(l, s)
    BY <1>2 DEF IsResponse, ResponsesOf
  <2>2. i \in DOMAIN l
    BY <1>1, <2>1
  <2> QED
    BY <1>1, <2>1, <2>2 DEF Ordered, OfferFirst
<1>10. RequesterInformed(k, tk, mem)
  <2> SUFFICES ASSUME NEW m \in Members, NEW i \in DOMAIN k, IsRequest(k, i, m)
               PROVE  /\ ~ IsFounder(m)
                      /\ mem[m].status # "down"
                      /\ \A j \in DOMAIN k :
                            /\ IsResponse(k, Service(m), j)
                            /\ j \in tk[m] \/ k[j].from = m
                            => KnowsBoth(m, mem[m], k[j])
    BY DEF RequesterInformed
  <2>1. CASE i \in DOMAIN l
    <3>1. IsRequest(l, i, m)
      BY <1>1, <2>1 DEF IsRequest
    <3> QED
      BY <1>1, <1>2, <2>1, <3>1 DEF Ordered, RequesterInformed, IsResponse
  <2>2. CASE i = Len(l) + 1
    <3>1. msg.type = "request" /\ msg.from = m
      BY <1>1, <2>2 DEF IsRequest
    <3>2. \A j : IsResponse(k, Service(m), j) =>
             j \notin tk[m] /\ k[j].from # m
      BY <1>1, <1>2, <3>1 DEF ResponsesOf, IsResponse
    <3> QED
      BY <3>1, <3>2
  <2> QED
    BY <1>1, <2>1, <2>2
<1>11. ASSUME NEW s \in Services PROVE GroupOK(k, mem, s)
  <2>1. /\ GroupOK(l, mem, s)
        /\ ResponsesOf(k, s) = ResponsesOf(l, s)
        /\ LastId(k, s) = LastId(l, s)
        /\ \A i \in ResponsesOf(l, s) : k[i] = l[i]
    BY <1>1, <1>3, <1>4 DEF Ordered
  <2>2. Requested(k, s)
    BY <1>1, <1>5, <2>1 DEF GroupOK, Requested
  <2>3. OncePerMember(k, s) /\ IdsConsecutive(k, s)
    BY <2>1 DEF GroupOK, OncePerMember, IdsConsecutive
  <2>4. SponsorInformed(k, mem, s) /\ TransitLast(k, mem, s)
    BY <2>1 DEF GroupOK, SponsorInformed, TransitLast
  <2> QED
    BY <2>2, <2>3, <2>4 DEF GroupOK
<1>12. Ordered(k, tk, mem)
  BY <1>6, <1>7, <1>8, <1>9, <1>10, <1>11 DEF Ordered
<1> QED
  BY <1>12 DEF k

\* Who is about to take an offer has missed no response of the group.
LEMMA NothingMissed ==
    ASSUME NEW l, NEW tk, NEW mem, OInv(l, tk, mem), NEW m \in Members,
           ~ IsAssigned(mem[m]),
           NEW i \in DOMAIN l, l[i].type = "offer", l[i].service = Service(m),
           i \notin tk[m], l[i].from # m,
           NEW j \in ResponsesOf(l, Service(m))
    PROVE  j \notin tk[m] /\ l[j].from # m
<1>1. Service(m) \in Services /\ l \in Seq(Messages)
  BY ConfigurationAssumption DEF Service, OInv, Inv, LogOK
<1>2. l[j].from # m
  BY <1>1, ResponderAssigned
<1>3. i < j /\ j \in DOMAIN l
  BY <1>1 DEF OInv, Ordered, OfferFirst, ResponsesOf
<1>4. j \in tk[m] => i \in tk[m] \/ l[i].from = m
  BY <1>1, <1>3 DEF OInv, Ordered, TakenFirst
<1> QED
  BY <1>2, <1>4

\* The requester the sponsor chooses was given no id, and is not the founder.
LEMMA RequesterFresh ==
    ASSUME NEW l, NEW tk, NEW mem, OInv(l, tk, mem), NEW m \in Members,
           mem[m].is_sponsor, NEW e \in Unassigned(mem[m])
    PROVE  /\ e \in Members /\ e # m
           /\ Service(e) = Service(m)
           /\ ~ IsFounder(e)
           /\ mem[m].member_id = LastId(l, Service(m))
           /\ \E i \in DOMAIN l : IsRequest(l, i, e)
           /\ \A j \in ResponsesOf(l, Service(m)) : l[j].new_sponsor # e
<1>1. /\ MemberOK(l, m, mem[m])
      /\ OrderedMemberOK(l, m, mem[m])
      /\ Service(m) \in Services
  BY ConfigurationAssumption DEF OInv, Ordered, Inv, Service
<1>2. e \in mem[m].pending_requests /\ e \notin DOMAIN mem[m].assigned_endpoints
  BY DEF Unassigned
<1>3. /\ e # m
      /\ Service(e) = Service(m)
      /\ e \in Members
      /\ \E i \in DOMAIN l : IsRequest(l, i, e)
  BY <1>1, <1>2, SecretType DEF OrderedMemberOK, PendingOK, MemberOK, KeysOK
<1>4. ~ IsFounder(e)
  BY <1>3 DEF OInv, Ordered, RequesterInformed
<1>5. SponsorInformed(l, mem, Service(m)) /\ IsSponsor(mem, Service(m), m)
  BY <1>1 DEF OInv, Ordered, GroupOK, IsSponsor
<1> QED
  BY <1>2, <1>3, <1>4, <1>5 DEF SponsorInformed, KnowsBoth, Known

LEMMA HandOverMaps ==
    ASSUME NEW l, NEW tk, NEW mem, OInv(l, tk, mem), NEW m \in Members,
           mem[m].is_sponsor, NEW e \in Unassigned(mem[m])
    PROVE  LET new == HandOver(mem[m], e)
           IN  /\ MapsOK(m, new)
               /\ DOMAIN new.assigned_endpoints
                    = DOMAIN mem[m].assigned_endpoints \cup {e}
<1> DEFINE self == mem[m]
           new == HandOver(self, e)
           id == self.member_id + 1
<1>1. /\ MemberOK(l, m, self)
      /\ MapsOK(m, self)
      /\ Service(m) \in Services
      /\ IsSponsor(mem, Service(m), m)
      /\ SponsorHighest(l, mem, Service(m))
      /\ LogOK(l)
  BY ConfigurationAssumption
     DEF OInv, Ordered, OrderedMemberOK, Inv, BatonOK, Service, IsSponsor
<1>2. e \in Members /\ e # m /\ e \notin DOMAIN self.assigned_endpoints
  BY RequesterFresh DEF Unassigned
<1>3. /\ new.assigned_keys = Put(self.assigned_keys, id, e)
      /\ new.assigned_endpoints = Put(self.assigned_endpoints, e, id)
  BY <1>1, <1>2, HandOverEffect
<1>4. self.member_id \in Nat /\ self.member_id # 0
  BY <1>1, SecretType DEF IsAssigned, DEFAULT_MEMBER_ID
<1>5. id \notin DOMAIN self.assigned_keys
  <2> SUFFICES ASSUME id \in DOMAIN self.assigned_keys PROVE FALSE
    OBVIOUS
  <2>1. Gives(l, Service(m), id, self.assigned_keys[id])
    BY <1>1 DEF MemberOK, KeysOK
  <2>2. id # INITIAL_SPONSOR_ID
    BY <1>4 DEF INITIAL_SPONSOR_ID
  <2>3. PICK i \in DOMAIN l : IsResponse(l, Service(m), i) /\ l[i].assigned_id = id
    BY <2>1, <2>2 DEF Gives
  <2> QED
    BY <1>1, <1>4, <2>3 DEF SponsorHighest
<1>6. /\ DOMAIN new.assigned_keys = DOMAIN self.assigned_keys \cup {id}
      /\ \A x \in DOMAIN new.assigned_keys :
            new.assigned_keys[x] = IF x = id THEN e ELSE self.assigned_keys[x]
      /\ DOMAIN new.assigned_endpoints = DOMAIN self.assigned_endpoints \cup {e}
      /\ \A x \in DOMAIN new.assigned_endpoints :
            new.assigned_endpoints[x] = IF x = e THEN id ELSE self.assigned_endpoints[x]
  BY <1>3 DEF Put
<1> HIDE DEF new
<1>7. MapsOK(m, new)
  BY <1>1, <1>2, <1>5, <1>6 DEF MapsOK
<1> QED
  BY <1>6, <1>7 DEF new

\* The sponsor hands over to the next member.
LEMMA OrderedHandOver ==
    ASSUME NEW l, NEW tk, NEW mem, OInv(l, tk, mem), NEW m \in Members,
           mem[m].status = "running", mem[m].is_sponsor,
           NEW e \in Unassigned(mem[m])
    PROVE  OInv(Append(l, Response(m, mem[m], e)), tk,
                [mem EXCEPT ![m] = HandOver(mem[m], e)])
<1> DEFINE S == Service(m)
           msg == Response(m, mem[m], e)
           k == Append(l, msg)
           r == Len(l) + 1
           self == HandOver(mem[m], e)
           next == [mem EXCEPT ![m] = self]
<1>1. /\ Inv(l, mem)
      /\ LogOK(l)
      /\ l \in Seq(Messages)
      /\ MemberOK(l, m, mem[m])
      /\ OrderedMemberOK(l, m, mem[m])
      /\ S \in Services
  BY ConfigurationAssumption DEF OInv, Ordered, Inv, LogOK, Service
<1>2. Inv(k, next)
  BY <1>1, HandOverInv
<1>3. /\ e \in Members /\ e # m
      /\ Service(e) = S
      /\ mem[m].member_id = LastId(l, S)
      /\ \E i \in DOMAIN l : IsRequest(l, i, e)
      /\ \A j \in ResponsesOf(l, S) : l[j].new_sponsor # e
  BY RequesterFresh
<1>4. /\ ~ self.is_sponsor
      /\ self.status = "running"
      /\ self.member_id = mem[m].member_id
      /\ self.pending_requests = {}
      /\ MapsOK(m, self)
      /\ DOMAIN self.assigned_endpoints = DOMAIN mem[m].assigned_endpoints \cup {e}
  BY <1>1, <1>3, HandOverEffect, HandOverMaps
<1>5. next[m] = self /\ \A n \in Members \ {m} : next[n] = mem[n]
  BY <1>1 DEF Inv
<1>6. /\ msg.type = "response"
      /\ msg.service = S
      /\ msg.from = m
      /\ msg.new_sponsor = e
      /\ msg.assigned_id = LastId(l, S) + 1
  BY <1>3 DEF Response
<1>7. /\ DOMAIN k = DOMAIN l \cup {r}
      /\ k[r] = msg
      /\ \A i \in DOMAIN l : k[i] = l[i] /\ i \in Nat /\ i < r
      /\ r \notin DOMAIN l
      /\ DOMAIN l = 1 .. Len(l)
      /\ Len(l) \in Nat
      /\ r \in Nat
  BY <1>1
<1> HIDE DEF k, next, self, msg, r
<1>8. \A s, i : IsResponse(k, s, i) <=> IsResponse(l, s, i) \/ (s = S /\ i = r)
  BY <1>6, <1>7 DEF IsResponse
<1>9. /\ ResponsesOf(k, S) = ResponsesOf(l, S) \cup {r}
      /\ \A s : s # S => ResponsesOf(k, s) = ResponsesOf(l, s)
      /\ \A s : ResponsesOf(l, s) \subseteq DOMAIN l
  <2>1. \A s, i : /\ i \in ResponsesOf(k, s) <=> IsResponse(k, s, i)
                  /\ i \in ResponsesOf(l, s) <=> IsResponse(l, s, i)
                  /\ IsResponse(l, s, i) => i \in DOMAIN l
    BY DEF ResponsesOf, IsResponse
  <2>2. ResponsesOf(k, S) = ResponsesOf(l, S) \cup {r}
    <3>1. \A i : i \in ResponsesOf(k, S) <=> i \in ResponsesOf(l, S) \cup {r}
      BY <1>8, <2>1
    <3> QED
      BY <3>1
  <2>3. ASSUME NEW s, s # S PROVE ResponsesOf(k, s) = ResponsesOf(l, s)
    <3>1. \A i : i \in ResponsesOf(k, s) <=> i \in ResponsesOf(l, s)
      BY <1>8, <2>1, <2>3
    <3> QED
      BY <3>1
  <2> QED
    BY <2>1, <2>2, <2>3
<1>10. /\ LastId(k, S) = LastId(l, S) + 1
       /\ LastId(l, S) \in Nat \ {0}
       /\ \A s : s # S => LastId(k, s) = LastId(l, s)
  <2>1. IsFiniteSet(ResponsesOf(l, S)) /\ LastId(l, S) \in Nat \ {0}
    BY <1>1, ResponsesFinite
  <2>2. Cardinality(ResponsesOf(l, S) \cup {r}) = Cardinality(ResponsesOf(l, S)) + 1
    BY <1>7, <1>9, <2>1, FS_AddElement
  <2> QED
    BY <1>9, <2>1, <2>2, FS_CardinalityType DEF LastId
<1>11. \A i, n : IsRequest(k, i, n) <=> IsRequest(l, i, n)
  BY <1>6, <1>7 DEF IsRequest
<1>12. \A n \in Members : OrderedMemberOK(k, n, next[n])
  <2>1. ASSUME NEW n \in Members \ {m} PROVE OrderedMemberOK(k, n, next[n])
    BY <1>5, <1>7, <1>11 DEF OInv, Ordered, OrderedMemberOK, PendingOK
  <2>2. OrderedMemberOK(k, m, self)
    BY <1>1, <1>4 DEF OrderedMemberOK, PendingOK, FounderAssigned, IsAssigned,
                      OInv, Ordered, Inv
  <2> QED
    BY <1>5, <2>1, <2>2
<1>13. \A n \in Members : \A any : KnowsBoth(n, mem[n], any) => KnowsBoth(n, next[n], any)
  BY <1>4, <1>5 DEF KnowsBoth, Known
<1>14. tk \in [Members -> SUBSET (DOMAIN k)] /\ TakenFirst(k, tk)
  <2>1. tk \in [Members -> SUBSET (DOMAIN l)] /\ TakenFirst(l, tk)
    BY DEF OInv, Ordered
  <2>2. \A n \in Members : \A i \in tk[n] : \A j \in 1 .. i - 1 : j \in DOMAIN l
    BY <1>7, <2>1
  <2> QED
    BY <1>7, <2>1, <2>2 DEF TakenFirst
<1>15. OfferFirst(k)
  BY <1>6, <1>7, <1>8 DEF OInv, Ordered, OfferFirst, IsResponse
<1>16. RequesterInformed(k, tk, next)
  <2> SUFFICES ASSUME NEW n \in Members, NEW i \in DOMAIN k, IsRequest(k, i, n)
               PROVE  /\ ~ IsFounder(n)
                      /\ next[n].status # "down"
                      /\ \A j \in DOMAIN k :
                            /\ IsResponse(k, Service(n), j)
                            /\ j \in tk[n] \/ k[j].from = n
                            => KnowsBoth(n, next[n], k[j])
    BY DEF RequesterInformed
  <2>1. IsRequest(l, i, n) /\ i \in DOMAIN l
    BY <1>11 DEF IsRequest
  <2>2. /\ ~ IsFounder(n)
        /\ mem[n].status # "down"
        /\ \A j \in DOMAIN l :
              IsResponse(l, Service(n), j) /\ (j \in tk[n] \/ l[j].from = n)
              => KnowsBoth(n, mem[n], l[j])
    BY <2>1 DEF OInv, Ordered, RequesterInformed
  <2>3. next[n].status # "down"
    BY <1>4, <1>5, <2>2
  <2>4. ASSUME NEW j \in DOMAIN k, IsResponse(k, Service(n), j),
               j \in tk[n] \/ k[j].from = n
        PROVE  KnowsBoth(n, next[n], k[j])
    <3>1. CASE j = r
      <4>1. r \notin tk[n]
        BY <1>7 DEF OInv, Ordered
      <4>2. n = m
        BY <1>6, <1>7, <2>4, <3>1, <4>1
      <4> QED
        BY <1>4, <1>5, <1>6, <1>7, <3>1, <4>2 DEF KnowsBoth, Known
    <3>2. CASE j # r
      <4>1. j \in DOMAIN l /\ IsResponse(l, Service(n), j) /\ k[j] = l[j]
        BY <1>7, <1>8, <2>4, <3>2
      <4> QED
        BY <1>13, <2>2, <2>4, <4>1
    <3> QED
      BY <3>1, <3>2
  <2> QED
    BY <2>2, <2>3, <2>4
<1>17. GroupOK(k, next, S)
  <2>1. GroupOK(l, mem, S) /\ OneSponsor(mem, S) /\ TransitHighest(l, mem, S)
    BY <1>1 DEF OInv, Ordered, Inv, BatonOK
  <2>2. Requested(k, S)
    BY <1>3, <1>6, <1>7, <1>9, <1>11, <2>1 DEF GroupOK, Requested
  <2>3. OncePerMember(k, S)
    BY <1>3, <1>6, <1>7, <1>9, <2>1 DEF GroupOK, OncePerMember
  <2>4. IdsConsecutive(k, S)
    <3>1. /\ \A i \in ResponsesOf(l, S) : k[i].assigned_id \in 2 .. LastId(l, S)
          /\ \A id \in 2 .. LastId(l, S) :
                \E i \in ResponsesOf(l, S) : k[i].assigned_id = id
      BY <1>7, <1>9, <2>1 DEF GroupOK, IdsConsecutive
    <3>2. k[r].assigned_id = LastId(l, S) + 1
      BY <1>6, <1>7
    <3>3. \A id \in 2 .. LastId(k, S) : id \in 2 .. LastId(l, S) \/ id = LastId(l, S) + 1
      BY <1>10
    <3> QED
      BY <1>9, <1>10, <3>1, <3>2, <3>3 DEF IdsConsecutive
  <2>5. IsSponsor(mem, S, m)
    BY DEF IsSponsor
  <2>6. \A n \in Members : ~ IsSponsor(next, S, n)
    BY <1>4, <1>5, <2>1, <2>5 DEF OneSponsor, IsSponsor
  <2>7. SponsorInformed(k, next, S)
    BY <2>6 DEF SponsorInformed
  <2>8. TransitLast(k, next, S)
    <3> SUFFICES ASSUME NEW i \in ResponsesOf(k, S),
                        ~ IsAssigned(next[k[i].new_sponsor]),
                        NEW j \in ResponsesOf(k, S)
                 PROVE  j <= i
      BY DEF TransitLast
    <3>1. CASE i = r
      BY <1>7, <1>9, <3>1
    <3>2. CASE i \in ResponsesOf(l, S)
      <4>1. /\ i \in DOMAIN l
            /\ IsResponse(l, S, i)
            /\ k[i] = l[i]
            /\ l[i].new_sponsor \in Members
        BY <1>1, <1>7, <1>9, <3>2 DEF ResponsesOf, LogOK, IsResponse, Messages
      <4>2. ~ IsAssigned(mem[l[i].new_sponsor])
        BY <1>4, <1>5, <4>1 DEF IsAssigned
      <4> QED
        BY <2>1, <2>5, <4>1, <4>2 DEF TransitHighest
    <3> QED
      BY <1>9, <3>1, <3>2
  <2> QED
    BY <2>2, <2>3, <2>4, <2>7, <2>8 DEF GroupOK
<1>18. ASSUME NEW s \in Services, s # S PROVE GroupOK(k, next, s)
  <2>1. /\ GroupOK(l, mem, s)
        /\ ResponsesOf(k, s) = ResponsesOf(l, s)
        /\ LastId(k, s) = LastId(l, s)
        /\ \A i \in ResponsesOf(l, s) : k[i] = l[i] /\ i \in DOMAIN l
    BY <1>7, <1>9, <1>10, <1>18 DEF OInv, Ordered
  <2>2. Requested(k, s)
    BY <1>7, <1>11, <2>1 DEF GroupOK, Requested
  <2>3. OncePerMember(k, s) /\ IdsConsecutive(k, s)
    BY <2>1 DEF GroupOK, OncePerMember, IdsConsecutive
  <2>4. \A n \in Members :
           IsSponsor(next, s, n) => n # m /\ IsSponsor(mem, s, n) /\ next[n] = mem[n]
    BY <1>5, <1>18 DEF IsSponsor
  <2>5. SponsorInformed(k, next, s)
    BY <2>1, <2>4 DEF GroupOK, SponsorInformed
  <2>6. \A i \in ResponsesOf(l, s) : l[i].new_sponsor \in Members
    BY <1>1 DEF ResponsesOf, LogOK, IsResponse, Messages
  <2>7. \A n \in Members : IsAssigned(mem[n]) <=> IsAssigned(next[n])
    BY <1>4, <1>5 DEF IsAssigned
  <2>8. TransitLast(k, next, s)
    BY <2>1, <2>6, <2>7 DEF GroupOK, TransitLast
  <2> QED
    BY <2>2, <2>3, <2>5, <2>8 DEF GroupOK
<1>19. Ordered(k, tk, next)
  BY <1>12, <1>14, <1>15, <1>16, <1>17, <1>18 DEF Ordered
<1> QED
  BY <1>2, <1>19 DEF OInv, k, next, self, msg

-----------------------------------------------------------------------------
(***************************************************************************)
(* The handlers.                                                           *)
(***************************************************************************)
LEMMA OrderedTwice ==
    ASSUME NEW l, NEW tk, NEW mem, NEW m \in Members, NEW x, NEW y,
           OInv(l, tk, [[mem EXCEPT ![m] = x] EXCEPT ![m] = y])
    PROVE  OInv(l, tk, [mem EXCEPT ![m] = y])
<1>1. [[mem EXCEPT ![m] = x] EXCEPT ![m] = y] = [mem EXCEPT ![m] = y]
  OBVIOUS
<1> QED
  BY <1>1

LEMMA OrderedContribute ==
    ASSUME NEW l, NEW tk, NEW mem, OInv(l, tk, mem), NEW m \in Members,
           mem[m].status = "running"
    PROVE  OInv(l, tk, [mem EXCEPT ![m] = ContributeStatistics(m, mem[m])])
<1> DEFINE next == ContributeStatistics(m, mem[m])
<1>1. MemberOK(l, m, mem[m])
  BY DEF OInv, Inv
<1>2. MemberOK(l, m, next)
  BY <1>1, ContributeOK
<1>3. Settled(mem[m], next) /\ next.status \in {"stopped", "running"}
  BY <1>1, ContributeEffect
<1> HIDE DEF next
<1>4. OInv(l, tk, [mem EXCEPT ![m] = next])
  BY <1>2, <1>3, OrderedSettled
<1> QED
  BY <1>4 DEF next

LEMMA OrderedForget ==
    ASSUME NEW l, NEW tk, NEW mem, OInv(l, tk, mem), NEW m \in Members,
           mem[m].status = "running"
    PROVE  LET next == [mem[m] EXCEPT !.pending_requests = {}]
           IN  /\ OInv(l, tk, [mem EXCEPT ![m] = next])
               /\ next.status = "running"
<1> DEFINE next == [mem[m] EXCEPT !.pending_requests = {}]
           all == [mem EXCEPT ![m] = next]
<1>1. MemberOK(l, m, mem[m]) /\ Inv(l, mem) /\ mem[m].group_secret \in Seq(Members)
  BY SecretType DEF OInv, Inv
<1>2. Inv(l, all)
  BY <1>1, ForgetInv
<1>3. MemberOK(l, m, next)
  <2>1. all[m] = next
    BY <1>1 DEF Inv
  <2> QED
    BY <1>2, <2>1 DEF Inv
<1>4. Settled(mem[m], next) /\ next.status = "running"
  BY <1>1, PrefixSelf DEF Settled, MemberOK, MemberState, MemberRecords
<1> HIDE DEF next
<1>5. OInv(l, tk, [mem EXCEPT ![m] = next])
  BY <1>3, <1>4, OrderedSettled
<1> QED
  BY <1>4, <1>5 DEF next

LEMMA OrderedPending ==
    ASSUME NEW m \in Members, NEW self, NEW tk,
           OInv(log, tk, [member EXCEPT ![m] = self]),
           m \in DOMAIN member, self.status = "running", ProcessPendingRequest(m, self)
    PROVE  OInv(log', tk, member')
<1> DEFINE base == [member EXCEPT ![m] = self]
<1>1. base[m] = self /\ OInv(log, tk, base)
  OBVIOUS
<1> HIDE DEF base
<1>2. CASE /\ member' = [member EXCEPT ![m] = ContributeStatistics(m, self)]
           /\ log' = log
  <2>1. OInv(log, tk, [base EXCEPT ![m] = ContributeStatistics(m, self)])
    BY <1>1, OrderedContribute
  <2> QED
    BY <1>2, <2>1, OrderedTwice DEF base
<1>3. CASE /\ member' = [member EXCEPT ![m] =
                 ContributeStatistics(m, [self EXCEPT !.pending_requests = {}])]
           /\ log' = log
  <2> DEFINE forgot == [self EXCEPT !.pending_requests = {}]
             mid == [base EXCEPT ![m] = forgot]
  <2>1. OInv(log, tk, mid) /\ forgot.status = "running"
    BY <1>1, OrderedForget
  <2>2. mid[m] = forgot
    BY <1>1 DEF OInv, Inv
  <2> HIDE DEF mid, forgot
  <2>3. OInv(log, tk, [mid EXCEPT ![m] = ContributeStatistics(m, forgot)])
    BY <2>1, <2>2, OrderedContribute
  <2>4. OInv(log, tk, [base EXCEPT ![m] = ContributeStatistics(m, forgot)])
    BY <2>3, OrderedTwice DEF mid
  <2> QED
    BY <1>3, <2>4, OrderedTwice DEF base, forgot
<1>4. ASSUME self.is_sponsor, NEW e \in Unassigned(self),
             member' = [member EXCEPT ![m] = ContributeStatistics(m, HandOver(self, e))],
             log' = Append(log, Response(m, self, e))
      PROVE  OInv(log', tk, member')
  <2> DEFINE handed == HandOver(self, e)
             mid == [base EXCEPT ![m] = handed]
  <2>1. OInv(log', tk, mid)
    BY <1>1, <1>4, OrderedHandOver
  <2>2. mid[m] = handed
    BY <1>1 DEF OInv, Inv
  <2>3. handed.status = "running"
    <3>1. MemberOK(log, m, self) /\ e \in Members
      BY <1>1, <1>4, RequesterFresh DEF OInv, Inv
    <3> QED
      BY <3>1, HandOverEffect
  <2> HIDE DEF mid, handed
  <2>4. OInv(log', tk, [mid EXCEPT ![m] = ContributeStatistics(m, handed)])
    BY <2>1, <2>2, <2>3, OrderedContribute
  <2>5. OInv(log', tk, [base EXCEPT ![m] = ContributeStatistics(m, handed)])
    BY <2>4, OrderedTwice DEF mid
  <2> QED
    BY <1>4, <2>5, OrderedTwice DEF base, handed
<1> QED
  BY <1>2, <1>3, <1>4 DEF ProcessPendingRequest

LEMMA OrderedAfterResponse ==
    ASSUME NEW l, NEW tk, NEW mem, OInv(l, tk, mem), NEW m \in Members,
           mem[m].status = "running", NEW i \in DOMAIN l, l[i].type = "response",
           \A j \in 1 .. i - 1 : j \in tk[m] \/ l[j].from = m
    PROVE  OInv(l, [tk EXCEPT ![m] = @ \cup {i}],
                [mem EXCEPT ![m] = AfterResponse(m, mem[m], l[i])])
<1> DEFINE self == mem[m]
           learnt == Learn(m, self, l[i])
           base == [mem EXCEPT ![m] = learnt]
           next == [tk EXCEPT ![m] = @ \cup {i}]
<1>1. MemberOK(l, m, self) /\ LogOK(l) /\ OrderedMemberOK(l, m, self)
  BY DEF OInv, Ordered, Inv
<1>2. CASE l[i].service # Service(m)
  <2>1. AfterResponse(m, self, l[i]) = self
    BY <1>2 DEF AfterResponse
  <2>2. [mem EXCEPT ![m] = self] = mem
    BY DEF OInv, Inv
  <2>3. ~ IsResponse(l, Service(m), i)
    BY <1>2 DEF IsResponse
  <2> QED
    BY <2>1, <2>2, <2>3, OrderedTake
<1>3. CASE l[i].service = Service(m)
  <2>1. IsResponse(l, Service(m), i)
    BY <1>3 DEF IsResponse
  <2>2. /\ MemberOK(l, m, learnt)
        /\ learnt.is_sponsor = self.is_sponsor
        /\ learnt.member_id = self.member_id
        /\ learnt.status = "running"
    BY <1>1, <2>1, LearnOK
  <2>3. /\ MapsOK(m, learnt)
        /\ KnowsBoth(m, learnt, l[i])
        /\ DOMAIN self.assigned_endpoints \subseteq DOMAIN learnt.assigned_endpoints
        /\ learnt.pending_requests \subseteq self.pending_requests
    BY <1>1, <2>1, LearnEffect DEF OrderedMemberOK
  <2>4. AfterResponse(m, self, l[i]) = BecomeSponsor(m, learnt, l[i])
    BY <1>3 DEF AfterResponse
  <2> HIDE DEF learnt
  <2>5. OrderedMemberOK(l, m, learnt)
    BY <1>1, <2>2, <2>3 DEF OrderedMemberOK, FounderAssigned, PendingOK, IsAssigned
  <2>6. OInv(l, tk, base) /\ base[m] = learnt
    BY <2>2, <2>3, <2>5, OrderedLocal DEF OInv, Inv
  <2> HIDE DEF base
  <2>7. OInv(l, next, base)
    BY <2>3, <2>6, OrderedTake
  <2>8. CASE ~ Addressed(m, learnt, l[i])
    BY <2>4, <2>7, <2>8 DEF BecomeSponsor, base
  <2>9. CASE Addressed(m, learnt, l[i])
    <3>1. ~ IsAssigned(learnt) /\ l[i].new_sponsor = m
      BY <2>9 DEF Addressed
    <3>2. \A j \in 1 .. i : j \in next[m] \/ l[j].from = m
      <4>1. next[m] = tk[m] \cup {i}
        BY DEF OInv, Ordered
      <4>2. i \in Nat /\ \A j \in 1 .. i : j \in 1 .. i - 1 \/ j = i
        BY <1>1 DEF LogOK
      <4> QED
        BY <4>1, <4>2
    <3> HIDE DEF next
    <3>3. OInv(l, next, [base EXCEPT ![m] = TakeOver(m, learnt, l[i])])
      BY <2>1, <2>2, <2>6, <2>7, <3>1, <3>2, OrderedTakeOver
    <3>4. OInv(l, next, [mem EXCEPT ![m] = TakeOver(m, learnt, l[i])])
      BY <3>3, OrderedTwice DEF base
    <3> QED
      BY <2>4, <2>9, <3>4 DEF BecomeSponsor, next
  <2> QED
    BY <2>8, <2>9
<1> QED
  BY <1>2, <1>3

\* Where m takes the messages in order.
InTurn(m, i) == \A j \in 1 .. i - 1 : j \in taken[m] \/ log[j].from = m

LEMMA OrderedResponse ==
    ASSUME OrderedInv, NEW m \in Members, NEW i \in DOMAIN log,
           member[m].status = "running", InTurn(m, i),
           Take(m, i), ProcessResponse(m, i)
    PROVE  OrderedInv'
<1> DEFINE self == AfterResponse(m, member[m], log[i])
           base == [member EXCEPT ![m] = self]
<1>1. Inv(log, member) /\ log[i].type = "response"
  BY DEF OrderedInv, OInv, ProcessResponse
<1>2. self.status = "running"
  BY <1>1, AfterResponseInv
<1>3. OInv(log, taken', base)
  BY <1>1, OrderedAfterResponse DEF OrderedInv, Take, InTurn
<1>4. m \in DOMAIN member
  BY <1>1 DEF Inv
<1>5. \/ member' = [member EXCEPT ![m] = ContributeStatistics(m, self)] /\ log' = log
      \/ \E next \in CheckAndAddNextBlindedKeys(self) : ProcessPendingRequest(m, next)
  BY DEF ProcessResponse
<1> HIDE DEF self
<1>6. base[m] = self /\ MemberOK(log, m, self)
  BY <1>3, <1>4 DEF OInv, Inv
<1> HIDE DEF base
<1>7. CASE member' = [member EXCEPT ![m] = ContributeStatistics(m, self)] /\ log' = log
  <2>1. OInv(log, taken', [base EXCEPT ![m] = ContributeStatistics(m, self)])
    BY <1>2, <1>3, <1>6, OrderedContribute
  <2>2. OInv(log', taken', member')
    BY <1>7, <2>1, OrderedTwice DEF base
  <2> QED
    BY <2>2 DEF OrderedInv
<1>8. ASSUME NEW next \in CheckAndAddNextBlindedKeys(self), ProcessPendingRequest(m, next)
      PROVE  OrderedInv'
  <2>1. /\ MemberOK(log, m, next)
        /\ next.status = "running"
    BY <1>2, <1>6, AddKeysOK
  <2>2. Settled(self, next)
    BY <1>2, <1>6, AddKeysEffect
  <2>3. OInv(log, taken', [base EXCEPT ![m] = next])
    BY <1>2, <1>3, <1>6, <2>1, <2>2, OrderedSettled
  <2>4. OInv(log, taken', [member EXCEPT ![m] = next])
    BY <2>3, OrderedTwice DEF base
  <2>5. OInv(log', taken', member')
    BY <1>4, <1>8, <2>1, <2>4, OrderedPending
  <2> QED
    BY <2>5 DEF OrderedInv
<1> QED
  BY <1>5, <1>7, <1>8

\* What a member notes of a request, before it looks for one to accept.
LEMMA OrderedNote ==
    ASSUME OrderedInv, NEW m \in Members, NEW i \in DOMAIN log, log[i].from # m,
           member[m].status = "running", InTurn(m, i),
           Take(m, i), ProcessRequest(m, i)
    PROVE  LET self == NoteRequest(m, member[m], log[i])
           IN  /\ OInv(log, taken', [member EXCEPT ![m] = self])
               /\ OInv(log, taken', [member EXCEPT ![m] =
                           [self EXCEPT !.key_agreement_start = TRUE]])
               /\ OInv(log, taken', [member EXCEPT ![m] =
                           [self EXCEPT !.status = "crashed"]])
<1> DEFINE self == NoteRequest(m, member[m], log[i])
           started == [self EXCEPT !.key_agreement_start = TRUE]
           crashed == [self EXCEPT !.status = "crashed"]
           base == [member EXCEPT ![m] = self]
<1>0. log[i].type = "request"
  BY DEF ProcessRequest
<1>1. /\ MemberOK(log, m, member[m])
      /\ OrderedMemberOK(log, m, member[m])
      /\ LogOK(log)
      /\ m \in DOMAIN member
  BY DEF OrderedInv, OInv, Ordered, Inv
<1>2. OInv(log, taken', member)
  <2>1. ~ IsResponse(log, Service(m), i)
    BY <1>0 DEF IsResponse
  <2> QED
    BY <2>1, OrderedTake DEF OrderedInv, Take, InTurn
<1>3. /\ MemberOK(log, m, self)
      /\ self.is_sponsor = member[m].is_sponsor
      /\ self.member_id = member[m].member_id
      /\ self.status = "running"
  BY <1>1, NoteRequestOK
<1>4. /\ self.assigned_keys = member[m].assigned_keys
      /\ self.assigned_endpoints = member[m].assigned_endpoints
      /\ self.pending_requests \subseteq member[m].pending_requests \cup {log[i].from}
  BY <1>1 DEF NoteRequest, MemberOK, MemberState, MemberRecords
<1> HIDE DEF self
<1>6. IsRequest(log, i, log[i].from)
  BY <1>0 DEF IsRequest
<1>7. OrderedMemberOK(log, m, self)
  <2>1. MapsOK(m, self) /\ FounderAssigned(m, self)
    BY <1>1, <1>3, <1>4 DEF OrderedMemberOK, MapsOK, FounderAssigned, IsAssigned
  <2>2. PendingOK(log, m, self)
    BY <1>1, <1>4, <1>6 DEF OrderedMemberOK, PendingOK
  <2> QED
    BY <2>1, <2>2 DEF OrderedMemberOK
<1>8. OInv(log, taken', base) /\ base[m] = self
  BY <1>1, <1>2, <1>3, <1>4, <1>7, OrderedLocal
<1> HIDE DEF base
<1>9. /\ MemberOK(log, m, started) /\ Settled(self, started)
      /\ started.status = "running"
      /\ MemberOK(log, m, crashed) /\ Settled(self, crashed)
      /\ crashed.status = "crashed"
  BY <1>3, FlagsEffect
<1> HIDE DEF started, crashed
<1>10. /\ OInv(log, taken', [base EXCEPT ![m] = started])
       /\ OInv(log, taken', [base EXCEPT ![m] = crashed])
  BY <1>3, <1>8, <1>9, OrderedSettled
<1>11. /\ OInv(log, taken', [member EXCEPT ![m] = self])
       /\ OInv(log, taken', [member EXCEPT ![m] = started])
       /\ OInv(log, taken', [member EXCEPT ![m] = crashed])
  BY <1>8, <1>10, OrderedTwice DEF base
<1> QED
  BY <1>11 DEF self, started, crashed

LEMMA OrderedRequest ==
    ASSUME OrderedInv, NEW m \in Members, NEW i \in DOMAIN log, log[i].from # m,
           member[m].status = "running", InTurn(m, i),
           Take(m, i), ProcessRequest(m, i)
    PROVE  OrderedInv'
<1> DEFINE self == NoteRequest(m, member[m], log[i])
           started == [self EXCEPT !.key_agreement_start = TRUE]
           crashed == [self EXCEPT !.status = "crashed"]
<1>1. /\ OInv(log, taken', [member EXCEPT ![m] = self])
      /\ OInv(log, taken', [member EXCEPT ![m] = started])
      /\ OInv(log, taken', [member EXCEPT ![m] = crashed])
  BY OrderedNote
<1>2. /\ MemberOK(log, m, member[m])
      /\ LogOK(log)
      /\ m \in DOMAIN member
  BY DEF OrderedInv, OInv, Inv
<1>3. \/ ProcessPendingRequest(m, self)
      \/ ProcessPendingRequest(m, started)
      \/ member' = [member EXCEPT ![m] = crashed] /\ log' = log
  BY DEF ProcessRequest
<1>4. MemberOK(log, m, self) /\ self.status = "running"
  BY <1>2, NoteRequestOK
<1> HIDE DEF self
<1>5. started.status = "running"
  BY <1>4, FlagsEffect
<1> HIDE DEF started, crashed
<1>6. OInv(log', taken', member')
  BY <1>1, <1>2, <1>3, <1>4, <1>5, OrderedPending
<1> QED
  BY <1>6 DEF OrderedInv

LEMMA OrderedOffer ==
    ASSUME OrderedInv, NEW m \in Members, NEW i \in DOMAIN log, log[i].from # m,
           i \notin taken[m], member[m].status = "running", InTurn(m, i),
           Take(m, i), ProcessOffer(m, i)
    PROVE  OrderedInv'
<1>1. log[i].type = "offer" /\ member' = member
  BY DEF ProcessOffer
<1>2. OInv(log, taken', member)
  <2>1. ~ IsResponse(log, Service(m), i)
    BY <1>1 DEF IsResponse
  <2> QED
    BY <2>1, OrderedTake DEF OrderedInv, Take, InTurn
<1>3. CASE log' = log
  BY <1>1, <1>2, <1>3 DEF OrderedInv
<1>4. CASE /\ ~ IsAssigned(member[m])
           /\ log[i].service = Service(m)
           /\ log' = Append(log, Request(m))
  <2>1. /\ Request(m) \in Messages
        /\ Request(m).type = "request"
        /\ Request(m).from = m
        /\ Request(m).service = Service(m)
    BY ConfigurationAssumption DEF Request, Messages, Service
  <2>2. Inv(log', member)
    BY <1>4, <2>1, QuietAppend DEF OrderedInv, OInv
  <2>3. ~ IsFounder(m)
    BY <1>4 DEF OrderedInv, OInv, Ordered, OrderedMemberOK, FounderAssigned
  <2>4. \A j \in ResponsesOf(log, Service(m)) : j \notin taken'[m] /\ log[j].from # m
    <3> SUFFICES ASSUME NEW j \in ResponsesOf(log, Service(m))
                 PROVE  j \notin taken'[m] /\ log[j].from # m
      OBVIOUS
    <3>1. j \notin taken[m] /\ log[j].from # m
      BY <1>1, <1>4, NothingMissed DEF OrderedInv
    <3>2. j # i
      BY <1>1 DEF ResponsesOf, IsResponse
    <3>3. taken'[m] = taken[m] \cup {i}
      BY DEF OrderedInv, OInv, Ordered, Take
    <3> QED
      BY <3>1, <3>2, <3>3
  <2>5. log \in Seq(Messages) /\ Ordered(log, taken', member)
    BY <1>2 DEF OInv, Inv, LogOK
  <2>6. Ordered(log', taken', member)
    BY <1>4, <2>1, <2>3, <2>4, <2>5, OrderedQuietAppend
  <2> QED
    BY <1>1, <2>2, <2>6 DEF OrderedInv, OInv, Inv
<1> QED
  BY <1>3, <1>4 DEF ProcessOffer

\* A member that is launched has missed all messages so far.
LEMMA OrderedMissed ==
    ASSUME NEW l, NEW tk, NEW mem, OInv(l, tk, mem), NEW m \in Members,
           mem[m].status = "down"
    PROVE  OInv(l, [tk EXCEPT ![m] = DOMAIN l], mem)
<1> DEFINE next == [tk EXCEPT ![m] = DOMAIN l]
<1>1. /\ next \in [Members -> SUBSET (DOMAIN l)]
      /\ next[m] = DOMAIN l
      /\ \A n \in Members \ {m} : next[n] = tk[n]
      /\ l \in Seq(Messages)
  BY DEF OInv, Ordered, Inv, LogOK
<1> HIDE DEF next
<1>2. TakenFirst(l, next)
  <2>1. \A i \in DOMAIN l : \A j \in 1 .. i - 1 : j \in DOMAIN l
    BY <1>1
  <2> QED
    BY <1>1, <2>1 DEF OInv, Ordered, TakenFirst
<1>3. RequesterInformed(l, next, mem)
  BY <1>1 DEF OInv, Ordered, RequesterInformed
<1>4. OInv(l, next, mem)
  BY <1>1, <1>2, <1>3 DEF OInv, Ordered
<1> QED
  BY <1>4 DEF next

LEMMA OrderedSubscribe ==
    ASSUME OrderedInv, NEW m \in Members, ~ IsFounder(m), Launch(m)
    PROVE  OrderedInv'
<1> DEFINE next == [member[m] EXCEPT !.status = "running"]
<1>1. /\ member[m].status = "down"
      /\ member' = [member EXCEPT ![m] = next]
      /\ log' = log
      /\ taken' = [taken EXCEPT ![m] = DOMAIN log]
  BY DEF Launch
<1>2. OInv(log, taken', member) /\ Inv(log', member')
  BY <1>1, OrderedMissed, LaunchInv DEF OrderedInv, OInv
<1>3. MemberOK(log, m, member[m]) /\ OrderedMemberOK(log, m, member[m])
  BY <1>2 DEF OInv, Inv, Ordered
<1>4. MemberOK(log, m, next)
  <2>1. member'[m] = next
    BY <1>1, <1>2 DEF OInv, Inv
  <2> QED
    BY <1>1, <1>2, <2>1 DEF Inv
<1>5. /\ next.status = "running"
      /\ next.is_sponsor = member[m].is_sponsor
      /\ next.member_id = member[m].member_id
      /\ next.assigned_keys = member[m].assigned_keys
      /\ next.assigned_endpoints = member[m].assigned_endpoints
      /\ next.pending_requests = member[m].pending_requests
  BY <1>3 DEF MemberOK, MemberState, MemberRecords
<1> HIDE DEF next
<1>6. OrderedMemberOK(log, m, next)
  BY <1>3, <1>5 DEF OrderedMemberOK, MapsOK, FounderAssigned, PendingOK
<1>7. OInv(log, taken', [member EXCEPT ![m] = next])
  BY <1>2, <1>4, <1>5, <1>6, OrderedLocal
<1> QED
  BY <1>1, <1>7 DEF OrderedInv

LEMMA OrderedFound ==
    ASSUME OrderedInv, NEW m \in Members, IsFounder(m), Launch(m)
    PROVE  OrderedInv'
<1> DEFINE S == Service(m)
<1>1. /\ member[m].status = "down"
      /\ log' = Append(log, Offer(m))
      /\ taken' = [taken EXCEPT ![m] = DOMAIN log]
  BY DEF Launch
<1>2. /\ OInv(log, taken', member)
      /\ Inv(log, member)
      /\ Inv(log', member')
  BY <1>1, OrderedMissed, LaunchInv DEF OrderedInv, OInv
<1>3. /\ S \in Services
      /\ m = founder[S]
      /\ MemberOK(log, m, member[m])
      /\ OrderedMemberOK(log, m, member[m])
      /\ log \in Seq(Messages)
      /\ LogOK(log)
  BY <1>2, ConfigurationAssumption DEF Service, IsFounder, OInv, Ordered, Inv, LogOK
<1>4. /\ member'[m].status = "running"
      /\ member'[m].is_sponsor
      /\ member'[m].member_id = INITIAL_SPONSOR_ID
      /\ member'[m].assigned_keys = member[m].assigned_keys
      /\ member'[m].assigned_endpoints = member[m].assigned_endpoints
      /\ member'[m].pending_requests = member[m].pending_requests
      /\ \A n \in Members \ {m} : member'[n] = member[n]
  <2>1. m \in DOMAIN member /\ MemberState(member[m])
    BY <1>2, <1>3 DEF Inv, MemberOK
  <2>2. member' = [member EXCEPT
                     ![m].status = "running",
                     ![m].is_sponsor = TRUE,
                     ![m].member_id = INITIAL_SPONSOR_ID,
                     ![m].group_secret = <<m>>,
                     ![m].blinded_group_secret = <<m>>,
                     ![m].keys_computed_count = 1]
    BY DEF Launch
  <2>3. \A n \in Members \ {m} : member'[n] = member[n]
    BY <1>2, <2>2 DEF Inv
  <2> QED
    BY <2>1, <2>2, <2>3 DEF MemberState, MemberRecords
<1>5. IsAssigned(member'[m])
  BY <1>4 DEF IsAssigned, INITIAL_SPONSOR_ID, DEFAULT_MEMBER_ID
<1>6. \A n \in Members : IsAssigned(member[n]) => IsAssigned(member'[n])
  BY <1>4, <1>5
<1>7. /\ \A i \in DOMAIN log : ~ IsResponse(log, S, i)
      /\ \A n \in Members : ~ IsSponsor(member, S, n)
  BY <1>1, <1>2, <1>3 DEF Inv, BatonOK, FounderFirst
<1>8. ResponsesOf(log, S) = {}
  BY <1>7 DEF ResponsesOf
<1>9. \A n \in Members : OrderedMemberOK(log, n, member'[n])
  <2>1. OrderedMemberOK(log, m, member'[m])
    BY <1>3, <1>4, <1>5 DEF OrderedMemberOK, MapsOK, FounderAssigned, PendingOK
  <2> QED
    BY <1>2, <1>4, <2>1 DEF OInv, Ordered
<1>10. RequesterInformed(log, taken', member')
  <2>1. \A i \in DOMAIN log : ~ IsRequest(log, i, m)
    BY <1>2 DEF OInv, Ordered, RequesterInformed
  <2> QED
    BY <1>2, <1>4, <2>1 DEF OInv, Ordered, RequesterInformed
<1>11. ASSUME NEW s \in Services PROVE GroupOK(log, member', s)
  <2>1. GroupOK(log, member, s)
    BY <1>2 DEF OInv, Ordered
  <2>2. TransitLast(log, member', s)
    <3>1. \A i \in ResponsesOf(log, s) : log[i].new_sponsor \in Members
      BY <1>3 DEF ResponsesOf, LogOK, IsResponse, Messages
    <3> QED
      BY <1>6, <2>1, <3>1 DEF GroupOK, TransitLast
  <2>3. SponsorInformed(log, member', s)
    <3>1. CASE s = S
      <4>1. LastId(log, s) = 1
        BY <1>8, <3>1, FS_EmptySet DEF LastId
      <4>2. \A n \in Members : IsSponsor(member', s, n) => n = m
        BY <1>4, <1>7, <3>1 DEF IsSponsor
      <4> QED
        BY <1>4, <1>8, <3>1, <4>1, <4>2 DEF SponsorInformed, INITIAL_SPONSOR_ID
    <3>2. CASE s # S
      <4>1. \A n \in Members : IsSponsor(member', s, n) =>
               IsSponsor(member, s, n) /\ member'[n] = member[n]
        BY <1>4, <3>2 DEF IsSponsor
      <4> QED
        BY <2>1, <4>1 DEF GroupOK, SponsorInformed
    <3> QED
      BY <3>1, <3>2
  <2> QED
    BY <2>1, <2>2, <2>3 DEF GroupOK
<1>12. Ordered(log, taken', member')
  BY <1>2, <1>9, <1>10, <1>11 DEF OInv, Ordered
<1>13. /\ Offer(m) \in Messages
       /\ Offer(m).type = "offer"
       /\ Offer(m).service = S
  BY <1>3 DEF Offer, Messages
<1>14. Ordered(log', taken', member')
  BY <1>1, <1>3, <1>8, <1>12, <1>13, OrderedQuietAppend
<1> QED
  BY <1>2, <1>14 DEF OrderedInv, OInv

-----------------------------------------------------------------------------
(***************************************************************************)
(* The invariant of the specification.                                     *)
(***************************************************************************)
\* Everybody receives in one order, and nothing twice.
Orderly == InOrder /\ MaxDuplicates = 0

LEMMA InitOrdered == Init => OrderedInv
<1> SUFFICES ASSUME Init PROVE OrderedInv
  OBVIOUS
<1>1. /\ Inv(log, member)
      /\ taken \in [Members -> SUBSET (DOMAIN log)]
  BY InitInv DEF IInv
<1>2. /\ DOMAIN log = {}
      /\ \A m \in Members : member[m] = InitialMember
      /\ \A m \in Members : taken[m] = {}
  BY DEF Init
<1>3. \A m \in Members : OrderedMemberOK(log, m, member[m])
  <2>1. /\ DOMAIN InitialMember.assigned_keys = {}
        /\ DOMAIN InitialMember.assigned_endpoints = {}
        /\ InitialMember.pending_requests = {}
        /\ InitialMember.status = "down"
    BY DEF InitialMember
  <2> QED
    BY <1>2, <2>1 DEF OrderedMemberOK, MapsOK, FounderAssigned, PendingOK
<1>4. TakenFirst(log, taken) /\ OfferFirst(log) /\ RequesterInformed(log, taken, member)
  BY <1>2 DEF TakenFirst, OfferFirst, RequesterInformed
<1>5. ASSUME NEW s \in Services PROVE GroupOK(log, member, s)
  <2>1. ResponsesOf(log, s) = {} /\ LastId(log, s) = 1
    BY <1>2, FS_EmptySet DEF ResponsesOf, LastId
  <2>2. \A m \in Members : ~ IsSponsor(member, s, m)
    BY <1>2 DEF IsSponsor, InitialMember
  <2> QED
    BY <2>1, <2>2 DEF GroupOK, Requested, OncePerMember, IdsConsecutive,
                      SponsorInformed, TransitLast
<1> QED
  BY <1>1, <1>3, <1>4, <1>5 DEF OrderedInv, OInv, Ordered

LEMMA NextOrdered ==
    ASSUME Orderly, duplicates \in Nat, OrderedInv, [Next]_vars PROVE OrderedInv'
<1>1. CASE UNCHANGED vars
  BY <1>1 DEF vars, OrderedInv, OInv, Inv, Ordered
<1>2. ASSUME NEW m \in Members, Launch(m) PROVE OrderedInv'
  BY <1>2, OrderedSubscribe, OrderedFound
<1>3. ASSUME NEW m \in Members, NEW i \in DOMAIN log, Deliverable(m, i), Take(m, i),
             \/ ProcessOffer(m, i)
             \/ ProcessRequest(m, i)
             \/ ProcessResponse(m, i)
      PROVE  OrderedInv'
  <2>1. /\ member[m].status = "running"
        /\ log[i].from # m
        /\ i \notin taken[m]
        /\ InTurn(m, i)
    BY <1>3 DEF Deliverable, Orderly, InTurn
  <2> QED
    BY <1>3, <2>1, OrderedOffer, OrderedRequest, OrderedResponse
<1>4. \A m \in Members : \A i : ~ Duplicate(m, i)
  BY DEF Duplicate, Orderly
<1> QED
  BY <1>1, <1>2, <1>3, <1>4 DEF Next, Receive

(***************************************************************************)
(* Where messages are received in order, what the members believe of each  *)
(* other is right, and a sponsor knows all who were given an id.           *)
(***************************************************************************)
THEOREM OrderedInvariant == ASSUME Orderly PROVE Spec => []OrderedInv
<1>1. IInv => duplicates \in Nat
  BY NetworkAssumption DEF IInv
<1>2. OrderedInv /\ IInv /\ [Next]_vars => OrderedInv'
  BY <1>1, NextOrdered
<1> QED
  BY <1>2, InitOrdered, Invariant, PTL DEF Spec

(***************************************************************************)
(* NoReassignment: the sponsor hands the role to nobody that has an id, as *)
(* every response before it was taken by whoever has the role now.         *)
(***************************************************************************)
THEOREM NobodyReassigned == ASSUME Orderly PROVE Spec => []NoReassignment
<1>1. OrderedInv => NoReassignment
  <2> SUFFICES ASSUME OrderedInv, NEW s \in Services, NEW i \in Responses(s)
               PROVE  /\ \A j \in Responses(s) :
                            log[i].new_sponsor = log[j].new_sponsor => i = j
                      /\ log[i].new_sponsor # founder[s]
    BY DEF NoReassignment
  <2>1. Responses(s) = ResponsesOf(log, s)
    BY DEF Responses, ResponsesOf, IsResponse
  <2>2. GroupOK(log, member, s) /\ RequesterInformed(log, taken, member)
    BY DEF OrderedInv, OInv, Ordered
  <2>3. PICK r \in DOMAIN log : IsRequest(log, r, log[i].new_sponsor)
    BY <2>1, <2>2 DEF GroupOK, Requested
  <2>4. founder[s] \in Members /\ IsFounder(founder[s])
    BY ConfigurationAssumption DEF IsFounder, Service
  <2> QED
    BY <2>1, <2>2, <2>3, <2>4 DEF GroupOK, OncePerMember, RequesterInformed
<1> QED
  BY <1>1, OrderedInvariant, PTL

\* A member was given one id.
LEMMA OneId ==
    ASSUME OrderedInv, NEW s \in Services, NEW id, NEW other, NEW e,
           Gives(log, s, id, e), Gives(log, s, other, e)
    PROVE  id = other
<1>1. GroupOK(log, member, s) /\ RequesterInformed(log, taken, member)
  BY DEF OrderedInv, OInv, Ordered
<1>2. founder[s] \in Members /\ IsFounder(founder[s])
  BY ConfigurationAssumption DEF IsFounder, Service
<1>3. ASSUME NEW i \in DOMAIN log, IsResponse(log, s, i), log[i].new_sponsor = founder[s]
      PROVE  FALSE
  <2>1. PICK r \in DOMAIN log : IsRequest(log, r, founder[s])
    BY <1>1, <1>3 DEF GroupOK, Requested, ResponsesOf
  <2> QED
    BY <1>1, <1>2, <2>1 DEF RequesterInformed
<1> QED
  BY <1>1, <1>3 DEF Gives, GroupOK, OncePerMember, ResponsesOf

(***************************************************************************)
(* MapsAccurate: what process_response concludes from the two ids in a     *)
(* response is what the two members hold, once they hold it.               *)
(***************************************************************************)
THEOREM MapsAreAccurate == ASSUME Orderly PROVE Spec => []MapsAccurate
<1>1. OrderedInv /\ IInv => MapsAccurate
  <2> SUFFICES ASSUME OrderedInv, IInv, NEW s \in Services, NEW m \in Assigned(s),
                      NEW n \in Members, Service(n) = s
               PROVE  LET self == member[n]
                          id == member[m].member_id
                      IN  /\ m \in DOMAIN self.assigned_endpoints =>
                               self.assigned_endpoints[m] = id
                          /\ id \in DOMAIN self.assigned_keys =>
                               self.assigned_keys[id] = m
    BY DEF MapsAccurate
  <2> DEFINE self == member[n]
             id == member[m].member_id
  <2>1. Gives(log, s, id, m)
    BY AssignedMember
  <2>2. /\ MemberOK(log, n, self)
        /\ MapsOK(n, self)
        /\ LogOK(log)
    BY DEF OrderedInv, OInv, Ordered, OrderedMemberOK, Inv
  <2>3. \A x \in DOMAIN self.assigned_keys : Gives(log, s, x, self.assigned_keys[x])
    BY <2>2 DEF MemberOK, KeysOK
  <2> HIDE DEF self, id
  <2>4. ASSUME id \in DOMAIN self.assigned_keys PROVE self.assigned_keys[id] = m
    BY <2>1, <2>2, <2>3, <2>4, GivesUnique
  <2>5. ASSUME m \in DOMAIN self.assigned_endpoints
        PROVE  self.assigned_endpoints[m] = id
    <3>1. Gives(log, s, self.assigned_endpoints[m], m)
      BY <2>2, <2>3, <2>5 DEF MapsOK
    <3> QED
      BY <2>1, <3>1, OneId
  <2> QED
    BY <2>4, <2>5 DEF self, id
<1> QED
  BY <1>1, OrderedInvariant, Invariant, PTL

-----------------------------------------------------------------------------
(***************************************************************************)
(* The size of the group.  The program refuses a member_count below 2      *)
(* (multicast-dh-example.cpp).                                             *)
(***************************************************************************)
SomebodyToAgreeWith == \A s \in Services : member_count[s] >= 2

\* The member with the last id knows all others, so it has all the keys.
LEMMA LastComplete ==
    ASSUME SomebodyToAgreeWith, NEW l, NEW tk, NEW mem, OInv(l, tk, mem),
           NEW m \in Members, mem[m].is_sponsor,
           mem[m].member_id = member_count[Service(m)]
    PROVE  KeyComplete(m, mem[m])
<1> DEFINE s == Service(m)
           self == mem[m]
           N == member_count[s]
           keys == self.assigned_keys
           ends == self.assigned_endpoints
<1>1. /\ s \in Services
      /\ N \in Nat /\ N >= 2
      /\ LogOK(l)
      /\ MemberOK(l, m, self)
      /\ MapsOK(m, self)
      /\ GroupOK(l, mem, s)
      /\ IsSponsor(mem, s, m)
  BY ConfigurationAssumption
     DEF SomebodyToAgreeWith, OInv, Ordered, OrderedMemberOK, Inv, Service, IsSponsor
<1>2. /\ self.member_id = N
      /\ self.keys_computed_count = 1
      /\ IsAssigned(self)
      /\ self.group_secret \in Seq(Members)
      /\ self.group_secret[N] = m
      /\ Len(self.group_secret) = N
  BY <1>1, SecretType
     DEF MemberOK, MemberState, MemberRecords, CountOK, SponsorOK, LastKeyId, IsAssigned
<1>3. /\ LastId(l, s) = N
      /\ \A j \in ResponsesOf(l, s) : KnowsBoth(m, self, l[j])
  BY <1>1, <1>2 DEF GroupOK, SponsorInformed
<1>4. \A id \in DOMAIN keys : id \in Nat \ {0} /\ Gives(l, s, id, keys[id])
  BY <1>1, SecretType DEF MemberOK, KeysOK, MemberIds, DEFAULT_MEMBER_ID
<1>5. Gives(l, s, N, m)
  BY <1>1, <1>2 DEF MemberOK, KeysOK, Backed
<1>6. \A j \in ResponsesOf(l, s) :
         /\ j \in DOMAIN l /\ IsResponse(l, s, j)
         /\ l[j].assigned_id \in 2 .. N
         /\ Gives(l, s, l[j].assigned_id, l[j].new_sponsor)
         /\ Gives(l, s, l[j].assigned_id - 1, l[j].from)
  BY <1>1, <1>3 DEF GroupOK, IdsConsecutive, ResponsesOf, LogOK, MessageOK, IsResponse, Gives
<1>7. \A id \in 2 .. N : \E j \in ResponsesOf(l, s) : l[j].assigned_id = id
  BY <1>1, <1>3 DEF GroupOK, IdsConsecutive
<1> HIDE DEF self, N, keys, ends, s
<1>8. ASSUME NEW id \in DOMAIN keys PROVE id \in 1 .. N - 1
  <2>1. Gives(l, s, id, keys[id])
    BY <1>4
  <2>2. id = INITIAL_SPONSOR_ID \/ \E j \in ResponsesOf(l, s) : l[j].assigned_id = id
    BY <2>1 DEF Gives, ResponsesOf, IsResponse
  <2>3. id \in 1 .. N
    BY <1>1, <1>6, <2>2 DEF INITIAL_SPONSOR_ID
  <2>4. id # N
    <3>1. ASSUME id = N PROVE FALSE
      <4>1. keys[id] = m
        BY <1>1, <1>5, <2>1, <3>1, GivesUnique
      <4> QED
        BY <1>1, <4>1 DEF MapsOK, keys
    <3> QED
      BY <3>1
  <2> QED
    BY <1>1, <2>3, <2>4
<1>9. ASSUME NEW id \in 1 .. N - 1 PROVE id \in DOMAIN keys
  <2>1. PICK j \in ResponsesOf(l, s) : l[j].assigned_id = id + 1
    BY <1>1, <1>7
  <2> DEFINE e == l[j].from
  <2>2. Gives(l, s, id, e)
    BY <1>1, <1>6, <2>1
  <2>3. id # N
    BY <1>1
  <2>4. e \in DOMAIN ends
    <3>1. e # m
      <4>1. ASSUME e = m PROVE FALSE
        <5>1. PICK i \in ResponsesOf(l, s) : l[i].assigned_id = N
          BY <1>1, <1>7
        <5>2. l[i].new_sponsor = m
          BY <1>1, <1>5, <1>6, <5>1, GivesUnique
        <5>3. PICK r \in DOMAIN l : IsRequest(l, r, m)
          BY <1>1, <5>1, <5>2 DEF GroupOK, Requested
        <5>4. m # founder[s]
          <6>1. ~ IsFounder(m)
            BY <5>3 DEF OInv, Ordered, RequesterInformed
          <6> QED
            BY <6>1 DEF IsFounder, s
        <5>5. PICK k \in ResponsesOf(l, s) : l[k].assigned_id = id /\ l[k].new_sponsor = m
          BY <2>2, <4>1, <5>4 DEF Gives, ResponsesOf, IsResponse
        <5> QED
          BY <1>1, <2>3, <5>1, <5>2, <5>5 DEF GroupOK, OncePerMember
      <4> QED
        BY <4>1
    <3> QED
      BY <1>3, <3>1 DEF KnowsBoth, Known, ends
  <2>5. ends[e] \in DOMAIN keys /\ keys[ends[e]] = e
    BY <1>1, <2>4 DEF MapsOK, keys, ends
  <2>6. ends[e] = id
    <3>1. Gives(l, s, ends[e], e)
      BY <1>4, <2>5
    <3>2. founder[s] \in Members /\ IsFounder(founder[s])
      BY <1>1, ConfigurationAssumption DEF IsFounder, Service
    <3>3. \A k \in ResponsesOf(l, s) : l[k].new_sponsor # founder[s]
      BY <1>1, <3>2 DEF GroupOK, Requested, OInv, Ordered, RequesterInformed
    <3> QED
      BY <1>1, <2>2, <3>1, <3>3 DEF Gives, GroupOK, OncePerMember, ResponsesOf, IsResponse
  <2> QED
    BY <2>5, <2>6
<1>10. /\ IsFiniteSet(DOMAIN keys) /\ Cardinality(DOMAIN keys) = N - 1
  <2>1. DOMAIN keys = 1 .. N - 1
    BY <1>8, <1>9
  <2>2. 1 \in Int /\ N - 1 \in Int /\ N - 1 - 1 + 1 = N - 1 /\ ~ 1 > N - 1
    BY <1>1
  <2>3. IsFiniteSet(1 .. N - 1) /\ Cardinality(1 .. N - 1) = N - 1 - 1 + 1
    BY <2>2, FS_Interval
  <2> QED
    BY <2>1, <2>2, <2>3
<1>11. Cardinality(DOMAIN ends) = N - 1
  <2>1. keys \in [DOMAIN keys -> DOMAIN ends]
    BY <1>1, SecretType DEF MapsOK, keys, ends
  <2>2. \A x, y \in DOMAIN keys : keys[x] = keys[y] => x = y
    BY <1>1 DEF MapsOK, keys, ends
  <2>3. \A e \in DOMAIN ends : \E x \in DOMAIN keys : keys[x] = e
    BY <1>1 DEF MapsOK, keys, ends
  <2>4. ExistsBijection(DOMAIN keys, DOMAIN ends)
    BY <2>1, <2>2, <2>3
       DEF ExistsBijection, Bijection, Injection, Surjection, IsInjective
  <2> QED
    BY <1>10, <2>4, FS_Bijection
<1> QED
  BY <1>1, <1>2, <1>10, <1>11 DEF KeyComplete, self, keys, ends, N, s

\* A change of one member.
LEMMA SizeLocal ==
    ASSUME NEW l, NEW mem, SizeOK(l, mem), NEW m \in Members, m \in DOMAIN mem,
           NEW self, RoomLeft(m, self)
    PROVE  SizeOK(l, [mem EXCEPT ![m] = self])
BY DEF SizeOK

\* A message that is no response.
LEMMA SizeQuiet ==
    ASSUME NEW l \in Seq(Messages), NEW mem, SizeOK(l, mem),
           NEW msg \in Messages, msg.type # "response"
    PROVE  SizeOK(Append(l, msg), mem)
<1> DEFINE k == Append(l, msg)
<1>1. \A s, i : IsResponse(k, s, i) => IsResponse(l, s, i) /\ k[i] = l[i]
  BY DEF IsResponse
<1> HIDE DEF k
<1>2. \A s : \A i \in ResponsesOf(k, s) : i \in ResponsesOf(l, s) /\ k[i] = l[i]
  BY <1>1 DEF ResponsesOf, IsResponse
<1>3. SizeOK(k, mem)
  BY <1>2 DEF SizeOK
<1> QED
  BY <1>3 DEF k

LEMMA SizeContribute ==
    ASSUME NEW l, NEW m \in Members, NEW self, MemberOK(l, m, self),
           self.status = "running", RoomLeft(m, self) \/ KeyComplete(m, self)
    PROVE  RoomLeft(m, ContributeStatistics(m, self))
<1> DEFINE next == ContributeStatistics(m, self)
<1>1. /\ next.is_sponsor = self.is_sponsor
      /\ next.member_id = self.member_id
      /\ next.status = IF KeyComplete(m, self) THEN "stopped" ELSE self.status
  BY ContributeEffect DEF Settled
<1> HIDE DEF next
<1>2. RoomLeft(m, next)
  BY <1>1 DEF RoomLeft
<1> QED
  BY <1>2 DEF next

LEMMA SizePending ==
    ASSUME NEW m \in Members, NEW self, NEW tk,
           OInv(log, tk, [member EXCEPT ![m] = self]), SizeOK(log, member),
           m \in DOMAIN member, self.status = "running", RoomLeft(m, self),
           ProcessPendingRequest(m, self)
    PROVE  SizeOK(log', member')
<1>1. MemberOK(log, m, self) /\ log \in Seq(Messages) /\ LogOK(log)
  <2>1. [member EXCEPT ![m] = self][m] = self
    OBVIOUS
  <2> QED
    BY <2>1 DEF OInv, Inv, LogOK
<1>2. CASE /\ member' = [member EXCEPT ![m] = ContributeStatistics(m, self)]
           /\ log' = log
  BY <1>1, <1>2, SizeContribute, SizeLocal
<1>3. CASE /\ member' = [member EXCEPT ![m] =
                 ContributeStatistics(m, [self EXCEPT !.pending_requests = {}])]
           /\ log' = log
  <2> DEFINE forgot == [self EXCEPT !.pending_requests = {}]
             base == [member EXCEPT ![m] = self]
             mid == [base EXCEPT ![m] = forgot]
  <2>1. /\ forgot.status = "running"
        /\ forgot.is_sponsor = self.is_sponsor
        /\ forgot.member_id = self.member_id
    BY <1>1 DEF MemberOK, MemberState, MemberRecords
  <2>2. Inv(log, base) /\ base[m] = self
    BY DEF OInv
  <2> HIDE DEF base
  <2>3. Inv(log, mid)
    BY <2>2, ForgetInv
  <2>4. mid[m] = forgot
    BY <2>2 DEF Inv
  <2> HIDE DEF mid, forgot
  <2>5. MemberOK(log, m, forgot)
    BY <2>3, <2>4 DEF Inv
  <2>6. RoomLeft(m, ContributeStatistics(m, forgot))
    BY <2>1, <2>5, SizeContribute DEF RoomLeft
  <2> QED
    BY <1>3, <2>6, SizeLocal DEF forgot
<1>4. ASSUME self.is_sponsor, NEW e \in Unassigned(self),
             member' = [member EXCEPT ![m] = ContributeStatistics(m, HandOver(self, e))],
             log' = Append(log, Response(m, self, e))
      PROVE  SizeOK(log', member')
  <2> DEFINE handed == HandOver(self, e)
             S == Service(m)
  <2>1. self.member_id + 1 <= member_count[S] /\ e \in Members /\ S \in Services
    <3>1. self.member_id \in Nat /\ e \in Members
      BY <1>1, <1>4, SecretType DEF Unassigned
    <3>2. S \in Services /\ member_count[S] \in Nat
      BY ConfigurationAssumption DEF Service
    <3> QED
      BY <1>4, <3>1, <3>2 DEF RoomLeft
  <2>2. ~ ContributeStatistics(m, handed).is_sponsor
    BY <1>1, <2>1, HandOverEffect DEF ContributeStatistics
  <2>3. SizeOK(log, member')
    <3>1. RoomLeft(m, ContributeStatistics(m, handed))
      BY <2>2 DEF RoomLeft
    <3> QED
      BY <1>4, <3>1, SizeLocal
  <2>4. \A s \in Services : \A i \in ResponsesOf(log', s) :
           log'[i].assigned_id <= member_count[s]
    <3> SUFFICES ASSUME NEW s \in Services, NEW i \in ResponsesOf(log', s)
                 PROVE  log'[i].assigned_id <= member_count[s]
      OBVIOUS
    <3>1. \/ i \in DOMAIN log /\ log'[i] = log[i]
          \/ log'[i] = Response(m, self, e)
      BY <1>1, <1>4 DEF ResponsesOf
    <3>2. log'[i].type = "response" /\ log'[i].service = s
      BY DEF ResponsesOf, IsResponse
    <3>3. CASE i \in DOMAIN log /\ log'[i] = log[i]
      BY <3>2, <3>3 DEF SizeOK, ResponsesOf, IsResponse
    <3>4. CASE log'[i] = Response(m, self, e)
      BY <2>1, <3>2, <3>4 DEF Response
    <3> QED
      BY <3>1, <3>3, <3>4
  <2> QED
    BY <2>3, <2>4 DEF SizeOK
<1> QED
  BY <1>2, <1>3, <1>4 DEF ProcessPendingRequest

\* Who holds the role after a response had it before, or has the id in it.
LEMMA AfterResponseRole ==
    ASSUME NEW l, NEW m \in Members, NEW self, MemberOK(l, m, self), LogOK(l),
           NEW i \in DOMAIN l, l[i].type = "response"
    PROVE  LET new == AfterResponse(m, self, l[i])
           IN  \/ new.is_sponsor = self.is_sponsor /\ new.member_id = self.member_id
               \/ i \in ResponsesOf(l, Service(m)) /\ new.member_id = l[i].assigned_id
<1>1. CASE l[i].service # Service(m)
  BY <1>1 DEF AfterResponse
<1>2. CASE l[i].service = Service(m)
  <2> DEFINE learnt == Learn(m, self, l[i])
  <2>1. IsResponse(l, Service(m), i) /\ i \in ResponsesOf(l, Service(m))
    BY <1>2 DEF IsResponse, ResponsesOf
  <2>2. /\ MemberOK(l, m, learnt)
        /\ learnt.is_sponsor = self.is_sponsor
        /\ learnt.member_id = self.member_id
    BY <2>1, LearnOK
  <2>3. AfterResponse(m, self, l[i]) = BecomeSponsor(m, learnt, l[i])
    BY <1>2 DEF AfterResponse
  <2> HIDE DEF learnt
  <2>4. TakeOver(m, learnt, l[i]).member_id = l[i].assigned_id
    BY <2>2, TakeOverEffect
  <2> QED
    BY <2>1, <2>2, <2>3, <2>4 DEF BecomeSponsor
<1> QED
  BY <1>1, <1>2

LEMMA SizeResponse ==
    ASSUME SomebodyToAgreeWith, SizeInv, NEW m \in Members, NEW i \in DOMAIN log,
           member[m].status = "running", InTurn(m, i),
           Take(m, i), ProcessResponse(m, i)
    PROVE  SizeOK(log', member')
<1> DEFINE self == AfterResponse(m, member[m], log[i])
           base == [member EXCEPT ![m] = self]
<1>1. /\ Inv(log, member)
      /\ LogOK(log)
      /\ log[i].type = "response"
      /\ MemberOK(log, m, member[m])
      /\ SizeOK(log, member)
      /\ m \in DOMAIN member
  BY DEF SizeInv, OrderedInv, OInv, Inv, ProcessResponse
<1>2. self.status = "running"
  BY <1>1, AfterResponseInv
<1>3. OInv(log, taken', base)
  BY <1>1, OrderedAfterResponse DEF SizeInv, OrderedInv, Take, InTurn
<1>4. self.is_sponsor => self.member_id <= member_count[Service(m)]
  <2>1. Service(m) \in Services /\ member_count[Service(m)] \in Nat
    BY ConfigurationAssumption DEF Service
  <2>2. member[m].member_id \in Nat
    BY <1>1, SecretType
  <2>0. \/ /\ self.is_sponsor = member[m].is_sponsor
           /\ self.member_id = member[m].member_id
        \/ /\ i \in ResponsesOf(log, Service(m))
           /\ self.member_id = log[i].assigned_id
    BY <1>1, AfterResponseRole
  <2> HIDE DEF self, base
  <2>3. CASE self.is_sponsor = member[m].is_sponsor /\ self.member_id = member[m].member_id
    <3>1. self.is_sponsor => member[m].is_sponsor
      BY <2>3, Zenon
    <3>2. member[m].is_sponsor => member[m].member_id < member_count[Service(m)]
      BY <1>1, Zenon DEF SizeOK, RoomLeft
    <3> QED
      BY <2>1, <2>2, <2>3, <3>1, <3>2
  <2>4. CASE i \in ResponsesOf(log, Service(m)) /\ self.member_id = log[i].assigned_id
    BY <1>1, <2>1, <2>4 DEF SizeOK
  <2> QED
    BY <2>0, <2>3, <2>4
<1>5. \/ /\ IsLastMember(m, self)
         /\ member' = [member EXCEPT ![m] = ContributeStatistics(m, self)]
         /\ log' = log
      \/ /\ ~ IsLastMember(m, self)
         /\ \E next \in CheckAndAddNextBlindedKeys(self) : ProcessPendingRequest(m, next)
  BY DEF ProcessResponse
<1> HIDE DEF self
<1>6. base[m] = self /\ MemberOK(log, m, self)
  <2>1. base[m] = self
    BY <1>1
  <2> QED
    BY <1>3, <2>1 DEF OInv, Inv
<1>7. CASE /\ IsLastMember(m, self)
           /\ member' = [member EXCEPT ![m] = ContributeStatistics(m, self)]
           /\ log' = log
  <2>1. RoomLeft(m, self) \/ KeyComplete(m, self)
    <3>1. CASE ~ self.is_sponsor
      BY <3>1 DEF RoomLeft
    <3>2. CASE self.is_sponsor
      <4> HIDE DEF base
      <4>1. self.member_id = member_count[Service(m)]
        BY <1>7 DEF IsLastMember
      <4> QED
        BY <1>3, <1>6, <3>2, <4>1, LastComplete
    <3> QED
      BY <3>1, <3>2
  <2>2. RoomLeft(m, ContributeStatistics(m, self))
    BY <1>2, <1>6, <2>1, SizeContribute
  <2> QED
    BY <1>1, <1>7, <2>2, SizeLocal
<1>8. ASSUME ~ IsLastMember(m, self),
             NEW next \in CheckAndAddNextBlindedKeys(self), ProcessPendingRequest(m, next)
      PROVE  SizeOK(log', member')
  <2> HIDE DEF base
  <2>1. /\ MemberOK(log, m, next)
        /\ next.status = "running"
    BY <1>2, <1>6, AddKeysOK
  <2>2. Settled(self, next)
    BY <1>2, <1>6, AddKeysEffect
  <2>3. OInv(log, taken', [base EXCEPT ![m] = next])
    BY <1>2, <1>3, <1>6, <2>1, <2>2, OrderedSettled
  <2>4. OInv(log, taken', [member EXCEPT ![m] = next])
    BY <2>3, OrderedTwice DEF base
  <2>5. RoomLeft(m, next)
    <3>1. self.is_sponsor => IsAssigned(self) /\ self.member_id \in Nat
      BY <1>6, SecretType
    <3>2. member_count[Service(m)] \in Nat
      BY ConfigurationAssumption DEF Service
    <3> QED
      BY <1>4, <1>8, <2>2, <3>1, <3>2 DEF RoomLeft, IsLastMember, Settled
  <2> QED
    BY <1>1, <1>8, <2>1, <2>4, <2>5, SizePending
<1> QED
  BY <1>5, <1>7, <1>8

LEMMA SizeLaunch ==
    ASSUME SomebodyToAgreeWith, SizeInv, NEW m \in Members, Launch(m)
    PROVE  SizeOK(log', member')
<1> DEFINE S == Service(m)
<1>1. /\ SizeOK(log, member)
      /\ m \in DOMAIN member
      /\ log \in Seq(Messages)
      /\ MemberOK(log, m, member[m])
      /\ S \in Services
      /\ member[m].status = "down"
  BY ConfigurationAssumption DEF SizeInv, OrderedInv, OInv, Inv, LogOK, Launch, Service
<1>2. CASE ~ IsFounder(m)
  <2> DEFINE next == [member[m] EXCEPT !.status = "running"]
  <2>1. member' = [member EXCEPT ![m] = next] /\ log' = log
    BY <1>2 DEF Launch
  <2>2. ~ IsAssigned(member[m])
    <3> SUFFICES ASSUME IsAssigned(member[m]) PROVE FALSE
      OBVIOUS
    <3>1. /\ member[m].group_secret[member[m].member_id] = m
          /\ member[m].member_id \in DOMAIN member[m].group_secret
          /\ Backed(log, S, member[m].group_secret)
      BY <1>1, SecretType DEF MemberOK, CountOK, KeysOK, MemberState, MemberRecords,
                              LastKeyId, IsAssigned, DEFAULT_MEMBER_ID
    <3>2. Gives(log, S, member[m].member_id, m)
      BY <3>1 DEF Backed
    <3>3. PICK i \in ResponsesOf(log, S) : log[i].new_sponsor = m
      BY <1>2, <3>2 DEF Gives, IsFounder, ResponsesOf, IsResponse
    <3>4. PICK r \in DOMAIN log : IsRequest(log, r, m)
      BY <1>1, <3>3 DEF SizeInv, OrderedInv, OInv, Ordered, GroupOK, Requested
    <3> QED
      BY <1>1, <3>4 DEF SizeInv, OrderedInv, OInv, Ordered, RequesterInformed
  <2>3. ~ next.is_sponsor
    <3>1. ~ member[m].is_sponsor
      BY <1>1, <2>2, SecretType
    <3> QED
      BY <1>1, <3>1 DEF MemberOK, MemberState, MemberRecords
  <2>4. RoomLeft(m, next)
    BY <2>3 DEF RoomLeft
  <2> QED
    BY <1>1, <2>1, <2>4, SizeLocal
<1>3. CASE IsFounder(m)
  <2>1. log' = Append(log, Offer(m))
    BY <1>3 DEF Launch
  <2>2. /\ Offer(m) \in Messages
        /\ Offer(m).type # "response"
    BY <1>1 DEF Offer, Messages
  <2>3. SizeOK(log, member')
    <3>1. member'[m].member_id = INITIAL_SPONSOR_ID
      <4>1. MemberState(member[m])
        BY <1>1 DEF MemberOK
      <4>2. member' = [member EXCEPT
                         ![m].status = "running",
                         ![m].is_sponsor = TRUE,
                         ![m].member_id = INITIAL_SPONSOR_ID,
                         ![m].group_secret = <<m>>,
                         ![m].blinded_group_secret = <<m>>,
                         ![m].keys_computed_count = 1]
        BY <1>3 DEF Launch
      <4> QED
        BY <1>1, <4>1, <4>2 DEF MemberState, MemberRecords
    <3>2. \A n \in Members \ {m} : member'[n] = member[n]
      BY <1>3 DEF Launch, SizeInv, OrderedInv, OInv, Inv
    <3>3. RoomLeft(m, member'[m])
      <4>1. member_count[S] \in Nat /\ member_count[S] >= 2
        BY <1>1, ConfigurationAssumption DEF SomebodyToAgreeWith
      <4> QED
        BY <3>1, <4>1 DEF RoomLeft, INITIAL_SPONSOR_ID
    <3> QED
      BY <1>1, <3>2, <3>3 DEF SizeOK
  <2> QED
    BY <1>1, <2>1, <2>2, <2>3, SizeQuiet
<1> QED
  BY <1>2, <1>3

LEMMA SizeRequest ==
    ASSUME SizeInv, NEW m \in Members, NEW i \in DOMAIN log, log[i].from # m,
           member[m].status = "running", InTurn(m, i),
           Take(m, i), ProcessRequest(m, i)
    PROVE  SizeOK(log', member')
<1> DEFINE self == NoteRequest(m, member[m], log[i])
           started == [self EXCEPT !.key_agreement_start = TRUE]
           crashed == [self EXCEPT !.status = "crashed"]
<1>1. /\ MemberOK(log, m, member[m])
      /\ LogOK(log)
      /\ m \in DOMAIN member
      /\ SizeOK(log, member)
      /\ Inv(log, member)
  BY DEF SizeInv, OrderedInv, OInv, Inv
<1>2. /\ MemberOK(log, m, self)
      /\ self.is_sponsor = member[m].is_sponsor
      /\ self.member_id = member[m].member_id
      /\ self.status = "running"
  BY <1>1, NoteRequestOK
<1>3. \/ ProcessPendingRequest(m, self)
      \/ ProcessPendingRequest(m, started)
      \/ member' = [member EXCEPT ![m] = crashed] /\ log' = log
  BY DEF ProcessRequest
<1>4. RoomLeft(m, self)
  <2>1. RoomLeft(m, member[m])
    BY <1>1 DEF SizeOK
  <2> HIDE DEF self
  <2> QED
    BY <1>2, <2>1, Zenon DEF RoomLeft
<1>5. /\ OInv(log, taken', [member EXCEPT ![m] = self])
      /\ OInv(log, taken', [member EXCEPT ![m] = started])
  BY <1>1, OrderedNote DEF SizeInv
<1> HIDE DEF self
<1>6. /\ MemberOK(log, m, started) /\ Settled(self, started)
      /\ started.status = "running"
      /\ crashed.status = "crashed"
  BY <1>2, FlagsEffect
<1> HIDE DEF started, crashed
<1>7. RoomLeft(m, started) /\ RoomLeft(m, crashed)
  BY <1>2, <1>4, <1>6, Zenon DEF RoomLeft, Settled
<1>8. CASE member' = [member EXCEPT ![m] = crashed] /\ log' = log
  BY <1>1, <1>7, <1>8, SizeLocal
<1>9. CASE ProcessPendingRequest(m, self) \/ ProcessPendingRequest(m, started)
  BY <1>1, <1>2, <1>4, <1>5, <1>6, <1>7, <1>9, SizePending
<1> QED
  BY <1>3, <1>8, <1>9

LEMMA SizeNext ==
    ASSUME Orderly, SomebodyToAgreeWith, duplicates \in Nat, SizeInv, [Next]_vars
    PROVE  SizeInv'
<1>1. OrderedInv'
  BY NextOrdered DEF SizeInv
<1>2. CASE UNCHANGED vars
  <2>1. SizeOK(log', member')
    BY <1>2 DEF vars, SizeInv
  <2> QED
    BY <1>1, <2>1 DEF SizeInv
<1>3. ASSUME NEW m \in Members, Launch(m) PROVE SizeOK(log', member')
  BY <1>3, SizeLaunch
<1>4. ASSUME NEW m \in Members, NEW i \in DOMAIN log, Deliverable(m, i), Take(m, i),
             \/ ProcessOffer(m, i)
             \/ ProcessRequest(m, i)
             \/ ProcessResponse(m, i)
      PROVE  SizeOK(log', member')
  <2>1. /\ member[m].status = "running"
        /\ log[i].from # m
        /\ InTurn(m, i)
    BY <1>4 DEF Deliverable, Orderly, InTurn
  <2>2. CASE ProcessOffer(m, i)
    <3>1. log \in Seq(Messages) /\ SizeOK(log, member)
      BY DEF SizeInv, OrderedInv, OInv, Inv, LogOK
    <3>2. Request(m) \in Messages /\ Request(m).type # "response"
      BY ConfigurationAssumption DEF Request, Messages, Service
    <3>3. SizeOK(Append(log, Request(m)), member)
      BY <3>1, <3>2, SizeQuiet
    <3> QED
      BY <2>2, <3>1, <3>3 DEF ProcessOffer
  <2> QED
    BY <1>4, <2>1, <2>2, SizeRequest, SizeResponse
<1>5. \A m \in Members : \A i : ~ Duplicate(m, i)
  BY DEF Duplicate, Orderly
<1> QED
  BY <1>1, <1>2, <1>3, <1>4, <1>5 DEF Next, Receive, SizeInv

LEMMA InitSize == Init => SizeOK(log, member)
<1> SUFFICES ASSUME Init PROVE SizeOK(log, member)
  OBVIOUS
<1>1. \A s : ResponsesOf(log, s) = {}
  BY DEF Init, ResponsesOf
<1>2. \A m \in Members : ~ member[m].is_sponsor
  BY DEF Init, InitialMember
<1> QED
  BY <1>1, <1>2 DEF SizeOK, RoomLeft

(***************************************************************************)
(* GroupNotOverfull: however many ask to join, the member that takes the   *)
(* last id knows all others by then, so it stops in the handler that makes *)
(* it the sponsor (contribute_statistics) and never hands the role on.     *)
(***************************************************************************)
THEOREM GroupNeverOverfull ==
    ASSUME Orderly, SomebodyToAgreeWith PROVE Spec => []GroupNotOverfull
<1>1. IInv => duplicates \in Nat
  BY NetworkAssumption DEF IInv
<1>2. SizeInv /\ IInv /\ [Next]_vars => SizeInv'
  BY <1>1, SizeNext
<1>3. Init => SizeInv
  BY InitOrdered, InitSize DEF SizeInv
<1>4. SizeInv => GroupNotOverfull
  BY DEF SizeInv, SizeOK, GroupNotOverfull, Responses, ResponsesOf, IsResponse
<1> QED
  BY <1>2, <1>3, <1>4, Invariant, PTL DEF Spec

-----------------------------------------------------------------------------
(***************************************************************************)
(* StrDh implements GroupKeyAgreement.  The group of s in a log l and for  *)
(* the states mem of the members:                                          *)
(***************************************************************************)
Answers(l, s) == {i \in DOMAIN l : l[i].type = "response" /\ l[i].service = s}

HolderIn(l, s, id) ==
    IF id = INITIAL_SPONSOR_ID
    THEN founder[s]
    ELSE l[CHOOSE i \in Answers(l, s) : l[i].assigned_id = id].new_sponsor

GroupIn(l, mem, s) ==
    IF mem[founder[s]].status = "down"
    THEN <<>>
    ELSE [id \in 1 .. Cardinality(Answers(l, s)) + 1 |-> HolderIn(l, s, id)]

LEMMA GroupMapped ==
    \A s : /\ Group(s) = GroupIn(log, member, s)
           /\ Group(s)' = GroupIn(log', member', s)
BY DEF Group, Holder, Responses, GroupIn, HolderIn, Answers

LEMMA AnswersAre ==
    ASSUME NEW l, NEW s PROVE Answers(l, s) = ResponsesOf(l, s)
BY DEF Answers, ResponsesOf, IsResponse

\* The group is whom the log gives the ids, in their order.
LEMMA GroupShape ==
    ASSUME NEW l, NEW tk, NEW mem, OInv(l, tk, mem), NEW s \in Services,
           mem[founder[s]].status # "down"
    PROVE  LET g == GroupIn(l, mem, s)
           IN  /\ g \in Seq(Members)
               /\ Len(g) = LastId(l, s)
               /\ \A id \in 1 .. Len(g) : Gives(l, s, id, g[id])
               /\ \A id, e : Gives(l, s, id, e) => id \in 1 .. Len(g) /\ g[id] = e
<1> DEFINE g == GroupIn(l, mem, s)
           N == LastId(l, s)
<1>1. /\ LogOK(l)
      /\ IdsConsecutive(l, s)
      /\ founder[s] \in Members
      /\ N \in Nat \ {0}
  BY ConfigurationAssumption, ResponsesFinite DEF OInv, Ordered, GroupOK, Inv, LogOK
<1>2. g = [id \in 1 .. N |-> HolderIn(l, s, id)]
  BY AnswersAre DEF GroupIn, LastId
<1> HIDE DEF g, N
<1>3. ASSUME NEW id \in 1 .. N
      PROVE  Gives(l, s, id, HolderIn(l, s, id)) /\ HolderIn(l, s, id) \in Members
  <2>1. CASE id = INITIAL_SPONSOR_ID
    BY <1>1, <2>1 DEF Gives, HolderIn
  <2>2. CASE id # INITIAL_SPONSOR_ID
    <3> DEFINE i == CHOOSE j \in Answers(l, s) : l[j].assigned_id = id
    <3>1. \E j \in Answers(l, s) : l[j].assigned_id = id
      BY <1>1, <2>2, AnswersAre DEF IdsConsecutive, INITIAL_SPONSOR_ID, N
    <3>2. i \in Answers(l, s) /\ l[i].assigned_id = id
      BY <3>1
    <3>3. HolderIn(l, s, id) = l[i].new_sponsor
      BY <2>2 DEF HolderIn
    <3> HIDE DEF i
    <3>4. i \in DOMAIN l /\ IsResponse(l, s, i) /\ l[i].new_sponsor \in Members
      BY <1>1, <3>2 DEF Answers, IsResponse, LogOK, Messages
    <3> QED
      BY <3>2, <3>3, <3>4 DEF Gives
  <2> QED
    BY <2>1, <2>2
<1>4. /\ g \in Seq(Members)
      /\ Len(g) = N
      /\ \A id \in 1 .. N : g[id] = HolderIn(l, s, id)
  BY <1>1, <1>2, <1>3
<1>5. ASSUME NEW id, NEW e, Gives(l, s, id, e) PROVE id \in 1 .. N /\ g[id] = e
  <2>1. id \in 1 .. N
    <3>1. CASE id = INITIAL_SPONSOR_ID
      BY <1>1, <3>1 DEF INITIAL_SPONSOR_ID
    <3>2. CASE \E i \in ResponsesOf(l, s) : l[i].assigned_id = id
      BY <1>1, <3>2 DEF IdsConsecutive, N
    <3> QED
      BY <1>5, <3>1, <3>2 DEF Gives, ResponsesOf, IsResponse
  <2>2. Gives(l, s, id, g[id])
    BY <1>3, <1>4, <2>1
  <2> QED
    BY <1>1, <1>5, <2>1, <2>2, GivesUnique
<1> QED
  BY <1>3, <1>4, <1>5 DEF g, N

LEMMA GroupType ==
    ASSUME NEW l, NEW tk, NEW mem, OInv(l, tk, mem), NEW s \in Services
    PROVE  GroupIn(l, mem, s) \in Seq(Members)
<1>1. CASE mem[founder[s]].status = "down"
  BY <1>1 DEF GroupIn
<1> QED
  BY <1>1, GroupShape

\* All a member knows is the group's key up to some place, its own or later.
LEMMA KeyInGroup ==
    ASSUME NEW l, NEW tk, NEW mem, OInv(l, tk, mem), NEW m \in Members,
           mem[m].status # "down"
    PROVE  LET g == GroupIn(l, mem, Service(m))
               k == mem[m].group_secret
           IN  /\ k \in Seq(Members)
               /\ Len(k) <= Len(g)
               /\ k = SubSeq(g, 1, Len(k))
               /\ k # <<>> => \E i \in DOMAIN k : k[i] = m
<1> DEFINE s == Service(m)
           g == GroupIn(l, mem, s)
           k == mem[m].group_secret
<1>1. /\ MemberOK(l, m, mem[m])
      /\ LogOK(l)
      /\ s \in Services
      /\ g \in Seq(Members)
      /\ k \in Seq(Members)
  BY ConfigurationAssumption, GroupType, SecretType DEF OInv, Inv, Service
<1>2. CASE ~ IsAssigned(mem[m])
  <2>1. k = <<>>
    BY <1>1, <1>2, SecretType
  <2> HIDE DEF g
  <2> QED
    BY <1>1, <2>1
<1>3. CASE IsAssigned(mem[m])
  <2>1. /\ mem[m].member_id \in DOMAIN k
        /\ k[mem[m].member_id] = m
        /\ \A i \in DOMAIN k : Gives(l, s, i, k[i])
    BY <1>1, <1>3, SecretType DEF MemberOK, KeysOK, Backed, CountOK, MemberState,
                                  MemberRecords, LastKeyId, IsAssigned, DEFAULT_MEMBER_ID
  <2>2. mem[founder[s]].status # "down"
    <3>1. CASE m = founder[s]
      BY <3>1
    <3>2. CASE m # founder[s]
      <4>1. PICK i \in DOMAIN l : IsResponse(l, s, i)
        BY <2>1, <3>2 DEF Gives
      <4> QED
        BY <1>1, <4>1 DEF OInv, Inv, BatonOK, FounderFirst
    <3> QED
      BY <3>1, <3>2
  <2>3. \A i \in DOMAIN k : i \in 1 .. Len(g) /\ g[i] = k[i]
    BY <1>1, <2>1, <2>2, GroupShape
  <2> HIDE DEF g, k
  <2>4. Len(k) <= Len(g)
    <3>1. CASE Len(k) = 0
      BY <1>1, <3>1
    <3>2. CASE Len(k) # 0
      <4>1. Len(k) \in DOMAIN k
        BY <1>1, <3>2
      <4> QED
        BY <1>1, <2>3, <4>1
    <3> QED
      BY <3>1, <3>2
  <2>5. k = SubSeq(g, 1, Len(k))
    BY <1>1, <2>3, <2>4
  <2> QED
    BY <1>1, <2>1, <2>4, <2>5 DEF g, k
<1> QED
  BY <1>2, <1>3

\* How the group follows the log.
LEMMA GroupKept ==
    ASSUME NEW l, NEW tk, NEW mem, OInv(l, tk, mem),
           NEW k, NEW tn, NEW new, OInv(k, tn, new), NEW s \in Services,
           ResponsesOf(k, s) = ResponsesOf(l, s),
           \A i \in ResponsesOf(l, s) : k[i] = l[i],
           mem[founder[s]].status = "down" <=> new[founder[s]].status = "down"
    PROVE  GroupIn(k, new, s) = GroupIn(l, mem, s)
<1>1. CASE mem[founder[s]].status = "down"
  BY <1>1 DEF GroupIn
<1>2. CASE mem[founder[s]].status # "down"
  <2> DEFINE g == GroupIn(l, mem, s)
             h == GroupIn(k, new, s)
  <2>1. /\ g \in Seq(Members)
        /\ Len(g) = LastId(l, s)
        /\ \A id \in 1 .. Len(g) : Gives(l, s, id, g[id])
    BY <1>2, GroupShape
  <2>2. /\ h \in Seq(Members)
        /\ Len(h) = LastId(k, s)
        /\ \A id, e : Gives(k, s, id, e) => id \in 1 .. Len(h) /\ h[id] = e
    BY <1>2, GroupShape
  <2> HIDE DEF g, h
  <2>3. LastId(k, s) = LastId(l, s)
    BY DEF LastId
  <2>4. \A id, e : Gives(l, s, id, e) => Gives(k, s, id, e)
    <3>1. \A i \in DOMAIN l : IsResponse(l, s, i) =>
             i \in DOMAIN k /\ IsResponse(k, s, i) /\ k[i] = l[i]
      BY DEF ResponsesOf, IsResponse
    <3> QED
      BY <3>1 DEF Gives
  <2>5. g = h
    BY <2>1, <2>2, <2>3, <2>4
  <2> QED
    BY <2>5 DEF g, h
<1> QED
  BY <1>1, <1>2

LEMMA GroupAdds ==
    ASSUME NEW l, NEW tk, NEW mem, OInv(l, tk, mem),
           NEW k, NEW tn, NEW new, OInv(k, tn, new), NEW s \in Services,
           NEW r, r \notin ResponsesOf(l, s),
           ResponsesOf(k, s) = ResponsesOf(l, s) \cup {r},
           \A i \in ResponsesOf(l, s) : k[i] = l[i],
           mem[founder[s]].status # "down",
           new[founder[s]].status # "down"
    PROVE  LET g == GroupIn(l, mem, s)
               e == k[r].new_sponsor
           IN  /\ GroupIn(k, new, s) = Append(g, e)
               /\ g # <<>>
               /\ e \in Members
               /\ Service(e) = s
               /\ e # founder[s]
               /\ \A i \in DOMAIN g : g[i] # e
<1> DEFINE g == GroupIn(l, mem, s)
           h == GroupIn(k, new, s)
           e == k[r].new_sponsor
           N == LastId(l, s)
<1>1. /\ LogOK(l) /\ LogOK(k)
      /\ GroupOK(l, mem, s) /\ GroupOK(k, new, s)
      /\ RequesterInformed(k, tn, new)
  BY DEF OInv, Ordered, Inv
<1>2. /\ g \in Seq(Members)
      /\ Len(g) = N
      /\ \A id \in 1 .. Len(g) : Gives(l, s, id, g[id])
  BY GroupShape
<1>3. /\ h \in Seq(Members)
      /\ Len(h) = LastId(k, s)
      /\ \A id, x : Gives(k, s, id, x) => id \in 1 .. Len(h) /\ h[id] = x
  BY GroupShape
<1>4. LastId(k, s) = N + 1 /\ N \in Nat \ {0}
  <2>1. IsFiniteSet(ResponsesOf(l, s)) /\ N \in Nat \ {0}
    BY <1>1, ResponsesFinite DEF LogOK
  <2>2. Cardinality(ResponsesOf(k, s)) = Cardinality(ResponsesOf(l, s)) + 1
    BY <2>1, FS_AddElement
  <2> QED
    BY <2>1, <2>2, FS_CardinalityType DEF LastId
<1> HIDE DEF g, h, N
<1>5. /\ r \in ResponsesOf(k, s)
      /\ IsResponse(k, s, r)
      /\ k[r].assigned_id \in 2 .. N + 1
      /\ e \in Members
      /\ Service(e) = s
  <2>1. r \in ResponsesOf(k, s)
    OBVIOUS
  <2>2. r \in DOMAIN k /\ IsResponse(k, s, r)
    BY <2>1 DEF ResponsesOf
  <2>3. k[r].assigned_id \in 2 .. N + 1
    BY <1>1, <1>4, <2>1 DEF GroupOK, IdsConsecutive
  <2>4. MessageOK(k, k[r]) /\ k[r] \in Messages
    BY <1>1, <2>2 DEF LogOK
  <2>5. e \in Members
    BY <2>2, <2>4 DEF Messages, IsResponse
  <2>6. Service(e) = s
    BY <2>2, <2>4 DEF MessageOK, IsResponse
  <2> QED
    BY <2>1, <2>2, <2>3, <2>5, <2>6
<1>6. k[r].assigned_id = N + 1
  <2>1. ASSUME k[r].assigned_id \in 2 .. N PROVE FALSE
    <3>1. PICK j \in ResponsesOf(l, s) : l[j].assigned_id = k[r].assigned_id
      BY <1>1, <2>1 DEF GroupOK, IdsConsecutive, N
    <3>2. j \in ResponsesOf(k, s) /\ IsResponse(k, s, j)
          /\ k[j].assigned_id = k[r].assigned_id
      BY <3>1 DEF ResponsesOf
    <3>3. k[j].new_sponsor = k[r].new_sponsor
      BY <1>1, <1>5, <3>2 DEF LogOK, GivenOnce, IsResponse
    <3>4. j = r
      BY <1>1, <1>5, <3>2, <3>3 DEF GroupOK, OncePerMember
    <3> QED
      BY <3>1, <3>4
  <2> QED
    BY <1>4, <1>5, <2>1
<1>7. \A id, x : Gives(l, s, id, x) => Gives(k, s, id, x)
  <2>1. \A i \in DOMAIN l : IsResponse(l, s, i) =>
           i \in DOMAIN k /\ IsResponse(k, s, i) /\ k[i] = l[i]
    BY DEF ResponsesOf, IsResponse
  <2> QED
    BY <2>1 DEF Gives
<1>8. h[N + 1] = e /\ \A id \in 1 .. N : h[id] = g[id]
  <2>1. Gives(k, s, N + 1, e)
    BY <1>5, <1>6 DEF Gives, IsResponse
  <2> QED
    BY <1>2, <1>3, <1>7, <2>1
<1>9. h = Append(g, e)
  BY <1>2, <1>3, <1>4, <1>5, <1>8
<1>10. e # founder[s]
  <2>1. PICK i \in DOMAIN k : IsRequest(k, i, e)
    BY <1>1, <1>5 DEF GroupOK, Requested
  <2> QED
    BY <1>1, <1>5, <2>1 DEF RequesterInformed, IsFounder
<1>11. ASSUME NEW i \in DOMAIN g, g[i] = e PROVE FALSE
  <2>1. i \in 1 .. N /\ Gives(l, s, i, e)
    BY <1>2, <1>11
  <2>2. PICK j \in ResponsesOf(l, s) : l[j].assigned_id = i /\ l[j].new_sponsor = e
    BY <1>10, <2>1 DEF Gives, ResponsesOf, IsResponse
  <2>3. j \in ResponsesOf(k, s) /\ k[j].new_sponsor = e
    BY <2>2
  <2>4. j = r
    BY <1>1, <1>5, <2>3 DEF GroupOK, OncePerMember
  <2> QED
    BY <2>2, <2>4
<1>12. g # <<>>
  BY <1>2, <1>4
<1> QED
  BY <1>5, <1>9, <1>10, <1>11, <1>12 DEF g, h

\* A step of m, seen from outside.
Visible(m) ==
    /\ member[m].status # "stopped"
    /\ member'[m].status # "down"
    /\ \A n \in Members \ {m} : member'[n] = member[n]
    /\ Prefix(member[m].group_secret, member'[m].group_secret)

LEMMA MemberSteps ==
    ASSUME OrderedInv, OrderedInv', NEW m \in Members, Visible(m),
           \A s \in Services \ {Service(m)} : Group(s)' = Group(s),
           Group(Service(m))' \in
               {Group(Service(m))} \cup
               {Append(Group(Service(m)), e) :
                   e \in {n \in Members :
                            /\ Service(n) = Service(m)
                            /\ n \notin Agreement!InGroup(Group(Service(m)))
                            /\ (Group(Service(m)) = <<>>) <=> (n = founder[Service(m)])}}
    PROVE  Agreement!Step(m)
<1> DEFINE S == Service(m)
           old == member[m].group_secret
           key == member'[m].group_secret
           ended == {n \in Members : member[n].status = "stopped"}
           endedNext == {n \in Members : member'[n].status = "stopped"}
<1>1. /\ S \in Services
      /\ OInv(log, taken, member)
      /\ OInv(log', taken', member')
      /\ MemberOK(log, m, member[m])
      /\ MemberOK(log', m, member'[m])
      /\ old \in Seq(Members)
      /\ key \in Seq(Members)
  <2>1. OInv(log, taken, member) /\ OInv(log', taken', member')
    BY DEF OrderedInv
  <2>2. MemberOK(log, m, member[m]) /\ MemberOK(log', m, member'[m])
    BY <2>1 DEF OInv, Inv
  <2> QED
    BY <2>1, <2>2, SecretType, ConfigurationAssumption DEF Service
<1>2. [s \in Services |-> Group(s)]' = [[s \in Services |-> Group(s)] EXCEPT ![S] = Group(S)']
  BY <1>1
<1>3. [n \in Members |-> member[n].group_secret]'
        = [[n \in Members |-> member[n].group_secret] EXCEPT ![m] = key]
  BY DEF Visible
<1>4. /\ Len(key) \in Len(old) .. Len(Group(S)')
      /\ key = SubSeq(Group(S)', 1, Len(key))
      /\ key # <<>> => m \in Agreement!InGroup(key)
  <2>1. Group(S)' = GroupIn(log', member', S)
    BY GroupMapped
  <2>2. GroupIn(log', member', S) \in Seq(Members)
    BY <1>1, GroupType
  <2>3. /\ Len(key) <= Len(GroupIn(log', member', S))
        /\ key = SubSeq(GroupIn(log', member', S), 1, Len(key))
        /\ key # <<>> => \E i \in DOMAIN key : key[i] = m
    BY <1>1, KeyInGroup DEF Visible
  <2>4. Len(old) <= Len(key)
    BY DEF Visible, Prefix
  <2> HIDE DEF key, old
  <2> QED
    BY <1>1, <2>1, <2>2, <2>3, <2>4 DEF Agreement!InGroup
<1>5. m \notin ended
  BY DEF Visible
<1>6. \/ endedNext = ended
      \/ Len(key) = member_count[S] /\ endedNext = ended \cup {m}
  <2>1. \A n \in Members \ {m} : n \in endedNext <=> n \in ended
    BY DEF Visible
  <2>2. CASE member'[m].status # "stopped"
    BY <1>5, <2>1, <2>2
  <2>3. CASE member'[m].status = "stopped"
    <3>1. Len(key) = member_count[S]
      BY <1>1, <2>3 DEF MemberOK, StoppedOK, CountOK
    <3> QED
      BY <2>1, <2>3, <3>1
  <2> QED
    BY <2>2, <2>3
<1> HIDE DEF ended, endedNext, key, old
<1>7. key \in {k \in {SubSeq(Group(S)', 1, n) : n \in Len(old) .. Len(Group(S)')} :
                  k # <<>> => m \in Agreement!InGroup(k)}
  BY <1>4
<1>8. /\ Agreement!Service(m) = S
      /\ [s \in Services |-> Group(s)][S] = Group(S)
      /\ [n \in Members |-> member[n].group_secret][m] = old
  BY <1>1 DEF Agreement!Service, Service, old
<1>9. /\ Agreement!Service(m) = S
      /\ Group(S)' \in Agreement!Grown(S)
  BY <1>8 DEF Agreement!Grown, Agreement!Service, Service
<1>10. key \in Agreement!Learnable(m, Group(S)')
  BY <1>7, <1>8 DEF Agreement!Learnable
<1>11. ended' = endedNext
  BY DEF ended, endedNext
<1>12. \/ ended' = ended
       \/ /\ Len(key) = member_count[S]
          /\ ended' = ended \cup {m}
  BY <1>6, <1>11
<1> QED
  BY <1>2, <1>3, <1>5, <1>9, <1>10, <1>12 DEF Agreement!Step, ended

\* A member at work neither goes down nor changes another one, and sends at
\* most one message, a response only for its own group.
SendsResponse(m, k) ==
    \E msg : /\ k = Append(log, msg)
             /\ msg.type = "response"
             /\ msg.service = Service(m)
             /\ msg.from = m

SendsOther(k) == k = log \/ \E msg : k = Append(log, msg) /\ msg.type # "response"

AtWork(m) ==
    /\ member'[m].status # "down"
    /\ \A n \in Members \ {m} : member'[n] = member[n]
    /\ SendsOther(log') \/ SendsResponse(m, log')

LEMMA AtWorkPending ==
    ASSUME NEW m \in Members, Inv(log, member), NEW self, MemberOK(log, m, self),
           self.status = "running", ProcessPendingRequest(m, self)
    PROVE  AtWork(m)
<1>1. self \in MemberRecords(self.assigned_keys, self.assigned_endpoints)
  BY DEF MemberOK, MemberState
<1>2. m \in DOMAIN member
  BY DEF Inv
<1>3. \A n \in Members \ {m} : member'[n] = member[n]
  BY DEF ProcessPendingRequest, Inv
<1>4. CASE member' = [member EXCEPT ![m] = ContributeStatistics(m, self)] /\ log' = log
  <2>1. member'[m] = ContributeStatistics(m, self)
    BY <1>2, <1>4
  <2>2. member'[m].status # "down"
    BY <1>1, <2>1 DEF ContributeStatistics, MemberRecords
  <2> QED
    BY <1>3, <1>4, <2>2 DEF AtWork, SendsOther
<1>5. CASE /\ member' = [member EXCEPT ![m] =
                    ContributeStatistics(m, [self EXCEPT !.pending_requests = {}])]
           /\ log' = log
  <2>1. member'[m] = ContributeStatistics(m, [self EXCEPT !.pending_requests = {}])
    BY <1>2, <1>5
  <2>2. member'[m].status # "down"
    BY <1>1, <2>1 DEF ContributeStatistics, MemberRecords
  <2> QED
    BY <1>3, <1>5, <2>2 DEF AtWork, SendsOther
<1>6. ASSUME NEW e \in Unassigned(self),
             member' = [member EXCEPT ![m] = ContributeStatistics(m, HandOver(self, e))],
             log' = Append(log, Response(m, self, e))
      PROVE  AtWork(m)
  <2>1. member'[m] = ContributeStatistics(m, HandOver(self, e))
    BY <1>2, <1>6
  <2>2. member'[m].status # "down"
    BY <1>1, <2>1 DEF ContributeStatistics, HandOver, MemberRecords
  <2>3. SendsResponse(m, log')
    BY <1>6 DEF SendsResponse, Response
  <2> QED
    BY <1>3, <2>2, <2>3 DEF AtWork
<1> QED
  BY <1>4, <1>5, <1>6 DEF ProcessPendingRequest

LEMMA AtWorkRequest ==
    ASSUME Inv(log, member), NEW m \in Members, NEW i \in DOMAIN log,
           member[m].status = "running", ProcessRequest(m, i)
    PROVE  AtWork(m)
<1> DEFINE self == NoteRequest(m, member[m], log[i])
           started == [self EXCEPT !.key_agreement_start = TRUE]
           crashed == [self EXCEPT !.status = "crashed"]
<1>1. MemberOK(log, m, member[m]) /\ LogOK(log) /\ m \in DOMAIN member
  BY DEF Inv
<1>2. MemberOK(log, m, self) /\ self.status = "running"
  BY <1>1, NoteRequestOK
<1>3. \/ ProcessPendingRequest(m, self)
      \/ ProcessPendingRequest(m, started)
      \/ member' = [member EXCEPT ![m] = crashed] /\ log' = log
  BY DEF ProcessRequest
<1> HIDE DEF self
<1>4. /\ MemberOK(log, m, started)
      /\ started.status = "running"
      /\ crashed.status = "crashed"
  BY <1>2, FlagsEffect
<1> HIDE DEF started, crashed
<1>5. CASE member' = [member EXCEPT ![m] = crashed] /\ log' = log
  <2>1. member'[m] = crashed /\ \A n \in Members \ {m} : member'[n] = member[n]
    BY <1>5 DEF Inv
  <2> QED
    BY <1>4, <1>5, <2>1 DEF AtWork, SendsOther
<1> QED
  BY <1>2, <1>3, <1>4, <1>5, AtWorkPending

LEMMA AtWorkResponse ==
    ASSUME Inv(log, member), NEW m \in Members, NEW i \in DOMAIN log,
           member[m].status = "running", ProcessResponse(m, i)
    PROVE  AtWork(m)
<1> DEFINE self == AfterResponse(m, member[m], log[i])
           base == [member EXCEPT ![m] = self]
<1>1. m \in DOMAIN member /\ log[i].type = "response"
  BY DEF Inv, ProcessResponse
<1>2. Inv(log, base) /\ self.status = "running"
  BY <1>1, AfterResponseInv
<1>3. \/ member' = [member EXCEPT ![m] = ContributeStatistics(m, self)] /\ log' = log
      \/ \E next \in CheckAndAddNextBlindedKeys(self) : ProcessPendingRequest(m, next)
  BY DEF ProcessResponse
<1> HIDE DEF self
<1>4. MemberOK(log, m, self)
  <2>1. base[m] = self
    BY <1>1
  <2> QED
    BY <1>2, <2>1 DEF Inv
<1>5. CASE member' = [member EXCEPT ![m] = ContributeStatistics(m, self)] /\ log' = log
  <2>1. /\ member'[m] = ContributeStatistics(m, self)
        /\ \A n \in Members \ {m} : member'[n] = member[n]
    BY <1>5 DEF Inv
  <2>2. member'[m].status # "down"
    BY <1>2, <1>4, <2>1, ContributeEffect
  <2> QED
    BY <1>5, <2>1, <2>2 DEF AtWork, SendsOther
<1>6. ASSUME NEW next \in CheckAndAddNextBlindedKeys(self), ProcessPendingRequest(m, next)
      PROVE  AtWork(m)
  <2>1. MemberOK(log, m, next) /\ next.status = "running"
    BY <1>2, <1>4, AddKeysOK
  <2> QED
    BY <1>6, <2>1, AtWorkPending
<1> QED
  BY <1>3, <1>5, <1>6

\* What a member at work makes of the groups.
LEMMA ResponsesGrow ==
    ASSUME NEW m \in Members, NEW s \in Services, LogOK(log), AtWork(m)
    PROVE  /\ \A i \in ResponsesOf(log, s) : log'[i] = log[i]
           /\ \/ ResponsesOf(log', s) = ResponsesOf(log, s)
              \/ /\ s = Service(m)
                 /\ Len(log') \notin ResponsesOf(log, s)
                 /\ ResponsesOf(log', s) = ResponsesOf(log, s) \cup {Len(log')}
                 /\ log'[Len(log')].from = m
<1>1. log \in Seq(Messages)
  BY DEF LogOK
<1>2. CASE log' = log
  BY <1>2
<1>3. ASSUME NEW msg, log' = Append(log, msg)
      PROVE  /\ \A i \in DOMAIN log : log'[i] = log[i]
             /\ DOMAIN log' = DOMAIN log \cup {Len(log')}
             /\ Len(log') \notin DOMAIN log
             /\ log'[Len(log')] = msg
  BY <1>1, <1>3
<1>4. ASSUME NEW msg, log' = Append(log, msg),
             msg.type # "response" \/ msg.service # s
      PROVE  /\ \A i \in ResponsesOf(log, s) : log'[i] = log[i]
             /\ ResponsesOf(log', s) = ResponsesOf(log, s)
  BY <1>3, <1>4 DEF ResponsesOf, IsResponse
<1>5. ASSUME NEW msg, log' = Append(log, msg),
             msg.type = "response", msg.service = s
      PROVE  /\ \A i \in ResponsesOf(log, s) : log'[i] = log[i]
             /\ Len(log') \notin ResponsesOf(log, s)
             /\ ResponsesOf(log', s) = ResponsesOf(log, s) \cup {Len(log')}
             /\ log'[Len(log')] = msg
  BY <1>3, <1>5 DEF ResponsesOf, IsResponse
<1>6. CASE \E msg : log' = Append(log, msg) /\ msg.type # "response"
  BY <1>4, <1>6
<1>7. CASE SendsResponse(m, log')
  BY <1>4, <1>5, <1>7 DEF SendsResponse
<1>8. \/ log' = log
      \/ \E msg : log' = Append(log, msg) /\ msg.type # "response"
      \/ SendsResponse(m, log')
  BY DEF AtWork, SendsOther
<1> QED
  BY <1>2, <1>6, <1>7, <1>8

LEMMA GroupAtWork ==
    ASSUME OrderedInv, OrderedInv', NEW m \in Members, NEW s \in Services,
           member[m].status # "down", AtWork(m)
    PROVE  \/ Group(s)' = Group(s)
           \/ /\ s = Service(m)
              /\ Group(s) # <<>>
              /\ \E e \in Members :
                    /\ Group(s)' = Append(Group(s), e)
                    /\ Service(e) = s
                    /\ e # founder[s]
                    /\ \A i \in DOMAIN Group(s) : Group(s)[i] # e
<1>1. /\ OInv(log, taken, member)
      /\ OInv(log', taken', member')
      /\ LogOK(log)
      /\ founder[s] \in Members
  BY ConfigurationAssumption DEF OrderedInv, OInv, Inv
<1>2. Group(s) = GroupIn(log, member, s) /\ Group(s)' = GroupIn(log', member', s)
  BY GroupMapped
<1>3. member[founder[s]].status = "down" <=> member'[founder[s]].status = "down"
  <2>1. CASE founder[s] = m
    BY <2>1 DEF AtWork
  <2>2. CASE founder[s] # m
    <3>1. member'[founder[s]] = member[founder[s]]
      BY <1>1, <2>2 DEF AtWork
    <3> QED
      BY <3>1
  <2> QED
    BY <2>1, <2>2
<1>4. \A i \in ResponsesOf(log, s) : log'[i] = log[i]
  BY <1>1, ResponsesGrow
<1>5. CASE ResponsesOf(log', s) = ResponsesOf(log, s)
  <2>1. GroupIn(log', member', s) = GroupIn(log, member, s)
    BY <1>1, <1>3, <1>4, <1>5, GroupKept
  <2> QED
    BY <1>2, <2>1
<1>6. CASE /\ s = Service(m)
           /\ Len(log') \notin ResponsesOf(log, s)
           /\ ResponsesOf(log', s) = ResponsesOf(log, s) \cup {Len(log')}
  <2> DEFINE r == Len(log')
             e == log'[r].new_sponsor
  <2>1. \E i \in DOMAIN log' : IsResponse(log', s, i)
    <3>1. Len(log') \in ResponsesOf(log', s)
      BY <1>6
    <3> QED
      BY <3>1 DEF ResponsesOf
  <2>2. member'[founder[s]].status # "down"
    BY <1>1, <2>1 DEF OInv, Inv, BatonOK, FounderFirst
  <2>3. member[founder[s]].status # "down"
    BY <1>3, <2>2
  <2> HIDE DEF r
  <2>4. /\ GroupIn(log', member', s) = Append(GroupIn(log, member, s), e)
        /\ GroupIn(log, member, s) # <<>>
        /\ e \in Members
        /\ Service(e) = s
        /\ e # founder[s]
        /\ \A i \in DOMAIN GroupIn(log, member, s) : GroupIn(log, member, s)[i] # e
    BY <1>1, <1>4, <1>6, <2>2, <2>3, GroupAdds DEF r
  <2> HIDE DEF e
  <2> QED
    BY <1>2, <1>6, <2>4
<1> QED
  BY <1>1, <1>5, <1>6, ResponsesGrow

\* A running member's handler is a step of GroupKeyAgreement.
LEMMA WorkImplements ==
    ASSUME OrderedInv, OrderedInv', NEW m \in Members, member[m].status = "running",
           AtWork(m), Prefix(member[m].group_secret, member'[m].group_secret)
    PROVE  Agreement!Step(m)
<1>1. Visible(m)
  BY DEF Visible, AtWork
<1>2. \A s \in Services \ {Service(m)} : Group(s)' = Group(s)
  BY GroupAtWork
<1>3. Service(m) \in Services
  BY ConfigurationAssumption DEF Service
<1>4. CASE Group(Service(m))' = Group(Service(m))
  BY <1>1, <1>2, <1>4, MemberSteps
<1>5. CASE Group(Service(m))' # Group(Service(m))
  <2> DEFINE g == Group(Service(m))
  <2>1. /\ g # <<>>
        /\ \E e \in Members :
              /\ Group(Service(m))' = Append(g, e)
              /\ Service(e) = Service(m)
              /\ e # founder[Service(m)]
              /\ \A i \in DOMAIN g : g[i] # e
    BY <1>3, <1>5, GroupAtWork
  <2> HIDE DEF g
  <2>2. PICK e \in Members :
              /\ Group(Service(m))' = Append(g, e)
              /\ Service(e) = Service(m)
              /\ e # founder[Service(m)]
              /\ \A i \in DOMAIN g : g[i] # e
    BY <2>1
  <2>3. e \notin Agreement!InGroup(g)
    BY <2>2 DEF Agreement!InGroup
  <2>4. e \in {n \in Members :
                 /\ Service(n) = Service(m)
                 /\ n \notin Agreement!InGroup(g)
                 /\ (g = <<>>) <=> (n = founder[Service(m)])}
    BY <2>1, <2>2, <2>3
  <2> QED
    BY <1>1, <1>2, <2>2, <2>4, MemberSteps DEF g
<1> QED
  BY <1>4, <1>5

LEMMA SubscribeImplements ==
    ASSUME OrderedInv, OrderedInv', NEW m \in Members, ~ IsFounder(m), Launch(m)
    PROVE  Agreement!Step(m)
<1>1. /\ member[m].status = "down"
      /\ member' = [member EXCEPT ![m].status = "running"]
      /\ log' = log
      /\ m \in DOMAIN member
      /\ MemberOK(log, m, member[m])
  BY DEF Launch, OrderedInv, OInv, Inv
<1>0. OInv(log, taken, member) /\ OInv(log', taken', member')
  BY DEF OrderedInv
<1>2. /\ member'[m].status = "running"
      /\ \A n \in Members \ {m} : member'[n] = member[n]
      /\ member'[m].group_secret = member[m].group_secret
  <2>1. member[m] \in MemberRecords(member[m].assigned_keys, member[m].assigned_endpoints)
    BY <1>1 DEF MemberOK, MemberState
  <2> QED
    BY <1>1, <2>1 DEF MemberRecords
<1>3. Prefix(member[m].group_secret, member'[m].group_secret)
  BY <1>1, <1>2, SecretType, PrefixSelf
<1>4. Visible(m)
  BY <1>1, <1>2, <1>3 DEF Visible
<1>5. ASSUME NEW s \in Services PROVE Group(s)' = Group(s)
  <2>1. founder[s] \in Members /\ founder[s] # m
    BY ConfigurationAssumption DEF IsFounder, Service
  <2>2. member'[founder[s]] = member[founder[s]]
    BY <1>2, <2>1
  <2>3. /\ ResponsesOf(log', s) = ResponsesOf(log, s)
        /\ \A i \in ResponsesOf(log, s) : log'[i] = log[i]
    BY <1>1
  <2>4. GroupIn(log', member', s) = GroupIn(log, member, s)
    <3>1. member[founder[s]].status = "down" <=> member'[founder[s]].status = "down"
      BY <2>2
    <3> QED
      BY <1>0, <2>3, <3>1, GroupKept
  <2> QED
    BY <2>4, GroupMapped
<1>6. Service(m) \in Services
  BY ConfigurationAssumption DEF Service
<1> QED
  BY <1>4, <1>5, <1>6, MemberSteps

LEMMA FoundImplements ==
    ASSUME OrderedInv, OrderedInv', NEW m \in Members, IsFounder(m), Launch(m)
    PROVE  Agreement!Step(m)
<1> DEFINE S == Service(m)
<1>1. /\ member[m].status = "down"
      /\ member' = [member EXCEPT
                      ![m].status = "running",
                      ![m].is_sponsor = TRUE,
                      ![m].member_id = INITIAL_SPONSOR_ID,
                      ![m].group_secret = <<m>>,
                      ![m].blinded_group_secret = <<m>>,
                      ![m].keys_computed_count = 1]
      /\ log' = Append(log, Offer(m))
      /\ log \in Seq(Messages)
      /\ m \in DOMAIN member
      /\ MemberOK(log, m, member[m])
      /\ Inv(log, member)
  BY DEF Launch, OrderedInv, OInv, Inv, LogOK
<1>0. OInv(log, taken, member) /\ OInv(log', taken', member')
  BY DEF OrderedInv
<1>2. S \in Services /\ m = founder[S]
  BY ConfigurationAssumption DEF IsFounder, Service
<1>3. /\ member'[m].status = "running"
      /\ \A n \in Members \ {m} : member'[n] = member[n]
  <2>1. member[m] \in MemberRecords(member[m].assigned_keys, member[m].assigned_endpoints)
    BY <1>1 DEF MemberOK, MemberState
  <2>2. member'[m] = [member[m] EXCEPT
                        !.status = "running",
                        !.is_sponsor = TRUE,
                        !.member_id = INITIAL_SPONSOR_ID,
                        !.group_secret = <<m>>,
                        !.blinded_group_secret = <<m>>,
                        !.keys_computed_count = 1]
    BY <1>1
  <2>3. \A n \in Members \ {m} : member'[n] = member[n]
    BY <1>1 DEF Inv
  <2> QED
    BY <2>1, <2>2, <2>3 DEF MemberRecords
<1>4. Prefix(member[m].group_secret, member'[m].group_secret)
  BY <1>1, GrowsLaunch DEF Grows, Keeps
<1>5. Visible(m)
  BY <1>1, <1>3, <1>4 DEF Visible
<1>6. ASSUME NEW s \in Services
      PROVE  /\ ResponsesOf(log', s) = ResponsesOf(log, s)
             /\ \A i \in ResponsesOf(log, s) : log'[i] = log[i]
  <2>1. /\ DOMAIN log' = DOMAIN log \cup {Len(log')}
        /\ \A i \in DOMAIN log : log'[i] = log[i]
        /\ log'[Len(log')].type = "offer"
    BY <1>1 DEF Offer
  <2> QED
    BY <2>1 DEF ResponsesOf, IsResponse
<1>7. ASSUME NEW s \in Services \ {S} PROVE Group(s)' = Group(s)
  <2>1. founder[s] \in Members /\ founder[s] # m
    BY <1>7, ConfigurationAssumption DEF Service
  <2>2. member'[founder[s]] = member[founder[s]]
    BY <1>3, <2>1
  <2>3. GroupIn(log', member', s) = GroupIn(log, member, s)
    <3>1. member[founder[s]].status = "down" <=> member'[founder[s]].status = "down"
      BY <2>2
    <3> QED
      BY <1>0, <1>6, <3>1, GroupKept
  <2> QED
    BY <2>3, GroupMapped
<1>8. Group(S) = <<>>
  BY <1>1, <1>2 DEF Group
<1>9. Group(S)' = Append(<<>>, m)
  <2> DEFINE g == GroupIn(log', member', S)
  <2>1. LastId(log', S) = 1
    <3>1. ResponsesOf(log, S) = {}
      BY <1>1, <1>2 DEF Inv, BatonOK, FounderFirst, ResponsesOf
    <3>2. ResponsesOf(log', S) = {}
      BY <1>2, <1>6, <3>1
    <3> QED
      BY <3>2, FS_EmptySet DEF LastId
  <2>2. /\ g \in Seq(Members)
        /\ Len(g) = 1
        /\ \A id, e : Gives(log', S, id, e) => id \in 1 .. Len(g) /\ g[id] = e
    <3>1. member'[founder[S]].status # "down"
      BY <1>2, <1>3
    <3>2. /\ g \in Seq(Members)
          /\ Len(g) = LastId(log', S)
          /\ \A id, e : Gives(log', S, id, e) => id \in 1 .. Len(g) /\ g[id] = e
      BY <1>0, <1>2, <3>1, GroupShape
    <3> QED
      BY <2>1, <3>2
  <2>3. g[1] = m
    <3>1. Gives(log', S, 1, m)
      BY <1>2 DEF Gives, INITIAL_SPONSOR_ID
    <3> HIDE DEF g
    <3> QED
      BY <2>2, <3>1
  <2>4. Group(S)' = g
    BY GroupMapped
  <2> HIDE DEF g
  <2> QED
    BY <2>2, <2>3, <2>4
<1>10. m \in {n \in Members :
                /\ Service(n) = S
                /\ n \notin Agreement!InGroup(Group(S))
                /\ (Group(S) = <<>>) <=> (n = founder[S])}
  BY <1>2, <1>8 DEF Agreement!InGroup
<1>11. Group(S)' = Append(Group(S), m)
  BY <1>8, <1>9
<1> QED
  BY <1>5, <1>7, <1>10, <1>11, MemberSteps

LEMMA ReceiveImplements ==
    ASSUME OrderedInv, OrderedInv', NEW m \in Members, Receive(m)
    PROVE  Agreement!Step(m)
<1>1. Inv(log, member) /\ log \in Seq(Messages)
  BY DEF OrderedInv, OInv, Inv, LogOK
<1>2. PICK i \in DOMAIN log :
         /\ Deliverable(m, i)
         /\ ProcessOffer(m, i) \/ ProcessRequest(m, i) \/ ProcessResponse(m, i)
  BY DEF Receive
<1>3. member[m].status = "running"
  BY <1>2 DEF Deliverable
<1>4. CASE ProcessOffer(m, i)
  <2>1. member' = member /\ (log' = log \/ log' = Append(log, Request(m)))
    BY <1>4 DEF ProcessOffer
  <2>2. AtWork(m)
    BY <1>3, <2>1 DEF AtWork, SendsOther, Request
  <2>3. Prefix(member[m].group_secret, member'[m].group_secret)
    BY <1>1, <2>1, SecretType, PrefixSelf DEF Inv
  <2> QED
    BY <1>3, <2>2, <2>3, WorkImplements
<1>5. CASE ProcessRequest(m, i)
  <2>1. Prefix(member[m].group_secret, member'[m].group_secret)
    BY <1>1, <1>3, <1>5, GrowsRequest DEF Grows, Keeps
  <2> QED
    BY <1>1, <1>3, <1>5, <2>1, AtWorkRequest, WorkImplements
<1>6. CASE ProcessResponse(m, i)
  <2>1. Prefix(member[m].group_secret, member'[m].group_secret)
    BY <1>1, <1>3, <1>6, GrowsResponse DEF Grows, Keeps
  <2> QED
    BY <1>1, <1>3, <1>6, <2>1, AtWorkResponse, WorkImplements
<1> QED
  BY <1>2, <1>4, <1>5, <1>6

LEMMA InitImplements == Init => Agreement!Init
<1> SUFFICES ASSUME Init PROVE Agreement!Init
  OBVIOUS
<1>1. \A n \in Members : /\ member[n].status = "down"
                         /\ member[n].group_secret = <<>>
  BY DEF Init, InitialMember
<1>2. \A s \in Services : Group(s) = <<>>
  BY <1>1, ConfigurationAssumption DEF Group
<1> QED
  BY <1>1, <1>2 DEF Agreement!Init

(***************************************************************************)
(* ImplementsGroupKeyAgreement: where messages are received in order, the  *)
(* protocol is one of members that admit one after the other to a group    *)
(* whose key they learn up to some place, and end with the whole of it.    *)
(***************************************************************************)
THEOREM StrDhImplementsGroupKeyAgreement ==
    ASSUME Orderly PROVE Spec => ImplementsGroupKeyAgreement
<1> DEFINE visible == <<[s \in Services |-> Group(s)],
                        [m \in Members |-> member[m].group_secret],
                        {m \in Members : member[m].status = "stopped"}>>
<1>1. ASSUME IInv, OrderedInv, OrderedInv', [Next]_vars
      PROVE  [Agreement!Next]_visible
  <2>1. CASE UNCHANGED vars
    BY <2>1 DEF vars, Group, Holder, Responses
  <2>2. ASSUME NEW m \in Members, Launch(m) PROVE Agreement!Next
    <3>1. Agreement!Step(m)
      BY <1>1, <2>2, SubscribeImplements, FoundImplements
    <3> QED
      BY <3>1 DEF Agreement!Next
  <2>3. ASSUME NEW m \in Members, Receive(m) PROVE Agreement!Next
    <3>1. Agreement!Step(m)
      BY <1>1, <2>3, ReceiveImplements
    <3> QED
      BY <3>1 DEF Agreement!Next
  <2>4. \A m \in Members : \A i : ~ Duplicate(m, i)
    <3>1. duplicates \in Nat
      BY <1>1, NetworkAssumption DEF IInv
    <3> QED
      BY <3>1 DEF Duplicate, Orderly
  <2> QED
    BY <1>1, <2>1, <2>2, <2>3, <2>4 DEF Next
<1> QED
  BY <1>1, InitImplements, Invariant, OrderedInvariant, PTL
     DEF Spec, ImplementsGroupKeyAgreement, Agreement!Spec, Agreement!vars
=============================================================================
