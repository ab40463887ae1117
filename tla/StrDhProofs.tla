---------------------------- MODULE StrDhProofs ----------------------------
(***************************************************************************)
(* Proofs about StrDh for all values of its constants: any number of       *)
(* members, groups and group sizes, messages lost, reordered and           *)
(* duplicated at will (InOrder and Scripted are either, MaxDuplicates any).*)
(*                                                                         *)
(* The inductive invariant speaks of a log l and of the states mem of the  *)
(* members, so that it can be carried through the parts of a handler, each *)
(* of which maps it to itself, before the handler's effect is complete.    *)
(***************************************************************************)
EXTENDS StrDh, FiniteSetTheorems, TLAPS

IsResponse(l, s, i) == i \in DOMAIN l /\ l[i].type = "response" /\ l[i].service = s

(***************************************************************************)
(* In the group of s, e was given id: the founder the first one, everybody *)
(* else by a response.  All a member holds is backed by such a fact.       *)
(***************************************************************************)
Gives(l, s, id, e) ==
    \/ id = INITIAL_SPONSOR_ID /\ e = founder[s]
    \/ \E i \in DOMAIN l : /\ IsResponse(l, s, i)
                           /\ l[i].assigned_id = id
                           /\ l[i].new_sponsor = e

Backed(l, s, seq) == \A k \in DOMAIN seq : Gives(l, s, k, seq[k])

MessageOK(l, msg) ==
    /\ msg.service = Service(msg.from)
    /\ msg.type = "response" =>
         /\ Service(msg.new_sponsor) = msg.service
         /\ msg.assigned_id >= 2
         /\ Len(msg.blinded_group_secret) = msg.assigned_id - 1
         /\ Backed(l, msg.service, msg.blinded_group_secret)
         /\ Gives(l, msg.service, msg.assigned_id - 1, msg.from)

\* An id is given once.
GivenOnce(l) ==
    \A s \in Services : \A i, j \in DOMAIN l :
        /\ IsResponse(l, s, i)
        /\ IsResponse(l, s, j)
        /\ l[i].assigned_id = l[j].assigned_id
        => l[i].new_sponsor = l[j].new_sponsor

LogOK(l) ==
    /\ l \in Seq(Messages)
    /\ \A i \in DOMAIN l : MessageOK(l, l[i])
    /\ GivenOnce(l)

\* What holds of the state of one member by itself.
KeysOK(l, m, self) ==
    /\ \A id \in DOMAIN self.assigned_keys :
          Gives(l, Service(m), id, self.assigned_keys[id])
    /\ \A e \in self.pending_requests : Service(e) = Service(m)
    /\ Backed(l, Service(m), self.group_secret)

CountOK(m, self) ==
    IF IsAssigned(self)
    THEN /\ Len(self.group_secret) = LastKeyId(self)
         /\ self.keys_computed_count >= 1
         /\ self.group_secret[self.member_id] = m
    ELSE /\ self.group_secret = <<>>
         /\ self.keys_computed_count = 0
         /\ ~ self.is_sponsor

SponsorOK(self) ==
    self.is_sponsor =>
        /\ Len(self.group_secret) = self.member_id
        /\ self.blinded_group_secret = self.group_secret

StoppedOK(m, self) ==
    self.status = "stopped" =>
        /\ IsAssigned(self)
        /\ LastKeyId(self) = member_count[Service(m)]

MemberOK(l, m, self) ==
    /\ MemberState(self)
    /\ KeysOK(l, m, self)
    /\ CountOK(m, self)
    /\ SponsorOK(self)
    /\ StoppedOK(m, self)

(***************************************************************************)
(* The sponsor role: before the founder there is none; there is at most    *)
(* one sponsor and it has the highest id given; while the addressee of a   *)
(* response has no id, its id is the highest and there is no sponsor.      *)
(***************************************************************************)
IsSponsor(mem, s, m) == m \in Members /\ Service(m) = s /\ mem[m].is_sponsor

FounderFirst(l, mem, s) ==
    mem[founder[s]].status = "down" =>
        /\ \A i \in DOMAIN l : ~ IsResponse(l, s, i)
        /\ \A m \in Members : ~ IsSponsor(mem, s, m)

OneSponsor(mem, s) ==
    \A m, n \in Members : IsSponsor(mem, s, m) /\ IsSponsor(mem, s, n) => m = n

SponsorHighest(l, mem, s) ==
    \A m \in Members, i \in DOMAIN l :
        IsSponsor(mem, s, m) /\ IsResponse(l, s, i)
        => l[i].assigned_id <= mem[m].member_id

TransitHighest(l, mem, s) ==
    \A i \in DOMAIN l :
        IsResponse(l, s, i) /\ ~ IsAssigned(mem[l[i].new_sponsor]) =>
            /\ \A m \in Members : ~ IsSponsor(mem, s, m)
            /\ \A j \in DOMAIN l :
                  IsResponse(l, s, j) => l[j].assigned_id <= l[i].assigned_id

BatonOK(l, mem) ==
    \A s \in Services :
        /\ FounderFirst(l, mem, s)
        /\ OneSponsor(mem, s)
        /\ SponsorHighest(l, mem, s)
        /\ TransitHighest(l, mem, s)

Inv(l, mem) ==
    /\ LogOK(l)
    /\ mem \in [Members -> {mem[m] : m \in Members}]
    /\ \A m \in Members : MemberOK(l, m, mem[m])
    /\ BatonOK(l, mem)

-----------------------------------------------------------------------------
(***************************************************************************)
(* Lemmas about the log.                                                   *)
(***************************************************************************)

\* What was given stays given when the log grows.
LEMMA GivesGrows ==
    ASSUME NEW l \in Seq(Messages), NEW msg, NEW s, NEW id, NEW e,
           Gives(l, s, id, e)
    PROVE  Gives(Append(l, msg), s, id, e)
BY DEF Gives, IsResponse

LEMMA BackedGrows ==
    ASSUME NEW l \in Seq(Messages), NEW msg, NEW s, NEW seq,
           Backed(l, s, seq)
    PROVE  Backed(Append(l, msg), s, seq)
BY GivesGrows DEF Backed

LEMMA MessageGrows ==
    ASSUME NEW l \in Seq(Messages), NEW new, NEW msg, MessageOK(l, msg)
    PROVE  MessageOK(Append(l, new), msg)
BY GivesGrows, BackedGrows DEF MessageOK

\* A group has one holder of an id.
LEMMA GivesUnique ==
    ASSUME NEW l, LogOK(l), NEW s \in Services, NEW id, NEW d, NEW e,
           Gives(l, s, id, d), Gives(l, s, id, e)
    PROVE  d = e
<1>1. \A i \in DOMAIN l : IsResponse(l, s, i) => l[i].assigned_id # INITIAL_SPONSOR_ID
    BY DEF LogOK, MessageOK, IsResponse, INITIAL_SPONSOR_ID, Messages, MemberIds, DEFAULT_MEMBER_ID
<1> QED BY <1>1 DEF LogOK, GivenOnce, Gives

\* All the members of a group are of its service.
LEMMA GivesOwn ==
    ASSUME NEW l, LogOK(l), NEW s \in Services, NEW id, NEW e,
           Gives(l, s, id, e)
    PROVE  Service(e) = s
BY ConfigurationAssumption DEF LogOK, MessageOK, Gives, IsResponse, Service

\* Whatever a member knew keeps its backing when the log grows.
LEMMA MemberGrows ==
    ASSUME NEW l \in Seq(Messages), NEW new, NEW m, NEW self, MemberOK(l, m, self)
    PROVE  MemberOK(Append(l, new), m, self)
BY GivesGrows, BackedGrows DEF MemberOK, KeysOK

-----------------------------------------------------------------------------
(***************************************************************************)
(* Lemmas about the maps and the parts of the handlers.                    *)
(***************************************************************************)
LEMMA PutMap ==
    ASSUME NEW S, NEW T, NEW f, f \in [DOMAIN f -> T], DOMAIN f \subseteq S,
           NEW x \in S, NEW y \in T
    PROVE  /\ Put(f, x, y) \in [DOMAIN Put(f, x, y) -> T]
           /\ DOMAIN Put(f, x, y) = DOMAIN f \cup {x}
           /\ DOMAIN Put(f, x, y) \subseteq S
           /\ Put(f, x, y)[x] = y
           /\ \A z \in DOMAIN f : z # x => Put(f, x, y)[z] = f[z]
BY DEF Put

(***************************************************************************)
(* A change of one member that leaves its id and role alone, and does not  *)
(* undo its launch, keeps the invariant.                                   *)
(***************************************************************************)
LEMMA LocalChange ==
    ASSUME NEW l, NEW mem, Inv(l, mem), NEW m \in Members, NEW self,
           MemberOK(l, m, self),
           self.is_sponsor = mem[m].is_sponsor,
           self.member_id = mem[m].member_id,
           self.status = "down" => mem[m].status = "down"
    PROVE  Inv(l, [mem EXCEPT ![m] = self])
<1> DEFINE next == [mem EXCEPT ![m] = self]
<1>1. /\ next \in [Members -> {next[n] : n \in Members}]
      /\ next[m] = self
      /\ \A n \in Members : n # m => next[n] = mem[n]
    BY DEF Inv
<1>2. \A n \in Members : MemberOK(l, n, next[n])
    BY <1>1 DEF Inv
<1>3. \A n \in Members : /\ next[n].is_sponsor = mem[n].is_sponsor
                         /\ next[n].member_id = mem[n].member_id
                         /\ next[n].status = "down" => mem[n].status = "down"
    BY <1>1
<1>4. \A i \in DOMAIN l, s \in Services :
         IsResponse(l, s, i) => l[i].new_sponsor \in Members
    BY DEF Inv, LogOK, IsResponse, Messages
<1>5. BatonOK(l, next)
  <2> SUFFICES ASSUME NEW s \in Services
               PROVE  /\ FounderFirst(l, next, s)
                      /\ OneSponsor(next, s)
                      /\ SponsorHighest(l, next, s)
                      /\ TransitHighest(l, next, s)
      BY DEF BatonOK
  <2> HIDE DEF next
  <2>1. founder[s] \in Members
      BY ConfigurationAssumption
  <2>2. FounderFirst(l, next, s)
      BY <1>3, <2>1 DEF Inv, BatonOK, FounderFirst, IsSponsor
  <2>3. OneSponsor(next, s)
      BY <1>3 DEF Inv, BatonOK, OneSponsor, IsSponsor
  <2>4. SponsorHighest(l, next, s)
      BY <1>3 DEF Inv, BatonOK, SponsorHighest, IsSponsor
  <2>5. TransitHighest(l, next, s)
      BY <1>3, <1>4 DEF Inv, BatonOK, TransitHighest, IsSponsor, IsAssigned
  <2> QED BY <2>2, <2>3, <2>4, <2>5
<1> QED BY <1>1, <1>2, <1>5 DEF Inv

\* Sending an offer or a request keeps the invariant.
LEMMA QuietAppend ==
    ASSUME NEW l, NEW mem, Inv(l, mem), NEW msg \in Messages,
           msg.type # "response", msg.service = Service(msg.from)
    PROVE  Inv(Append(l, msg), mem)
<1> DEFINE k == Append(l, msg)
<1>1. l \in Seq(Messages)
    BY DEF Inv, LogOK
<1>2. /\ k \in Seq(Messages)
      /\ DOMAIN k = DOMAIN l \cup {Len(l) + 1}
      /\ k[Len(l) + 1] = msg
      /\ \A i \in DOMAIN l : k[i] = l[i]
    BY <1>1
<1>3. \A s \in Services, i \in DOMAIN k :
         IsResponse(k, s, i) => i \in DOMAIN l /\ IsResponse(l, s, i) /\ k[i] = l[i]
    BY <1>2 DEF IsResponse
<1>4. \A m \in Members : MemberOK(k, m, mem[m])
    BY <1>1, MemberGrows DEF Inv
<1>5. \A i \in DOMAIN k : MessageOK(k, k[i])
  <2>1. MessageOK(k, msg)
      BY DEF MessageOK
  <2>2. \A i \in DOMAIN l : MessageOK(k, l[i])
      BY <1>1, MessageGrows DEF Inv, LogOK
  <2> QED BY <1>2, <2>1, <2>2
<1> HIDE DEF k
<1>6. GivenOnce(k)
  <2> SUFFICES ASSUME NEW s \in Services, NEW i \in DOMAIN k, NEW j \in DOMAIN k,
                      IsResponse(k, s, i), IsResponse(k, s, j),
                      k[i].assigned_id = k[j].assigned_id
               PROVE  k[i].new_sponsor = k[j].new_sponsor
      BY DEF GivenOnce
  <2> QED BY <1>3 DEF GivenOnce, Inv, LogOK
<1>7. BatonOK(k, mem)
  <2>1. \A s \in Services : FounderFirst(k, mem, s)
      BY <1>3 DEF Inv, BatonOK, FounderFirst
  <2>2. \A s \in Services : SponsorHighest(k, mem, s)
      BY <1>3 DEF Inv, BatonOK, SponsorHighest
  <2>3. \A s \in Services : TransitHighest(k, mem, s)
      BY <1>3 DEF Inv, BatonOK, TransitHighest
  <2> QED BY <2>1, <2>2, <2>3 DEF Inv, BatonOK
<1>8. Inv(k, mem)
    BY <1>2, <1>4, <1>5, <1>6, <1>7 DEF Inv, LogOK
<1> QED BY <1>8 DEF k

-----------------------------------------------------------------------------
(***************************************************************************)
(* The parts of process_response.                                          *)
(***************************************************************************)
LEMMA NoteOK ==
    ASSUME NEW l, NEW m \in Members, NEW self, MemberOK(l, m, self),
           NEW e \in Members, NEW id \in MemberIds, Gives(l, Service(m), id, e)
    PROVE  /\ MemberOK(l, m, Note(m, self, e, id))
           /\ Note(m, self, e, id).is_sponsor = self.is_sponsor
           /\ Note(m, self, e, id).member_id = self.member_id
           /\ Note(m, self, e, id).status = self.status
<1>1. CASE e = m \/ e \in DOMAIN self.assigned_endpoints
    BY <1>1 DEF Note
<1>2. CASE ~ (e = m \/ e \in DOMAIN self.assigned_endpoints)
  <2> DEFINE keys == Put(self.assigned_keys, id, e)
             ends == Put(self.assigned_endpoints, e, id)
             note == [self EXCEPT !.assigned_keys = keys, !.assigned_endpoints = ends]
  <2>1. Note(m, self, e, id) = note
      BY <1>2 DEF Note
  <2> USE DEF MemberOK
  <2>0. MemberState(self)
      OBVIOUS
  <2>2. /\ keys \in [DOMAIN keys -> Members]
        /\ DOMAIN keys \subseteq MemberIds
        /\ \A x \in DOMAIN keys : \/ x = id /\ keys[x] = e
                                  \/ x \in DOMAIN self.assigned_keys
                                     /\ keys[x] = self.assigned_keys[x]
    <3>1. /\ self.assigned_keys \in [DOMAIN self.assigned_keys -> Members]
          /\ DOMAIN self.assigned_keys \subseteq MemberIds
        BY <2>0 DEF MemberState, MemberRecords
    <3>2. /\ DOMAIN keys = DOMAIN self.assigned_keys \cup {id}
          /\ \A x \in DOMAIN keys :
                keys[x] = IF x = id THEN e ELSE self.assigned_keys[x]
        BY DEF Put
    <3>3. /\ keys \in [DOMAIN keys -> Members]
          /\ DOMAIN keys \subseteq MemberIds
        BY <3>1, PutMap
    <3> HIDE DEF keys
    <3> QED BY <3>2, <3>3
  <2>3. /\ ends \in [DOMAIN ends -> MemberIds]
        /\ DOMAIN ends \subseteq Members
    <3>1. /\ self.assigned_endpoints \in [DOMAIN self.assigned_endpoints -> MemberIds]
          /\ DOMAIN self.assigned_endpoints \subseteq Members
        BY <2>0 DEF MemberState, MemberRecords
    <3> QED BY <3>1, PutMap
  <2> HIDE DEF keys, ends
  <2>4. MemberState(note)
    <3>1. /\ note.assigned_keys = keys
          /\ note.assigned_endpoints = ends
        BY <2>0 DEF MemberState, MemberRecords
    <3>2. note \in MemberRecords(keys, ends)
        BY <2>0 DEF MemberState, MemberRecords
    <3> HIDE DEF note
    <3> QED BY <2>2, <2>3, <3>1, <3>2 DEF MemberState, MemberRecords
  <2>5. KeysOK(l, m, note)
      BY <2>0, <2>2 DEF MemberState, MemberRecords, KeysOK
  <2>6. CountOK(m, note) /\ SponsorOK(note) /\ StoppedOK(m, note)
      BY <2>0 DEF MemberState, MemberRecords, CountOK, SponsorOK, StoppedOK, IsAssigned, LastKeyId
  <2> QED BY <2>0, <2>1, <2>4, <2>5, <2>6 DEF MemberState, MemberRecords
<1> QED BY <1>1, <1>2

LEMMA LearnOK ==
    ASSUME NEW l, LogOK(l), NEW m \in Members, NEW self, MemberOK(l, m, self),
           NEW i \in DOMAIN l, IsResponse(l, Service(m), i)
    PROVE  /\ MemberOK(l, m, Learn(m, self, l[i]))
           /\ Learn(m, self, l[i]).is_sponsor = self.is_sponsor
           /\ Learn(m, self, l[i]).member_id = self.member_id
           /\ Learn(m, self, l[i]).status = self.status
<1> DEFINE msg == l[i]
           new == Note(m, self, msg.new_sponsor, msg.assigned_id)
           old == Note(m, new, msg.from, msg.assigned_id - 1)
           learnt == [old EXCEPT !.pending_requests = @ \ {msg.new_sponsor, msg.from}]
<1>1. /\ msg \in Messages
      /\ msg.type = "response"
      /\ msg.new_sponsor \in Members
      /\ msg.from \in Members
      /\ msg.assigned_id \in MemberIds
      /\ MessageOK(l, msg)
      /\ msg.service = Service(m)
    BY DEF LogOK, IsResponse, Messages
<1>2. msg.assigned_id - 1 \in MemberIds
    BY <1>1 DEF MessageOK, MemberIds, DEFAULT_MEMBER_ID
<1>3. Gives(l, Service(m), msg.assigned_id, msg.new_sponsor)
    BY DEF Gives
<1>4. Gives(l, Service(m), msg.assigned_id - 1, msg.from)
    BY <1>1 DEF MessageOK
<1>5. Learn(m, self, l[i]) = learnt
    BY DEF Learn
<1> HIDE DEF msg
<1>6. /\ MemberOK(l, m, new)
      /\ new.is_sponsor = self.is_sponsor
      /\ new.member_id = self.member_id
      /\ new.status = self.status
    BY <1>1, <1>3, NoteOK
<1> HIDE DEF new
<1>7. /\ MemberOK(l, m, old)
      /\ old.is_sponsor = self.is_sponsor
      /\ old.member_id = self.member_id
      /\ old.status = self.status
    BY <1>1, <1>2, <1>4, <1>6, NoteOK
<1> HIDE DEF old
<1>8. MemberState(learnt)
    BY <1>7 DEF MemberOK, MemberState, MemberRecords
<1>9. KeysOK(l, m, learnt)
    BY <1>7 DEF MemberOK, MemberState, MemberRecords, KeysOK
<1>10. CountOK(m, learnt) /\ SponsorOK(learnt) /\ StoppedOK(m, learnt)
    BY <1>7 DEF MemberOK, MemberState, MemberRecords, CountOK, SponsorOK, StoppedOK, IsAssigned, LastKeyId
<1> QED BY <1>5, <1>7, <1>8, <1>9, <1>10 DEF MemberOK, MemberState, MemberRecords

(***************************************************************************)
(* The addressee of a response that has no id yet becomes the only sponsor *)
(* and has the highest id.                                                 *)
(***************************************************************************)
LEMMA TakeOverOK ==
    ASSUME NEW l, LogOK(l), NEW m \in Members, NEW self, MemberOK(l, m, self),
           self.status = "running", ~ IsAssigned(self),
           NEW i \in DOMAIN l, IsResponse(l, Service(m), i), l[i].new_sponsor = m
    PROVE  MemberOK(l, m, TakeOver(m, self, l[i]))
<1> DEFINE msg == l[i]
           secret == Append(msg.blinded_group_secret, m)
           next == TakeOver(m, self, msg)
<1>1. /\ msg.blinded_group_secret \in Seq(Members)
      /\ msg.assigned_id \in MemberIds
      /\ MessageOK(l, msg)
      /\ msg.service = Service(m)
      /\ msg.type = "response"
    BY DEF LogOK, IsResponse, Messages
<1>2. Gives(l, Service(m), msg.assigned_id, m)
    BY DEF Gives
<1> HIDE DEF msg
<1>3. /\ secret \in Seq(Members)
      /\ Len(secret) = msg.assigned_id
      /\ secret[msg.assigned_id] = m
      /\ Backed(l, Service(m), secret)
    BY <1>1, <1>2 DEF MessageOK, Backed, MemberIds, DEFAULT_MEMBER_ID
<1>4. /\ next = [self EXCEPT
            !.is_sponsor = TRUE,
            !.member_id = msg.assigned_id,
            !.group_secret = secret,
            !.blinded_group_secret = secret,
            !.keys_computed_count = self.keys_computed_count + 1]
      /\ self.keys_computed_count = 0
    BY DEF TakeOver, MemberOK, CountOK
<1> HIDE DEF secret, next
<1>5. MemberState(next)
  <2>1. MemberState(self)
      BY DEF MemberOK
  <2>2. msg.assigned_id \in Nat
      BY <1>1 DEF MemberIds
  <2>3. /\ next.assigned_keys = self.assigned_keys
        /\ next.assigned_endpoints = self.assigned_endpoints
      BY <1>4, <2>1 DEF MemberState, MemberRecords
  <2>4. next \in MemberRecords(self.assigned_keys, self.assigned_endpoints)
    <3>1. /\ secret \in Seq(Members)
          /\ next = [self EXCEPT
                !.is_sponsor = TRUE,
                !.member_id = msg.assigned_id,
                !.group_secret = secret,
                !.blinded_group_secret = secret,
                !.keys_computed_count = 1]
        BY <1>3, <1>4
    <3>2. self \in MemberRecords(self.assigned_keys, self.assigned_endpoints)
        BY <2>1 DEF MemberState, MemberRecords
    <3> QED BY <2>2, <3>1, <3>2 DEF MemberRecords
  <2> QED BY <2>1, <2>3, <2>4 DEF MemberState, MemberRecords
<1>6. KeysOK(l, m, next)
    BY <1>3, <1>4 DEF MemberOK, MemberState, MemberRecords, KeysOK
<1>7. CountOK(m, next)
    BY <1>1, <1>3, <1>4
       DEF MemberOK, MemberState, MemberRecords, CountOK, IsAssigned, LastKeyId, MemberIds, DEFAULT_MEMBER_ID
<1>8. SponsorOK(next) /\ StoppedOK(m, next)
    BY <1>3, <1>4 DEF MemberOK, MemberState, MemberRecords, SponsorOK, StoppedOK
<1> QED BY <1>5, <1>6, <1>7, <1>8 DEF MemberOK, next, msg

LEMMA TakeOverInv ==
    ASSUME NEW l, NEW mem, Inv(l, mem), NEW m \in Members,
           mem[m].status = "running", ~ IsAssigned(mem[m]),
           NEW i \in DOMAIN l, IsResponse(l, Service(m), i), l[i].new_sponsor = m
    PROVE  Inv(l, [mem EXCEPT ![m] = TakeOver(m, mem[m], l[i])])
<1> DEFINE next == [mem EXCEPT ![m] = TakeOver(m, mem[m], l[i])]
<1>1. MemberOK(l, m, TakeOver(m, mem[m], l[i]))
    BY TakeOverOK DEF Inv
<1>2. /\ next \in [Members -> {next[n] : n \in Members}]
      /\ next[m] = TakeOver(m, mem[m], l[i])
      /\ \A n \in Members : n # m => next[n] = mem[n]
    BY DEF Inv
<1>3. /\ next[m].is_sponsor
      /\ next[m].member_id = l[i].assigned_id
      /\ next[m].status = mem[m].status
      /\ IsAssigned(next[m])
  <2>1. /\ l[i].assigned_id \in MemberIds
        /\ MemberState(mem[m])
      BY DEF Inv, LogOK, Messages, IsResponse, MemberOK
  <2> QED BY <1>2, <2>1
      DEF TakeOver, IsAssigned, MemberIds, MemberState, MemberRecords
<1>4. \A n \in Members : MemberOK(l, n, next[n])
    BY <1>1, <1>2 DEF Inv
<1> HIDE DEF next
<1>5. /\ Service(m) \in Services
      /\ \A s \in Services : founder[s] \in Members
    BY ConfigurationAssumption DEF Service
<1>6. /\ \A n \in Members : ~ IsSponsor(mem, Service(m), n)
      /\ \A j \in DOMAIN l : IsResponse(l, Service(m), j) =>
             /\ l[j].assigned_id <= l[i].assigned_id
             /\ l[j].assigned_id \in Nat
             /\ l[j].new_sponsor \in Members
    BY <1>5 DEF Inv, BatonOK, TransitHighest, LogOK, Messages, MemberIds, IsResponse
<1>7. ASSUME NEW s \in Services, s # Service(m)
      PROVE  /\ FounderFirst(l, next, s)
             /\ OneSponsor(next, s)
             /\ SponsorHighest(l, next, s)
             /\ TransitHighest(l, next, s)
  <2>1. \A n \in Members : /\ IsSponsor(next, s, n) <=> IsSponsor(mem, s, n)
                           /\ IsSponsor(next, s, n) => next[n] = mem[n]
      BY <1>2, <1>7 DEF IsSponsor
  <2>2. /\ FounderFirst(l, mem, s)
        /\ OneSponsor(mem, s)
        /\ SponsorHighest(l, mem, s)
        /\ TransitHighest(l, mem, s)
      BY DEF Inv, BatonOK
  <2>3. \A j \in DOMAIN l : IsResponse(l, s, j) => l[j].new_sponsor \in Members
      BY DEF Inv, LogOK, IsResponse, Messages
  <2>4. FounderFirst(l, next, s)
      BY <1>2, <1>3, <1>5, <2>1, <2>2 DEF FounderFirst
  <2>5. OneSponsor(next, s)
      BY <2>1, <2>2 DEF OneSponsor
  <2>6. SponsorHighest(l, next, s)
      BY <2>1, <2>2 DEF SponsorHighest
  <2>7. TransitHighest(l, next, s)
      BY <1>2, <1>3, <2>1, <2>2, <2>3 DEF TransitHighest
  <2> QED BY <2>4, <2>5, <2>6, <2>7
<1>8. FounderFirst(l, next, Service(m))
    BY <1>2, <1>3, <1>5 DEF Inv, BatonOK, FounderFirst
<1>9. OneSponsor(next, Service(m))
    BY <1>2, <1>6 DEF OneSponsor, IsSponsor
<1>10. SponsorHighest(l, next, Service(m))
    BY <1>2, <1>3, <1>6 DEF SponsorHighest, IsSponsor
<1>11. TransitHighest(l, next, Service(m))
  <2> SUFFICES ASSUME NEW j \in DOMAIN l, IsResponse(l, Service(m), j),
                      ~ IsAssigned(next[l[j].new_sponsor])
               PROVE  FALSE
      BY DEF TransitHighest
  <2>1. l[j].new_sponsor # m /\ ~ IsAssigned(mem[l[j].new_sponsor])
      BY <1>2, <1>3, <1>6
  <2>2. l[i].assigned_id <= l[j].assigned_id
      BY <1>5, <2>1 DEF Inv, BatonOK, TransitHighest
  <2>3. l[i].assigned_id = l[j].assigned_id
      BY <1>6, <2>2
  <2> QED BY <1>5, <2>1, <2>3 DEF Inv, LogOK, GivenOnce
<1>12. BatonOK(l, next)
    BY <1>7, <1>8, <1>9, <1>10, <1>11 DEF BatonOK
<1>13. Inv(l, next)
    BY <1>2, <1>4, <1>12 DEF Inv
<1> QED BY <1>13 DEF next

LEMMA AddKeysOK ==
    ASSUME NEW l, NEW m \in Members, NEW self, MemberOK(l, m, self),
           self.status = "running", NEW next \in CheckAndAddNextBlindedKeys(self)
    PROVE  /\ MemberOK(l, m, next)
           /\ next.is_sponsor = self.is_sponsor
           /\ next.member_id = self.member_id
           /\ next.status = self.status
<1>1. CASE self.is_sponsor \/ ~ IsAssigned(self)
    BY <1>1 DEF CheckAndAddNextBlindedKeys
<1>2. CASE ~ self.is_sponsor /\ IsAssigned(self)
  <2>1. PICK top \in LastAdded(self) : next = AddKeys(self, top)
      BY <1>2 DEF CheckAndAddNextBlindedKeys
  <2>2. /\ MemberState(self)
        /\ self.member_id \in Nat
        /\ self.member_id # DEFAULT_MEMBER_ID
        /\ self.keys_computed_count \in Nat
        /\ self.keys_computed_count >= 1
        /\ self.group_secret \in Seq(Members)
        /\ Len(self.group_secret) = LastKeyId(self)
        /\ self.group_secret[self.member_id] = m
        /\ self.assigned_keys \in [DOMAIN self.assigned_keys -> Members]
      BY <1>2 DEF MemberOK, MemberState, MemberRecords, CountOK, IsAssigned
  <2>3. /\ LastKeyId(self) \in Nat
        /\ LastKeyId(self) >= self.member_id
        /\ top \in Nat
        /\ top >= LastKeyId(self)
        /\ \A id \in LastKeyId(self) + 1 .. top : id \in DOMAIN self.assigned_keys
      BY <2>2 DEF LastAdded, LastKeyId, DEFAULT_MEMBER_ID
  <2> DEFINE secret == [k \in 1 .. top |-> IF k <= LastKeyId(self)
                                           THEN self.group_secret[k]
                                           ELSE self.assigned_keys[k]]
             blinded == IF top = LastKeyId(self)
                        THEN self.blinded_group_secret ELSE DEFAULT_SECRET
             count == top - self.member_id + 1
  <2>4. next = [self EXCEPT !.group_secret = secret,
                            !.blinded_group_secret = blinded,
                            !.keys_computed_count = count]
      BY <2>1 DEF AddKeys
  <2>5. \A k \in 1 .. top : /\ k <= LastKeyId(self) =>
                                  /\ self.group_secret[k] \in Members
                                  /\ secret[k] = self.group_secret[k]
                            /\ k > LastKeyId(self) =>
                                  /\ self.assigned_keys[k] \in Members
                                  /\ k \in DOMAIN self.assigned_keys
                                  /\ secret[k] = self.assigned_keys[k]
      BY <2>2, <2>3
  <2>6. secret \in [1 .. top -> Members]
      BY <2>3, <2>5
  <2>7. secret \in Seq(Members) /\ Len(secret) = top /\ DOMAIN secret = 1 .. top
      BY <2>3, <2>6
  <2>8. blinded \in Seq(Members)
      BY <2>2 DEF MemberState, MemberRecords, DEFAULT_SECRET
  <2>9. count \in Nat /\ count >= 1
      BY <2>2, <2>3
  <2>10. Backed(l, Service(m), secret)
      BY <2>2, <2>3, <2>5, <2>7 DEF Backed, MemberOK, KeysOK
  <2>11. secret[self.member_id] = m
      BY <2>2, <2>3, <2>5 DEF DEFAULT_MEMBER_ID
  <2> HIDE DEF secret, blinded, count
  <2>12. /\ next.is_sponsor = self.is_sponsor
         /\ next.member_id = self.member_id
         /\ next.status = self.status
         /\ next.group_secret = secret
         /\ next.keys_computed_count = count
         /\ next.pending_requests = self.pending_requests
         /\ next.assigned_keys = self.assigned_keys
         /\ next.assigned_endpoints = self.assigned_endpoints
      BY <2>2, <2>4 DEF MemberState, MemberRecords
  <2>13. next \in MemberRecords(self.assigned_keys, self.assigned_endpoints)
    <3>1. self \in MemberRecords(self.assigned_keys, self.assigned_endpoints)
        BY <2>2 DEF MemberState
    <3>2. secret \in Seq(Members) /\ blinded \in Seq(Members) /\ count \in Nat
        BY <2>7, <2>8, <2>9
    <3>3. [self EXCEPT !.group_secret = secret,
                       !.blinded_group_secret = blinded,
                       !.keys_computed_count = count]
            \in MemberRecords(self.assigned_keys, self.assigned_endpoints)
        BY ONLY <3>1, <3>2 DEF MemberRecords
    <3> QED BY <2>4, <3>3
  <2>14. MemberState(next)
      BY <2>2, <2>12, <2>13 DEF MemberState
  <2>15. KeysOK(l, m, next)
      BY <2>10, <2>12 DEF MemberOK, KeysOK
  <2>16. CountOK(m, next)
    <3>1. count + self.member_id - 1 = top
        BY <2>2, <2>3 DEF count
    <3>2. IsAssigned(next) /\ LastKeyId(next) = top
        BY <2>2, <2>12, <3>1 DEF IsAssigned, LastKeyId
    <3> QED BY <2>7, <2>9, <2>11, <2>12, <3>2 DEF CountOK
  <2>17. SponsorOK(next) /\ StoppedOK(m, next)
      BY <1>2, <2>12 DEF SponsorOK, StoppedOK
  <2> QED BY <2>12, <2>14, <2>15, <2>16, <2>17 DEF MemberOK
<1> QED BY <1>1, <1>2

(***************************************************************************)
(* contribute_statistics: who stops has as many keys as its group members. *)
(***************************************************************************)
LEMMA ContributeOK ==
    ASSUME NEW l, NEW m \in Members, NEW self, MemberOK(l, m, self)
    PROVE  /\ MemberOK(l, m, ContributeStatistics(m, self))
           /\ ContributeStatistics(m, self).is_sponsor = self.is_sponsor
           /\ ContributeStatistics(m, self).member_id = self.member_id
           /\ ContributeStatistics(m, self).status \in {self.status, "stopped"}
<1>1. CASE ~ KeyComplete(m, self)
    BY <1>1 DEF ContributeStatistics
<1>2. CASE KeyComplete(m, self)
  <2> DEFINE next == [self EXCEPT !.status = "stopped"]
  <2>1. /\ MemberState(self)
        /\ self.member_id \in Nat
        /\ self.keys_computed_count \in Nat
        /\ member_count[Service(m)] \in Nat \ {0}
      BY ConfigurationAssumption DEF MemberOK, MemberState, MemberRecords, Service
  <2>2. /\ IsAssigned(self)
        /\ LastKeyId(self) = member_count[Service(m)]
      BY <1>2, <2>1
         DEF KeyComplete, MemberOK, CountOK, IsAssigned, LastKeyId, DEFAULT_MEMBER_ID
  <2>3. next = ContributeStatistics(m, self)
      BY <1>2 DEF ContributeStatistics
  <2>4. /\ next.status = "stopped"
        /\ next.is_sponsor = self.is_sponsor
        /\ next.member_id = self.member_id
        /\ next.group_secret = self.group_secret
        /\ next.blinded_group_secret = self.blinded_group_secret
        /\ next.keys_computed_count = self.keys_computed_count
        /\ next.pending_requests = self.pending_requests
        /\ next.assigned_keys = self.assigned_keys
        /\ next.assigned_endpoints = self.assigned_endpoints
      BY <2>1 DEF MemberState, MemberRecords
  <2>5. next \in MemberRecords(self.assigned_keys, self.assigned_endpoints)
      BY <2>1 DEF MemberState, MemberRecords
  <2> HIDE DEF next
  <2>6. MemberState(next)
      BY <2>1, <2>4, <2>5 DEF MemberState
  <2>7. KeysOK(l, m, next)
      BY <2>4 DEF MemberOK, KeysOK
  <2>8. CountOK(m, next) /\ SponsorOK(next) /\ StoppedOK(m, next)
      BY <2>2, <2>4
         DEF MemberOK, CountOK, SponsorOK, StoppedOK, IsAssigned, LastKeyId
  <2> QED BY <2>3, <2>4, <2>6, <2>7, <2>8 DEF MemberOK
<1> QED BY <1>1, <1>2

-----------------------------------------------------------------------------
(***************************************************************************)
(* Handing the role over: the response the sponsor sends backs what the    *)
(* sponsor notes, and gives an id that is higher than all before.          *)
(***************************************************************************)
LEMMA HandOverOK ==
    ASSUME NEW l, LogOK(l), NEW m \in Members, NEW self, MemberOK(l, m, self),
           self.status = "running", self.is_sponsor,
           NEW e \in Unassigned(self)
    PROVE  LET msg == Response(m, self, e)
           IN  /\ msg \in Messages
               /\ MessageOK(Append(l, msg), msg)
               /\ MemberOK(Append(l, msg), m, HandOver(self, e))
               /\ HandOver(self, e).is_sponsor = FALSE
               /\ HandOver(self, e).member_id = self.member_id
               /\ HandOver(self, e).status = "running"
<1> DEFINE msg == Response(m, self, e)
           k == Append(l, msg)
           id == self.member_id + 1
           keys == Put(self.assigned_keys, id, e)
           ends == Put(self.assigned_endpoints, e, id)
           secret == Append(self.group_secret, e)
           count == self.keys_computed_count + 1
           next == HandOver(self, e)
<1>1. /\ MemberState(self)
      /\ self \in MemberRecords(self.assigned_keys, self.assigned_endpoints)
      /\ self.assigned_keys \in [DOMAIN self.assigned_keys -> Members]
      /\ DOMAIN self.assigned_keys \subseteq MemberIds
      /\ self.assigned_endpoints \in [DOMAIN self.assigned_endpoints -> MemberIds]
      /\ DOMAIN self.assigned_endpoints \subseteq Members
    BY DEF MemberOK, MemberState
<1>2. /\ self.member_id \in Nat
      /\ self.group_secret \in Seq(Members)
      /\ self.keys_computed_count \in Nat
      /\ e \in Members
      /\ Service(e) = Service(m)
    BY <1>1 DEF MemberRecords, Unassigned, MemberOK, KeysOK
<1>3. /\ IsAssigned(self)
      /\ self.member_id >= 1
      /\ self.keys_computed_count >= 1
      /\ Len(self.group_secret) = self.member_id
      /\ Len(self.group_secret) = LastKeyId(self)
      /\ self.group_secret[self.member_id] = m
      /\ self.blinded_group_secret = self.group_secret
      /\ Backed(l, Service(m), self.group_secret)
    BY <1>2 DEF MemberOK, KeysOK, CountOK, SponsorOK, IsAssigned, DEFAULT_MEMBER_ID
<1>4. id \in MemberIds /\ id >= 2
    BY <1>2, <1>3 DEF MemberIds, DEFAULT_MEMBER_ID
<1>5. /\ msg.type = "response" /\ msg.from = m /\ msg.service = Service(m)
      /\ msg.new_sponsor = e /\ msg.assigned_id = id
      /\ msg.blinded_group_secret = self.group_secret
      /\ msg \in Messages
    BY <1>2, <1>3, <1>4, ConfigurationAssumption DEF Response, Messages, Service
<1>6. /\ l \in Seq(Messages)
      /\ k \in Seq(Messages)
      /\ DOMAIN k = DOMAIN l \cup {Len(l) + 1}
      /\ k[Len(l) + 1] = msg
    BY <1>5 DEF LogOK
<1>7. Gives(k, Service(m), id, e)
  <2> HIDE DEF k, msg, id
  <2>1. IsResponse(k, Service(m), Len(l) + 1)
      BY <1>5, <1>6 DEF IsResponse
  <2> QED BY <1>5, <1>6, <2>1 DEF Gives
<1>8. MemberOK(k, m, self)
    BY <1>6, MemberGrows
<1>9. MessageOK(k, msg)
  <2>1. Backed(k, Service(m), self.group_secret)
      BY <1>8 DEF MemberOK, KeysOK
  <2>2. Gives(k, Service(m), self.member_id, m)
      BY <1>2, <1>3, <2>1 DEF Backed
  <2>3. msg.assigned_id - 1 = self.member_id
      BY <1>2, <1>5
  <2>4. /\ Gives(k, msg.service, msg.assigned_id - 1, msg.from)
        /\ Len(msg.blinded_group_secret) = msg.assigned_id - 1
        /\ msg.assigned_id >= 2
      BY <1>3, <1>4, <1>5, <2>2, <2>3
  <2> HIDE DEF k, msg, id
  <2>5. Backed(k, msg.service, msg.blinded_group_secret)
      BY <1>5, <2>1 DEF Backed
  <2> QED BY <1>2, <1>5, <2>4, <2>5 DEF MessageOK
<1>10. /\ keys \in [DOMAIN keys -> Members]
       /\ DOMAIN keys \subseteq MemberIds
       /\ DOMAIN keys = DOMAIN self.assigned_keys \cup {id}
       /\ \A x \in DOMAIN keys :
             keys[x] = IF x = id THEN e ELSE self.assigned_keys[x]
  <2>1. /\ DOMAIN keys = DOMAIN self.assigned_keys \cup {id}
        /\ \A x \in DOMAIN keys :
              keys[x] = IF x = id THEN e ELSE self.assigned_keys[x]
      BY DEF Put
  <2> HIDE DEF id
  <2> QED BY <1>1, <1>2, <1>4, <2>1, PutMap
<1>11. /\ ends \in [DOMAIN ends -> MemberIds]
       /\ DOMAIN ends \subseteq Members
  <2>1. /\ self.assigned_endpoints \in [DOMAIN self.assigned_endpoints -> MemberIds]
        /\ DOMAIN self.assigned_endpoints \subseteq Members
        /\ e \in Members
        /\ id \in MemberIds
      BY <1>1, <1>2, <1>4
  <2> HIDE DEF id
  <2> QED BY ONLY <2>1 DEF Put, ends
<1>12. /\ secret \in Seq(Members)
       /\ Len(secret) = id
       /\ secret[self.member_id] = m
       /\ Backed(k, Service(m), secret)
  <2>1. Backed(k, Service(m), self.group_secret)
      BY <1>8 DEF MemberOK, KeysOK
  <2>2. /\ secret \in Seq(Members)
        /\ Len(secret) = id
        /\ DOMAIN secret = DOMAIN self.group_secret \cup {id}
        /\ secret[id] = e
        /\ \A x \in DOMAIN self.group_secret : secret[x] = self.group_secret[x]
        /\ self.member_id \in DOMAIN self.group_secret
      BY <1>2, <1>3
  <2> HIDE DEF secret, id, k
  <2> QED BY <1>3, <1>7, <2>1, <2>2 DEF Backed
<1>13. next = [self EXCEPT
            !.is_sponsor = FALSE,
            !.pending_requests = {},
            !.group_secret = secret,
            !.blinded_group_secret = DEFAULT_SECRET,
            !.assigned_keys = keys,
            !.assigned_endpoints = ends,
            !.keys_computed_count = count]
    BY DEF HandOver
<1>14. count \in Nat /\ count >= 1
    BY <1>2
<1>15. count + self.member_id - 1 = id
    BY <1>2, <1>3 DEF LastKeyId
<1> HIDE DEF keys, ends, secret, count, next, k, msg, id
<1>16. /\ next.is_sponsor = FALSE
       /\ next.member_id = self.member_id
       /\ next.status = "running"
       /\ next.group_secret = secret
       /\ next.pending_requests = {}
       /\ next.keys_computed_count = count
       /\ next.assigned_keys = keys
       /\ next.assigned_endpoints = ends
    BY <1>1, <1>13 DEF MemberRecords
<1>17. next \in MemberRecords(keys, ends)
  <2>1. /\ self \in MemberRecords(self.assigned_keys, self.assigned_endpoints)
        /\ secret \in Seq(Members)
        /\ count \in Nat
        /\ <<>> \in Seq(Members)
      BY <1>1, <1>12, <1>14
  <2>2. [self EXCEPT
            !.is_sponsor = FALSE,
            !.pending_requests = {},
            !.group_secret = secret,
            !.blinded_group_secret = <<>>,
            !.assigned_keys = keys,
            !.assigned_endpoints = ends,
            !.keys_computed_count = count]
        \in MemberRecords(keys, ends)
      BY ONLY <2>1 DEF MemberRecords
  <2> QED BY <1>13, <2>2 DEF DEFAULT_SECRET
<1>18. MemberState(next)
    BY <1>10, <1>11, <1>16, <1>17 DEF MemberState
<1>19. KeysOK(k, m, next)
    BY <1>7, <1>8, <1>10, <1>12, <1>16 DEF MemberOK, KeysOK
<1>20. IsAssigned(next) /\ LastKeyId(next) = id
    BY <1>3, <1>15, <1>16 DEF IsAssigned, LastKeyId
<1>21. CountOK(m, next) /\ SponsorOK(next) /\ StoppedOK(m, next)
    BY <1>12, <1>14, <1>16, <1>20 DEF CountOK, SponsorOK, StoppedOK
<1>22. MemberOK(k, m, next)
    BY <1>18, <1>19, <1>21 DEF MemberOK
<1> QED BY <1>5, <1>9, <1>16, <1>22 DEF next, k, msg

LEMMA HandOverInv ==
    ASSUME NEW l, NEW mem, Inv(l, mem), NEW m \in Members,
           mem[m].status = "running", mem[m].is_sponsor,
           NEW e \in Unassigned(mem[m])
    PROVE  Inv(Append(l, Response(m, mem[m], e)),
               [mem EXCEPT ![m] = HandOver(mem[m], e)])
<1> DEFINE msg == Response(m, mem[m], e)
           k == Append(l, msg)
           next == [mem EXCEPT ![m] = HandOver(mem[m], e)]
           S == Service(m)
<1>1. /\ LogOK(l)
      /\ MemberOK(l, m, mem[m])
      /\ S \in Services
      /\ \A s \in Services : founder[s] \in Members
    BY ConfigurationAssumption DEF Inv, Service
<1>2. /\ msg \in Messages
      /\ MessageOK(k, msg)
      /\ MemberOK(k, m, HandOver(mem[m], e))
      /\ HandOver(mem[m], e).is_sponsor = FALSE
      /\ HandOver(mem[m], e).member_id = mem[m].member_id
      /\ HandOver(mem[m], e).status = "running"
    BY <1>1, HandOverOK
<1>3. /\ msg.type = "response"
      /\ msg.service = S
      /\ msg.assigned_id = mem[m].member_id + 1
      /\ msg.new_sponsor = e
    BY DEF Response
<1> HIDE DEF msg
<1>4. /\ l \in Seq(Messages)
      /\ k \in Seq(Messages)
      /\ DOMAIN k = DOMAIN l \cup {Len(l) + 1}
      /\ k[Len(l) + 1] = msg
      /\ \A i \in DOMAIN l : k[i] = l[i]
    BY <1>1, <1>2 DEF LogOK
<1>5. /\ next \in [Members -> {next[n] : n \in Members}]
      /\ next[m] = HandOver(mem[m], e)
      /\ \A n \in Members : n # m => next[n] = mem[n]
    BY DEF Inv
<1>6. \A i \in DOMAIN k : MessageOK(k, k[i])
  <2>1. \A i \in DOMAIN l : MessageOK(k, l[i])
      BY <1>1, <1>4, MessageGrows DEF LogOK
  <2> HIDE DEF k
  <2> QED BY <1>2, <1>4, <2>1
<1>7. \A n \in Members : MemberOK(k, n, next[n])
  <2>1. \A n \in Members : MemberOK(k, n, mem[n])
      BY <1>4, MemberGrows DEF Inv
  <2> HIDE DEF k, next
  <2> QED BY <1>2, <1>5, <2>1
<1> HIDE DEF k, next
\* The responses after the step: those before it, and the new, highest one.
<1>8. \A s \in Services, i \in DOMAIN k : IsResponse(k, s, i) =>
         \/ i \in DOMAIN l /\ IsResponse(l, s, i) /\ k[i] = l[i]
         \/ i = Len(l) + 1 /\ s = S /\ k[i] = msg
    BY <1>3, <1>4 DEF IsResponse
<1>9. mem[m].member_id \in Nat
    BY <1>1 DEF MemberOK, MemberState, MemberRecords
<1>10. \A i \in DOMAIN l : IsResponse(l, S, i) =>
          /\ l[i].assigned_id \in Nat
          /\ l[i].assigned_id <= mem[m].member_id
          /\ l[i].new_sponsor \in Members
  <2>1. IsSponsor(mem, S, m)
      BY DEF IsSponsor
  <2>2. \A i \in DOMAIN l : IsResponse(l, S, i) => l[i].assigned_id \in Nat
      BY <1>1 DEF LogOK, IsResponse, Messages, MemberIds
  <2>3. \A i \in DOMAIN l : IsResponse(l, S, i) => l[i].new_sponsor \in Members
      BY <1>1 DEF LogOK, IsResponse, Messages
  <2> QED BY <1>1, <2>1, <2>2, <2>3 DEF Inv, BatonOK, SponsorHighest
<1>11. GivenOnce(k)
  <2> SUFFICES ASSUME NEW s \in Services, NEW i \in DOMAIN k, NEW j \in DOMAIN k,
                      IsResponse(k, s, i), IsResponse(k, s, j),
                      k[i].assigned_id = k[j].assigned_id
               PROVE  k[i].new_sponsor = k[j].new_sponsor
      BY DEF GivenOnce
  <2> QED BY <1>1, <1>3, <1>8, <1>9, <1>10 DEF LogOK, GivenOnce
\* The sponsors after the step: those before it, without m.
<1>12. \A s \in Services, n \in Members :
          IsSponsor(next, s, n) => IsSponsor(mem, s, n) /\ n # m /\ next[n] = mem[n]
    BY <1>2, <1>5 DEF IsSponsor
<1>13. \A n \in Members : ~ IsSponsor(next, S, n)
    BY <1>1, <1>12 DEF Inv, BatonOK, OneSponsor, IsSponsor
<1>14. \A n \in Members : IsAssigned(next[n]) <=> IsAssigned(mem[n])
    BY <1>2, <1>5 DEF IsAssigned
<1>15. \A s \in Services :
          next[founder[s]].status = "down" => mem[founder[s]].status = "down" /\ s # S
  <2>1. mem[founder[S]].status # "down"
      BY <1>1 DEF Inv, BatonOK, FounderFirst, IsSponsor
  <2>2. \A s \in Services :
           next[founder[s]].status = "down" => mem[founder[s]].status = "down"
      BY <1>1, <1>2, <1>5
  <2> QED BY <2>1, <2>2
<1>16. BatonOK(k, next)
  <2> SUFFICES ASSUME NEW s \in Services
               PROVE  /\ FounderFirst(k, next, s)
                      /\ OneSponsor(next, s)
                      /\ SponsorHighest(k, next, s)
                      /\ TransitHighest(k, next, s)
      BY DEF BatonOK
  <2>1. /\ FounderFirst(l, mem, s)
        /\ OneSponsor(mem, s)
        /\ SponsorHighest(l, mem, s)
        /\ TransitHighest(l, mem, s)
      BY DEF Inv, BatonOK
  <2>2. FounderFirst(k, next, s)
      BY <1>8, <1>12, <1>15, <2>1 DEF FounderFirst
  <2>3. OneSponsor(next, s)
      BY <1>12, <2>1 DEF OneSponsor, IsSponsor
  <2>4. SponsorHighest(k, next, s)
      BY <1>8, <1>12, <1>13, <2>1 DEF SponsorHighest
  <2>5. TransitHighest(k, next, s)
    <3>1. CASE s = S
      <4> SUFFICES ASSUME NEW i \in DOMAIN k, IsResponse(k, S, i),
                          ~ IsAssigned(next[k[i].new_sponsor]),
                          NEW j \in DOMAIN k, IsResponse(k, S, j)
                   PROVE  k[j].assigned_id <= k[i].assigned_id
          BY <1>13, <3>1 DEF TransitHighest
      <4>1. i = Len(l) + 1 /\ k[i] = msg
        <5>1. SUFFICES ASSUME i \in DOMAIN l, IsResponse(l, S, i), k[i] = l[i]
                       PROVE  FALSE
            BY <1>1, <1>8
        <5>2. ~ IsAssigned(mem[l[i].new_sponsor])
            BY <1>10, <1>14, <5>1
        <5> QED BY <2>1, <3>1, <5>1, <5>2 DEF TransitHighest, IsSponsor
      <4>2. k[i].assigned_id = mem[m].member_id + 1
          BY <1>3, <4>1
      <4> QED BY <1>1, <1>3, <1>8, <1>9, <1>10, <4>2
    <3>2. CASE s # S
      <4>1. \A i \in DOMAIN l : IsResponse(l, s, i) => l[i].new_sponsor \in Members
          BY <1>1 DEF LogOK, IsResponse, Messages
      <4> QED BY <1>8, <1>12, <1>14, <2>1, <3>2, <4>1 DEF TransitHighest
    <3> QED BY <3>1, <3>2
  <2> QED BY <2>2, <2>3, <2>4, <2>5
<1>17. Inv(k, next)
    BY <1>4, <1>5, <1>6, <1>7, <1>11, <1>16 DEF Inv, LogOK
<1> QED BY <1>17 DEF k, next, msg

-----------------------------------------------------------------------------
(***************************************************************************)
(* The parts of a handler on the whole state: they map the state of m from *)
(* mem[m] on, and the last ones end the handler.                           *)
(***************************************************************************)
\* Two changes of the same member are one.
LEMMA ChangeTwice ==
    ASSUME NEW mem, NEW m \in Members, NEW x, NEW y, NEW l,
           Inv(l, [[mem EXCEPT ![m] = x] EXCEPT ![m] = y])
    PROVE  Inv(l, [mem EXCEPT ![m] = y])
<1>1. [[mem EXCEPT ![m] = x] EXCEPT ![m] = y] = [mem EXCEPT ![m] = y]
    OBVIOUS
<1> QED BY <1>1

LEMMA ContributeInv ==
    ASSUME NEW l, NEW mem, Inv(l, mem), NEW m \in Members
    PROVE  Inv(l, [mem EXCEPT ![m] = ContributeStatistics(m, mem[m])])
<1> DEFINE next == ContributeStatistics(m, mem[m])
<1>1. /\ MemberOK(l, m, next)
      /\ next.is_sponsor = mem[m].is_sponsor
      /\ next.member_id = mem[m].member_id
      /\ next.status \in {mem[m].status, "stopped"}
    BY ContributeOK DEF Inv
<1> HIDE DEF next
<1>2. Inv(l, [mem EXCEPT ![m] = next])
    BY <1>1, LocalChange
<1> QED BY <1>2 DEF next

\* Forgetting the requests.
LEMMA ForgetInv ==
    ASSUME NEW l, NEW mem, Inv(l, mem), NEW m \in Members
    PROVE  Inv(l, [mem EXCEPT ![m] = [mem[m] EXCEPT !.pending_requests = {}]])
<1> DEFINE self == mem[m]
           next == [self EXCEPT !.pending_requests = {}]
<1>1. MemberOK(l, m, self) /\ MemberState(self)
    BY DEF Inv, MemberOK
<1> HIDE DEF self
<1>2. MemberState(next)
    BY <1>1 DEF MemberState, MemberRecords
<1>3. KeysOK(l, m, next) /\ CountOK(m, next) /\ SponsorOK(next) /\ StoppedOK(m, next)
    BY <1>1 DEF MemberOK, MemberState, MemberRecords, KeysOK, CountOK, SponsorOK,
                StoppedOK, IsAssigned, LastKeyId
<1>4. /\ MemberOK(l, m, next)
      /\ next.is_sponsor = self.is_sponsor
      /\ next.member_id = self.member_id
      /\ next.status = self.status
    BY <1>1, <1>2, <1>3 DEF MemberOK, MemberState, MemberRecords
<1> HIDE DEF next
<1>5. Inv(l, [mem EXCEPT ![m] = next])
    BY <1>4, LocalChange DEF self
<1> QED BY <1>5 DEF next, self

LEMMA AfterResponseInv ==
    ASSUME NEW l, NEW mem, Inv(l, mem), NEW m \in Members, mem[m].status = "running",
           NEW i \in DOMAIN l, l[i].type = "response"
    PROVE  /\ Inv(l, [mem EXCEPT ![m] = AfterResponse(m, mem[m], l[i])])
           /\ AfterResponse(m, mem[m], l[i]).status = "running"
<1> DEFINE self == mem[m]
           learnt == Learn(m, self, l[i])
           base == [mem EXCEPT ![m] = learnt]
<1>1. MemberOK(l, m, self) /\ LogOK(l)
    BY DEF Inv
<1>2. CASE l[i].service # Service(m)
  <2>1. AfterResponse(m, self, l[i]) = self
      BY <1>2 DEF AfterResponse
  <2>2. [mem EXCEPT ![m] = self] = mem
      BY DEF Inv
  <2> QED BY <2>1, <2>2
<1>3. CASE l[i].service = Service(m)
  <2>1. IsResponse(l, Service(m), i)
      BY <1>3 DEF IsResponse
  <2>2. /\ MemberOK(l, m, learnt)
        /\ learnt.is_sponsor = self.is_sponsor
        /\ learnt.member_id = self.member_id
        /\ learnt.status = "running"
      BY <1>1, <2>1, LearnOK
  <2>3. AfterResponse(m, self, l[i]) = BecomeSponsor(m, learnt, l[i])
      BY <1>3 DEF AfterResponse
  <2> HIDE DEF learnt
  <2>4. Inv(l, base) /\ base[m] = learnt
      BY <2>2, LocalChange DEF Inv
  <2>5. CASE ~ Addressed(m, learnt, l[i])
      BY <2>2, <2>3, <2>4, <2>5 DEF BecomeSponsor
  <2>6. CASE Addressed(m, learnt, l[i])
    <3>1. ~ IsAssigned(learnt) /\ l[i].new_sponsor = m
        BY <2>6 DEF Addressed
    <3> HIDE DEF base
    <3>2. Inv(l, [base EXCEPT ![m] = TakeOver(m, learnt, l[i])])
        BY <2>1, <2>2, <2>4, <3>1, TakeOverInv
    <3>3. TakeOver(m, learnt, l[i]).status = "running"
        BY <2>2 DEF TakeOver, MemberOK, MemberState, MemberRecords
    <3>4. Inv(l, [mem EXCEPT ![m] = TakeOver(m, learnt, l[i])])
        BY <3>2, ChangeTwice DEF base
    <3> QED BY <2>3, <2>6, <3>3, <3>4 DEF BecomeSponsor
  <2> QED BY <2>5, <2>6
<1> QED BY <1>2, <1>3

LEMMA PendingRequestInv ==
    ASSUME NEW m \in Members, NEW self, Inv(log, [member EXCEPT ![m] = self]),
           m \in DOMAIN member, self.status = "running", ProcessPendingRequest(m, self)
    PROVE  Inv(log', member')
<1> DEFINE base == [member EXCEPT ![m] = self]
<1>1. base[m] = self /\ Inv(log, base)
    OBVIOUS
<1> HIDE DEF base
<1>2. CASE /\ member' = [member EXCEPT ![m] = ContributeStatistics(m, self)]
           /\ log' = log
  <2>1. Inv(log, [base EXCEPT ![m] = ContributeStatistics(m, self)])
      BY <1>1, ContributeInv
  <2> QED BY <1>2, <2>1, ChangeTwice DEF base
<1>3. CASE /\ member' = [member EXCEPT ![m] =
                 ContributeStatistics(m, [self EXCEPT !.pending_requests = {}])]
           /\ log' = log
  <2> DEFINE forgot == [self EXCEPT !.pending_requests = {}]
             mid == [base EXCEPT ![m] = forgot]
  <2>1. Inv(log, mid)
      BY <1>1, ForgetInv
  <2>2. mid[m] = forgot
      BY <1>1 DEF Inv
  <2> HIDE DEF mid, forgot
  <2>3. Inv(log, [mid EXCEPT ![m] = ContributeStatistics(m, forgot)])
      BY <2>1, <2>2, ContributeInv
  <2>4. Inv(log, [base EXCEPT ![m] = ContributeStatistics(m, forgot)])
      BY <2>3, ChangeTwice DEF mid
  <2> QED BY <1>3, <2>4, ChangeTwice DEF base, forgot
<1>4. ASSUME self.is_sponsor, NEW e \in Unassigned(self),
             member' = [member EXCEPT ![m] = ContributeStatistics(m, HandOver(self, e))],
             log' = Append(log, Response(m, self, e))
      PROVE  Inv(log', member')
  <2> DEFINE handed == HandOver(self, e)
             mid == [base EXCEPT ![m] = handed]
  <2>1. Inv(log', mid)
      BY <1>1, <1>4, HandOverInv
  <2>2. mid[m] = handed
      BY <1>1 DEF Inv
  <2> HIDE DEF mid, handed
  <2>3. Inv(log', [mid EXCEPT ![m] = ContributeStatistics(m, handed)])
      BY <2>1, <2>2, ContributeInv
  <2>4. Inv(log', [base EXCEPT ![m] = ContributeStatistics(m, handed)])
      BY <2>3, ChangeTwice DEF mid
  <2> QED BY <1>4, <2>4, ChangeTwice DEF base, handed
<1> QED BY <1>2, <1>3, <1>4 DEF ProcessPendingRequest

LEMMA NoteRequestOK ==
    ASSUME NEW l, LogOK(l), NEW m \in Members, NEW self, MemberOK(l, m, self),
           NEW i \in DOMAIN l
    PROVE  /\ MemberOK(l, m, NoteRequest(m, self, l[i]))
           /\ NoteRequest(m, self, l[i]).is_sponsor = self.is_sponsor
           /\ NoteRequest(m, self, l[i]).member_id = self.member_id
           /\ NoteRequest(m, self, l[i]).status = self.status
<1> DEFINE next == [self EXCEPT !.pending_requests = @ \cup {l[i].from}]
<1>1. CASE l[i].service = Service(m)
  <2>1. MemberState(self)
      BY DEF MemberOK
  <2>2. l[i].from \in Members /\ Service(l[i].from) = Service(m)
      BY <1>1 DEF LogOK, Messages, MessageOK
  <2>3. MemberState(next)
      BY <2>1, <2>2 DEF MemberState, MemberRecords
  <2>4. KeysOK(l, m, next) /\ CountOK(m, next) /\ SponsorOK(next) /\ StoppedOK(m, next)
      BY <2>1, <2>2 DEF MemberOK, MemberState, MemberRecords, KeysOK, CountOK, SponsorOK,
                        StoppedOK, IsAssigned, LastKeyId
  <2>5. /\ MemberOK(l, m, next)
        /\ next.is_sponsor = self.is_sponsor
        /\ next.member_id = self.member_id
        /\ next.status = self.status
      BY <2>1, <2>3, <2>4 DEF MemberOK, MemberState, MemberRecords
  <2> HIDE DEF next
  <2>6. NoteRequest(m, self, l[i]) \in {self, next}
      BY DEF NoteRequest, next
  <2> QED BY <2>5, <2>6
<1>2. CASE l[i].service # Service(m)
    BY <1>2 DEF NoteRequest
<1> QED BY <1>1, <1>2

\* Changes of the fields the invariant does not speak of.
LEMMA FlagsOK ==
    ASSUME NEW l, NEW m \in Members, NEW self, MemberOK(l, m, self), NEW next,
           next \in MemberRecords(self.assigned_keys, self.assigned_endpoints),
           next.status # "stopped",
           next.is_sponsor = self.is_sponsor,
           next.member_id = self.member_id,
           next.group_secret = self.group_secret,
           next.blinded_group_secret = self.blinded_group_secret,
           next.keys_computed_count = self.keys_computed_count,
           next.pending_requests = self.pending_requests
    PROVE  MemberOK(l, m, next)
<1>1. /\ next.assigned_keys = self.assigned_keys
      /\ next.assigned_endpoints = self.assigned_endpoints
    BY DEF MemberRecords
<1>2. MemberState(next)
    BY <1>1 DEF MemberOK, MemberState
<1>3. KeysOK(l, m, next) /\ CountOK(m, next) /\ SponsorOK(next) /\ StoppedOK(m, next)
    BY <1>1 DEF MemberOK, KeysOK, CountOK, SponsorOK, StoppedOK, IsAssigned, LastKeyId
<1> QED BY <1>2, <1>3 DEF MemberOK

-----------------------------------------------------------------------------
(***************************************************************************)
(* Every action keeps the invariant.                                       *)
(***************************************************************************)
LEMMA LaunchInv ==
    ASSUME Inv(log, member), NEW m \in Members, Launch(m)
    PROVE  Inv(log', member')
<1> DEFINE self == member[m]
           S == Service(m)
<1>1. /\ self.status = "down"
      /\ MemberOK(log, m, self)
      /\ MemberState(self)
      /\ LogOK(log)
      /\ S \in Services
      /\ \A s \in Services : founder[s] \in Members
    BY ConfigurationAssumption DEF Inv, MemberOK, Launch, Service
<1>2. CASE ~ IsFounder(m)
  <2> DEFINE next == [self EXCEPT !.status = "running"]
  <2>1. member' = [member EXCEPT ![m] = next] /\ log' = log
      BY <1>2 DEF Launch
  <2>2. next \in MemberRecords(self.assigned_keys, self.assigned_endpoints)
      BY <1>1 DEF MemberState, MemberRecords
  <2>3. /\ next.status = "running"
        /\ next.is_sponsor = self.is_sponsor
        /\ next.member_id = self.member_id
        /\ next.group_secret = self.group_secret
        /\ next.blinded_group_secret = self.blinded_group_secret
        /\ next.keys_computed_count = self.keys_computed_count
        /\ next.pending_requests = self.pending_requests
      BY <1>1 DEF MemberState, MemberRecords
  <2> HIDE DEF next
  <2>4. MemberOK(log, m, next)
      BY <1>1, <2>2, <2>3, FlagsOK
  <2>5. Inv(log, [member EXCEPT ![m] = next])
      BY <1>1, <2>3, <2>4, LocalChange
  <2> QED BY <2>1, <2>5
<1>3. CASE IsFounder(m)
  <2> DEFINE first == [self EXCEPT !.status = "running",
                                   !.is_sponsor = TRUE,
                                   !.member_id = 1,
                                   !.group_secret = <<m>>,
                                   !.blinded_group_secret = <<m>>,
                                   !.keys_computed_count = 1]
             next == [member EXCEPT ![m] = first]
  <2>1. member' = next /\ log' = Append(log, Offer(m))
      BY <1>3 DEF Launch, INITIAL_SPONSOR_ID
  <2>2. m = founder[S]
      BY <1>3 DEF IsFounder
  <2>3. /\ first.status = "running"
        /\ first.is_sponsor = TRUE
        /\ first.member_id = 1
        /\ first.group_secret = <<m>>
        /\ first.blinded_group_secret = <<m>>
        /\ first.keys_computed_count = 1
        /\ first.pending_requests = self.pending_requests
        /\ first.assigned_keys = self.assigned_keys
        /\ first.assigned_endpoints = self.assigned_endpoints
      BY <1>1 DEF MemberState, MemberRecords
  <2>4. first \in MemberRecords(self.assigned_keys, self.assigned_endpoints)
    <3>1. /\ self \in MemberRecords(self.assigned_keys, self.assigned_endpoints)
          /\ <<m>> \in Seq(Members)
        BY <1>1 DEF MemberState
    <3> HIDE DEF self
    <3> QED BY ONLY <3>1 DEF MemberRecords, first
  <2> HIDE DEF first
  <2>5. MemberState(first)
      BY <1>1, <2>3, <2>4 DEF MemberState
  <2>6. KeysOK(log, m, first)
    <3>1. Backed(log, S, <<m>>)
        BY <2>2 DEF Backed, Gives, INITIAL_SPONSOR_ID
    <3> QED BY <1>1, <2>3, <3>1 DEF MemberOK, KeysOK
  <2>7. CountOK(m, first) /\ SponsorOK(first) /\ StoppedOK(m, first)
      BY <2>3 DEF CountOK, SponsorOK, StoppedOK, IsAssigned, LastKeyId, DEFAULT_MEMBER_ID
  <2>8. MemberOK(log, m, first)
      BY <2>5, <2>6, <2>7 DEF MemberOK
  <2>9. /\ next \in [Members -> {next[n] : n \in Members}]
        /\ next[m] = first
        /\ \A n \in Members : n # m => next[n] = member[n]
      BY DEF Inv
  <2> HIDE DEF next
  <2>10. /\ \A i \in DOMAIN log : ~ IsResponse(log, S, i)
         /\ \A n \in Members : ~ IsSponsor(member, S, n)
      BY <1>1, <2>2 DEF Inv, BatonOK, FounderFirst
  <2>11. BatonOK(log, next)
    <3> SUFFICES ASSUME NEW s \in Services
                 PROVE  /\ FounderFirst(log, next, s)
                        /\ OneSponsor(next, s)
                        /\ SponsorHighest(log, next, s)
                        /\ TransitHighest(log, next, s)
        BY DEF BatonOK
    <3>1. CASE s = S
      <4>1. FounderFirst(log, next, s)
          BY <2>2, <2>3, <2>9, <3>1 DEF FounderFirst
      <4>2. OneSponsor(next, s)
          BY <2>9, <2>10, <3>1 DEF OneSponsor, IsSponsor
      <4>3. SponsorHighest(log, next, s) /\ TransitHighest(log, next, s)
          BY <2>10, <3>1 DEF SponsorHighest, TransitHighest
      <4> QED BY <4>1, <4>2, <4>3
    <3>2. CASE s # S
      <4>1. \A n \in Members : /\ IsSponsor(next, s, n) <=> IsSponsor(member, s, n)
                               /\ IsSponsor(next, s, n) => next[n] = member[n]
          BY <2>9, <3>2 DEF IsSponsor
      <4>2. /\ FounderFirst(log, member, s)
            /\ OneSponsor(member, s)
            /\ SponsorHighest(log, member, s)
            /\ TransitHighest(log, member, s)
          BY DEF Inv, BatonOK
      <4>3. \A j \in DOMAIN log : IsResponse(log, s, j) =>
               /\ log[j].new_sponsor \in Members
               /\ Service(log[j].new_sponsor) = s
          BY <1>1 DEF LogOK, IsResponse, Messages, MessageOK
      <4>4. FounderFirst(log, next, s)
          BY <1>1, <2>9, <4>1, <4>2 DEF FounderFirst
      <4>5. OneSponsor(next, s)
          BY <4>1, <4>2 DEF OneSponsor
      <4>6. SponsorHighest(log, next, s)
          BY <4>1, <4>2 DEF SponsorHighest
      <4>7. TransitHighest(log, next, s)
          BY <2>9, <3>2, <4>1, <4>2, <4>3 DEF TransitHighest
      <4> QED BY <4>4, <4>5, <4>6, <4>7
    <3> QED BY <3>1, <3>2
  <2>12. Inv(log, next)
      BY <1>1, <2>8, <2>9, <2>11 DEF Inv
  <2>13. /\ Offer(m) \in Messages
         /\ Offer(m).type # "response"
         /\ Offer(m).service = Service(Offer(m).from)
      BY <1>1 DEF Offer, Messages
  <2> QED BY <2>1, <2>12, <2>13, QuietAppend
<1> QED BY <1>2, <1>3

LEMMA OfferInv ==
    ASSUME Inv(log, member), NEW m \in Members, NEW i \in DOMAIN log, ProcessOffer(m, i)
    PROVE  Inv(log', member')
<1>1. /\ Request(m) \in Messages
      /\ Request(m).type # "response"
      /\ Request(m).service = Service(Request(m).from)
    BY ConfigurationAssumption DEF Request, Messages, Service
<1>2. Inv(Append(log, Request(m)), member)
    BY <1>1, QuietAppend
<1> QED BY <1>2 DEF ProcessOffer

LEMMA RequestInv ==
    ASSUME Inv(log, member), NEW m \in Members, NEW i \in DOMAIN log,
           member[m].status = "running", ProcessRequest(m, i)
    PROVE  Inv(log', member')
<1> DEFINE self == NoteRequest(m, member[m], log[i])
           started == [self EXCEPT !.key_agreement_start = TRUE]
           crashed == [self EXCEPT !.status = "crashed"]
<1>1. /\ MemberOK(log, m, self)
      /\ self.is_sponsor = member[m].is_sponsor
      /\ self.member_id = member[m].member_id
      /\ self.status = "running"
    BY NoteRequestOK DEF Inv
<1>2. m \in DOMAIN member
    BY DEF Inv
<1>3. \/ ProcessPendingRequest(m, self)
      \/ ProcessPendingRequest(m, started)
      \/ member' = [member EXCEPT ![m] = crashed] /\ log' = log
    BY DEF ProcessRequest
<1> HIDE DEF self
<1>4. MemberState(self)
    BY <1>1 DEF MemberOK
<1>5. /\ MemberOK(log, m, started)
      /\ started.is_sponsor = member[m].is_sponsor
      /\ started.member_id = member[m].member_id
      /\ started.status = "running"
  <2>1. started \in MemberRecords(self.assigned_keys, self.assigned_endpoints)
      BY <1>4 DEF MemberState, MemberRecords
  <2>2. /\ started.status = "running"
        /\ started.is_sponsor = self.is_sponsor
        /\ started.member_id = self.member_id
        /\ started.group_secret = self.group_secret
        /\ started.blinded_group_secret = self.blinded_group_secret
        /\ started.keys_computed_count = self.keys_computed_count
        /\ started.pending_requests = self.pending_requests
      BY <1>1, <1>4 DEF MemberState, MemberRecords
  <2> HIDE DEF started
  <2> QED BY <1>1, <2>1, <2>2, FlagsOK
<1>6. /\ MemberOK(log, m, crashed)
      /\ crashed.is_sponsor = member[m].is_sponsor
      /\ crashed.member_id = member[m].member_id
      /\ crashed.status = "crashed"
  <2>1. crashed \in MemberRecords(self.assigned_keys, self.assigned_endpoints)
      BY <1>4 DEF MemberState, MemberRecords
  <2>2. /\ crashed.status = "crashed"
        /\ crashed.is_sponsor = self.is_sponsor
        /\ crashed.member_id = self.member_id
        /\ crashed.group_secret = self.group_secret
        /\ crashed.blinded_group_secret = self.blinded_group_secret
        /\ crashed.keys_computed_count = self.keys_computed_count
        /\ crashed.pending_requests = self.pending_requests
      BY <1>1, <1>4 DEF MemberState, MemberRecords
  <2> HIDE DEF crashed
  <2> QED BY <1>1, <2>1, <2>2, FlagsOK
<1> HIDE DEF started, crashed
<1>7. /\ Inv(log, [member EXCEPT ![m] = self])
      /\ Inv(log, [member EXCEPT ![m] = started])
      /\ Inv(log, [member EXCEPT ![m] = crashed])
    BY <1>1, <1>5, <1>6, LocalChange
<1> QED BY <1>1, <1>2, <1>3, <1>5, <1>7, PendingRequestInv

LEMMA ResponseInv ==
    ASSUME Inv(log, member), NEW m \in Members, NEW i \in DOMAIN log,
           member[m].status = "running", ProcessResponse(m, i)
    PROVE  Inv(log', member')
<1> DEFINE self == AfterResponse(m, member[m], log[i])
           base == [member EXCEPT ![m] = self]
<1>1. /\ Inv(log, base)
      /\ self.status = "running"
    BY AfterResponseInv DEF ProcessResponse
<1>2. m \in DOMAIN member
    BY DEF Inv
<1>3. \/ member' = [member EXCEPT ![m] = ContributeStatistics(m, self)] /\ log' = log
      \/ \E next \in CheckAndAddNextBlindedKeys(self) : ProcessPendingRequest(m, next)
    BY DEF ProcessResponse
<1> HIDE DEF self
<1>4. base[m] = self /\ MemberOK(log, m, self)
    BY <1>1, <1>2 DEF Inv
<1> HIDE DEF base
<1>5. CASE member' = [member EXCEPT ![m] = ContributeStatistics(m, self)] /\ log' = log
  <2>1. Inv(log, [base EXCEPT ![m] = ContributeStatistics(m, self)])
      BY <1>1, <1>4, ContributeInv
  <2> QED BY <1>5, <2>1, ChangeTwice DEF base
<1>6. ASSUME NEW next \in CheckAndAddNextBlindedKeys(self), ProcessPendingRequest(m, next)
      PROVE  Inv(log', member')
  <2>1. /\ MemberOK(log, m, next)
        /\ next.is_sponsor = self.is_sponsor
        /\ next.member_id = self.member_id
        /\ next.status = "running"
      BY <1>1, <1>4, AddKeysOK
  <2>2. Inv(log, [base EXCEPT ![m] = next])
      BY <1>1, <1>4, <2>1, LocalChange
  <2>3. Inv(log, [member EXCEPT ![m] = next])
      BY <2>2, ChangeTwice DEF base
  <2> QED BY <1>2, <1>6, <2>1, <2>3, PendingRequestInv
<1> QED BY <1>3, <1>5, <1>6

-----------------------------------------------------------------------------
(***************************************************************************)
(* The invariant of the specification.                                     *)
(***************************************************************************)
IInv ==
    /\ Inv(log, member)
    /\ taken \in [Members -> SUBSET (DOMAIN log)]
    /\ duplicates \in 0 .. MaxDuplicates

LEMMA InitInv == Init => IInv
<1> SUFFICES ASSUME Init PROVE IInv
    OBVIOUS
<1>1. MemberState(InitialMember)
  <2>1. InitialMember \in MemberRecords(<<>>, <<>>)
      BY DEF InitialMember, MemberRecords, DEFAULT_MEMBER_ID, DEFAULT_SECRET
  <2>2. /\ InitialMember.assigned_keys = <<>>
        /\ InitialMember.assigned_endpoints = <<>>
      BY DEF InitialMember
  <2>3. DOMAIN <<>> = {} /\ <<>> \in [{} -> Members] /\ <<>> \in [{} -> MemberIds]
      OBVIOUS
  <2> QED BY <2>1, <2>2, <2>3 DEF MemberState
<1>2. \A m \in Members : MemberOK(log, m, InitialMember)
  <2> SUFFICES ASSUME NEW m \in Members PROVE MemberOK(log, m, InitialMember)
      OBVIOUS
  <2>1. KeysOK(log, m, InitialMember)
      BY DEF InitialMember, KeysOK, Backed
  <2>2. /\ CountOK(m, InitialMember)
        /\ SponsorOK(InitialMember)
        /\ StoppedOK(m, InitialMember)
      BY DEF InitialMember, CountOK, SponsorOK, StoppedOK, IsAssigned
  <2> QED BY <1>1, <2>1, <2>2 DEF MemberOK
<1>3. /\ DOMAIN log = {}
      /\ log \in Seq(Messages)
    BY DEF Init
<1>4. LogOK(log)
    BY <1>3 DEF LogOK, GivenOnce
<1>5. /\ \A m \in Members : member[m] = InitialMember
      /\ member \in [Members -> {member[m] : m \in Members}]
    BY DEF Init
<1>6. BatonOK(log, member)
  <2>1. \A s \in Services, m \in Members : ~ IsSponsor(member, s, m)
      BY <1>5 DEF IsSponsor, InitialMember
  <2> QED BY <1>3, <2>1
      DEF BatonOK, FounderFirst, OneSponsor, SponsorHighest, TransitHighest
<1>7. Inv(log, member)
    BY <1>2, <1>4, <1>5, <1>6 DEF Inv
<1>8. taken \in [Members -> SUBSET (DOMAIN log)] /\ duplicates \in 0 .. MaxDuplicates
    BY ConfigurationAssumption, NetworkAssumption DEF Init
<1> QED BY <1>7, <1>8 DEF IInv

\* A handler sends at most one message.
LEMMA LogGrows ==
    ASSUME IInv, [Next]_vars
    PROVE  DOMAIN log \subseteq DOMAIN log'
<1>1. log \in Seq(Messages)
    BY DEF IInv, Inv, LogOK
<1>2. \A msg : DOMAIN log \subseteq DOMAIN Append(log, msg)
    BY <1>1
<1> DEFINE Same == log' = log
           More == \E msg : log' = Append(log, msg)
<1>3. \A m, self : ProcessPendingRequest(m, self) => Same \/ More
    BY DEF ProcessPendingRequest
<1>4. \A m \in Members : Launch(m) => Same \/ More
    BY DEF Launch
<1>5. \A m, i : ProcessOffer(m, i) => Same \/ More
    BY DEF ProcessOffer
<1>6. \A m, i : ProcessRequest(m, i) => Same \/ More
  <2> HIDE DEF Same, More
  <2>1. \A m, i : ProcessRequest(m, i) =>
                     (\E self : ProcessPendingRequest(m, self)) \/ log' = log
      BY DEF ProcessRequest
  <2> QED BY <1>3, <2>1 DEF Same
<1>7. \A m, i : ProcessResponse(m, i) => Same \/ More
  <2> HIDE DEF Same, More
  <2>1. \A m, i : ProcessResponse(m, i) =>
                     (\E self : ProcessPendingRequest(m, self)) \/ log' = log
      BY DEF ProcessResponse
  <2> QED BY <1>3, <2>1 DEF Same
<1>8. \A m, i : Duplicate(m, i) => Same
    BY DEF Duplicate
<1>9. UNCHANGED vars => Same
    BY DEF vars
<1> HIDE DEF Same, More
<1>10. Same \/ More
    BY <1>4, <1>5, <1>6, <1>7, <1>8, <1>9 DEF Next, Receive
<1> QED BY <1>2, <1>10 DEF Same, More

LEMMA NextInv == IInv /\ [Next]_vars => IInv'
<1> SUFFICES ASSUME IInv, [Next]_vars PROVE IInv'
    OBVIOUS
<1>1. /\ Inv(log, member)
      /\ taken \in [Members -> SUBSET (DOMAIN log)]
      /\ duplicates \in 0 .. MaxDuplicates
    BY DEF IInv
<1>2. DOMAIN log \subseteq DOMAIN log'
    BY LogGrows
<1>3. CASE UNCHANGED vars
    BY <1>1, <1>3 DEF vars, IInv, Inv
<1>4. ASSUME NEW m \in Members, Launch(m)
      PROVE  IInv'
  <2>1. Inv(log', member')
      BY <1>1, <1>4, LaunchInv
  <2>2. taken' \in [Members -> SUBSET (DOMAIN log')] /\ duplicates' = duplicates
      BY <1>1, <1>2, <1>4 DEF Launch
  <2> QED BY <1>1, <2>1, <2>2 DEF IInv, Inv
<1>5. ASSUME NEW m \in Members, NEW i \in DOMAIN log, Deliverable(m, i), Take(m, i),
             \/ ProcessOffer(m, i)
             \/ ProcessRequest(m, i)
             \/ ProcessResponse(m, i)
      PROVE  IInv'
  <2>1. member[m].status = "running"
      BY <1>5 DEF Deliverable
  <2>2. Inv(log', member')
      BY <1>1, <1>5, <2>1, OfferInv, RequestInv, ResponseInv
  <2>3. taken' \in [Members -> SUBSET (DOMAIN log')] /\ duplicates' = duplicates
      BY <1>1, <1>2, <1>5 DEF Take
  <2> QED BY <1>1, <2>2, <2>3 DEF IInv, Inv
<1>6. ASSUME NEW m \in Members, NEW i \in taken[m], Duplicate(m, i)
      PROVE  IInv'
  <2>1. /\ log' = log /\ member' = member
        /\ taken' \in [Members -> SUBSET (DOMAIN log)]
      BY <1>1, <1>6 DEF Duplicate
  <2>2. duplicates' \in 0 .. MaxDuplicates
      BY <1>1, <1>6, NetworkAssumption DEF Duplicate
  <2> QED BY <1>1, <2>1, <2>2 DEF IInv, Inv
<1> QED BY <1>3, <1>4, <1>5, <1>6 DEF Next, Receive

(***************************************************************************)
(* The inductive invariant holds: all that a member knows, holds and sends *)
(* is backed by the one history of assignments in the log, and the sponsor *)
(* role is in one place.                                                   *)
(***************************************************************************)
THEOREM Invariant == Spec => []IInv
<1> QED BY InitInv, NextInv, PTL DEF Spec

(***************************************************************************)
(* TypeOK: the state of every str_dh object, and every message, has the    *)
(* types the code declares, whatever the network does.                     *)
(***************************************************************************)
THEOREM TypeCorrect == Spec => []TypeOK
<1>1. IInv => TypeOK
    BY DEF IInv, Inv, LogOK, MemberOK, TypeOK
<1> QED BY <1>1, Invariant, PTL

-----------------------------------------------------------------------------
\* What the invariant says of a member with an id.
LEMMA AssignedMember ==
    ASSUME IInv, NEW s \in Services, NEW m \in Assigned(s)
    PROVE  /\ m \in Members
           /\ Service(m) = s
           /\ member[m].member_id \in Nat \ {0}
           /\ member[m].keys_computed_count \in Nat \ {0}
           /\ member[m].group_secret \in Seq(Members)
           /\ Len(member[m].group_secret) = LastKeyId(member[m])
           /\ member[m].member_id \in DOMAIN member[m].group_secret
           /\ member[m].group_secret[member[m].member_id] = m
           /\ \A k \in DOMAIN member[m].group_secret :
                 Gives(log, s, k, member[m].group_secret[k])
<1> DEFINE self == member[m]
<1>1. /\ m \in Members
      /\ Service(m) = s
      /\ IsAssigned(self)
      /\ MemberOK(log, m, self)
    BY DEF Assigned, IInv, Inv
<1> HIDE DEF self
<1>2. /\ self.member_id \in Nat \ {0}
      /\ self.keys_computed_count \in Nat
      /\ self.group_secret \in Seq(Members)
    BY <1>1 DEF MemberOK, MemberState, MemberRecords, IsAssigned, DEFAULT_MEMBER_ID
<1>3. /\ Len(self.group_secret) = LastKeyId(self)
      /\ self.keys_computed_count >= 1
      /\ self.group_secret[self.member_id] = m
    BY <1>1 DEF MemberOK, CountOK
<1>4. self.member_id \in DOMAIN self.group_secret
    BY <1>2, <1>3 DEF LastKeyId
<1>5. \A k \in DOMAIN self.group_secret : Gives(log, s, k, self.group_secret[k])
    BY <1>1 DEF MemberOK, KeysOK, Backed
<1> QED BY <1>1, <1>2, <1>3, <1>4, <1>5 DEF self

\* Two members of a group have the same owner of a secret at the same place.
LEMMA SamePlace ==
    ASSUME IInv, NEW s \in Services, NEW m \in Assigned(s), NEW n \in Assigned(s),
           NEW k \in DOMAIN member[m].group_secret, k \in DOMAIN member[n].group_secret
    PROVE  member[m].group_secret[k] = member[n].group_secret[k]
<1>1. LogOK(log)
    BY DEF IInv, Inv
<1>2. /\ Gives(log, s, k, member[m].group_secret[k])
      /\ Gives(log, s, k, member[n].group_secret[k])
    BY AssignedMember
<1> QED BY <1>1, <1>2, GivesUnique

(***************************************************************************)
(* UniqueIds: for any numbers of members, with any loss, reordering and    *)
(* duplication of messages, process_response never gives two members of a  *)
(* group the same id.                                                      *)
(***************************************************************************)
THEOREM IdsUnique == Spec => []UniqueIds
<1>1. IInv => UniqueIds
  <2> SUFFICES ASSUME IInv, NEW s \in Services, NEW m \in Assigned(s), NEW n \in Assigned(s),
                      member[m].member_id = member[n].member_id
               PROVE  m = n
      BY DEF UniqueIds
  <2>1. /\ member[m].member_id \in DOMAIN member[m].group_secret
        /\ member[m].group_secret[member[m].member_id] = m
        /\ member[n].member_id \in DOMAIN member[n].group_secret
        /\ member[n].group_secret[member[n].member_id] = n
      BY AssignedMember
  <2> QED BY <2>1, SamePlace
<1> QED BY <1>1, Invariant, PTL

(***************************************************************************)
(* KeysCompatible: of the group secrets of two members, which              *)
(* process_response and check_and_add_next_blinded_key_to_group_secret     *)
(* build from different messages, one always extends the other.            *)
(***************************************************************************)
THEOREM KeysAreCompatible == Spec => []KeysCompatible
<1>1. IInv => KeysCompatible
  <2> SUFFICES ASSUME IInv, NEW s \in Services, NEW m \in Assigned(s), NEW n \in Assigned(s)
               PROVE  \/ Prefix(member[m].group_secret, member[n].group_secret)
                      \/ Prefix(member[n].group_secret, member[m].group_secret)
      BY DEF KeysCompatible
  <2>1. /\ member[m].group_secret \in Seq(Members)
        /\ member[n].group_secret \in Seq(Members)
      BY AssignedMember
  <2>2. CASE Len(member[m].group_secret) <= Len(member[n].group_secret)
    <3>1. \A k \in DOMAIN member[m].group_secret : k \in DOMAIN member[n].group_secret
        BY <2>1, <2>2
    <3> QED BY <2>2, <3>1, SamePlace DEF Prefix
  <2>3. CASE Len(member[n].group_secret) <= Len(member[m].group_secret)
    <3>1. \A k \in DOMAIN member[n].group_secret : k \in DOMAIN member[m].group_secret
        BY <2>1, <2>3
    <3> QED BY <2>3, <3>1, SamePlace DEF Prefix
  <2> QED BY <2>1, <2>2, <2>3
<1> QED BY <1>1, Invariant, PTL

(***************************************************************************)
(* KeyAgreement: two members of a group that contribute_statistics ended   *)
(* have computed the same group key.                                       *)
(***************************************************************************)
THEOREM KeysAgree == Spec => []KeyAgreement
<1>1. IInv => KeyAgreement
  <2> SUFFICES ASSUME IInv, NEW s \in Services, NEW m \in Stopped(s), NEW n \in Stopped(s)
               PROVE  member[m].group_secret = member[n].group_secret
      BY DEF KeyAgreement
  <2>1. \A x \in Stopped(s) : /\ x \in Assigned(s)
                              /\ LastKeyId(member[x]) = member_count[s]
      BY DEF Stopped, Assigned, IInv, Inv, MemberOK, StoppedOK
  <2>2. /\ m \in Assigned(s)
        /\ n \in Assigned(s)
        /\ LastKeyId(member[m]) = LastKeyId(member[n])
      BY <2>1
  <2>3. /\ member[m].group_secret \in Seq(Members)
        /\ member[n].group_secret \in Seq(Members)
        /\ Len(member[m].group_secret) = Len(member[n].group_secret)
      BY <2>2, AssignedMember
  <2>4. \A k \in 1 .. Len(member[m].group_secret) :
           member[m].group_secret[k] = member[n].group_secret[k]
      BY <2>2, <2>3, SamePlace
  <2> QED BY <2>3, <2>4
<1> QED BY <1>1, Invariant, PTL

(***************************************************************************)
(* KeyCountRight: the counter that decides which key is added next and     *)
(* when a member is finished fits its group secret.                        *)
(***************************************************************************)
THEOREM CountsRight == Spec => []KeyCountRight
<1>1. IInv => KeyCountRight
  <2> SUFFICES ASSUME IInv, NEW m \in Members
               PROVE  IF IsAssigned(member[m])
                      THEN /\ Len(member[m].group_secret) = LastKeyId(member[m])
                           /\ member[m].member_id \in DOMAIN member[m].group_secret
                           /\ member[m].group_secret[member[m].member_id] = m
                      ELSE member[m].group_secret = <<>>
      BY DEF KeyCountRight
  <2>1. CASE IsAssigned(member[m])
    <3>1. Service(m) \in Services /\ m \in Assigned(Service(m))
        BY <2>1, ConfigurationAssumption DEF Assigned, Service
    <3> QED BY <2>1, <3>1, AssignedMember
  <2>2. CASE ~ IsAssigned(member[m])
      BY <2>2 DEF IInv, Inv, MemberOK, CountOK
  <2> QED BY <2>1, <2>2
<1> QED BY <1>1, Invariant, PTL

(***************************************************************************)
(* SponsorKeyBlinded: the sponsor's blinded group secret, which the next   *)
(* response carries, is the one of its whole group secret.                 *)
(***************************************************************************)
THEOREM SponsorsBlinded == Spec => []SponsorKeyBlinded
<1>1. IInv => SponsorKeyBlinded
    BY DEF IInv, Inv, MemberOK, SponsorOK, SponsorKeyBlinded, Sponsors
<1> QED BY <1>1, Invariant, PTL

(***************************************************************************)
(* NoForeignKeys: a group secret has secrets of members of its own service *)
(* only, although all the services share one multicast address.            *)
(***************************************************************************)
THEOREM GroupsApart == Spec => []NoForeignKeys
<1>1. IInv => NoForeignKeys
  <2> SUFFICES ASSUME IInv, NEW m \in Members, NEW k \in DOMAIN member[m].group_secret
               PROVE  Service(member[m].group_secret[k]) = Service(m)
      BY DEF NoForeignKeys
  <2>1. Gives(log, Service(m), k, member[m].group_secret[k])
      BY DEF IInv, Inv, MemberOK, KeysOK, Backed
  <2>2. Service(m) \in Services /\ LogOK(log)
      BY ConfigurationAssumption DEF Service, IInv, Inv
  <2> QED BY <2>1, <2>2, GivesOwn
<1> QED BY <1>1, Invariant, PTL

(***************************************************************************)
(* OneBaton: a service never has two sponsors, nor a sponsor beside a      *)
(* response whose addressee can still become one.                          *)
(***************************************************************************)
THEOREM BatonUnique == Spec => []OneBaton
<1>1. IInv => OneBaton
  <2> SUFFICES ASSUME IInv, NEW s \in Services
               PROVE  Cardinality(Sponsors(s) \cup InTransit(s)) <= 1
      BY DEF OneBaton
  <2>1. /\ OneSponsor(member, s)
        /\ TransitHighest(log, member, s)
        /\ LogOK(log)
      BY DEF IInv, Inv, BatonOK
  <2>2. \A x \in Sponsors(s) : IsSponsor(member, s, x)
      BY DEF Sponsors, IsSponsor
  <2>3. \A x \in InTransit(s) : \E i \in DOMAIN log :
           /\ IsResponse(log, s, i)
           /\ x = log[i].new_sponsor
           /\ ~ IsAssigned(member[log[i].new_sponsor])
      BY DEF InTransit, Responses, IsResponse
  <2>4. ASSUME NEW x \in InTransit(s), NEW y \in InTransit(s)
        PROVE  x = y
    <3>1. PICK i \in DOMAIN log : /\ IsResponse(log, s, i)
                                  /\ x = log[i].new_sponsor
                                  /\ ~ IsAssigned(member[log[i].new_sponsor])
        BY <2>3
    <3>2. PICK j \in DOMAIN log : /\ IsResponse(log, s, j)
                                  /\ y = log[j].new_sponsor
                                  /\ ~ IsAssigned(member[log[j].new_sponsor])
        BY <2>3
    <3>3. log[i].assigned_id \in Nat /\ log[j].assigned_id \in Nat
        BY <2>1, <3>1, <3>2 DEF LogOK, IsResponse, Messages, MemberIds
    <3>4. log[i].assigned_id = log[j].assigned_id
      <4>1. log[i].assigned_id <= log[j].assigned_id
          BY <2>1, <3>1, <3>2 DEF TransitHighest
      <4>2. log[j].assigned_id <= log[i].assigned_id
          BY <2>1, <3>1, <3>2 DEF TransitHighest
      <4> QED BY <3>3, <4>1, <4>2
    <3> QED BY <2>1, <3>1, <3>2, <3>4 DEF LogOK, GivenOnce
  <2>5. ASSUME NEW x \in Sponsors(s), InTransit(s) # {}
        PROVE  FALSE
    <3>1. x \in Members
        BY DEF Sponsors
    <3> QED BY <2>1, <2>2, <2>3, <2>5, <3>1 DEF TransitHighest
  <2>6. \A x, y \in Sponsors(s) : x = y
      BY <2>1, <2>2 DEF OneSponsor, Sponsors
  <2> DEFINE Holders == Sponsors(s) \cup InTransit(s)
  <2>7. \A x, y \in Holders : x = y
      BY <2>4, <2>5, <2>6
  <2> HIDE DEF Holders
  <2>8. ASSUME Holders = {}
        PROVE  Cardinality(Holders) <= 1
    <3>1. Cardinality(Holders) = 0
        BY <2>8, FS_EmptySet
    <3> QED BY <3>1
  <2>9. ASSUME NEW x \in Holders
        PROVE  Cardinality(Holders) <= 1
    <3>1. Holders = {x}
        BY <2>7
    <3>2. Cardinality(Holders) = 1
        BY <3>1, FS_Singleton
    <3> QED BY <3>2
  <2>10. Cardinality(Holders) <= 1
      BY <2>8, <2>9
  <2> QED BY <2>10 DEF Holders
<1> QED BY <1>1, Invariant, PTL
-----------------------------------------------------------------------------
(***************************************************************************)
(* What the parts of a handler leave of a member: they lose nothing.       *)
(***************************************************************************)
Keeps(old, new) ==
    /\ IsAssigned(old) => new.member_id = old.member_id
    /\ Prefix(old.group_secret, new.group_secret)

\* They leave the maps, the role and the id alone, too.
Settled(old, new) ==
    /\ new.is_sponsor = old.is_sponsor
    /\ new.member_id = old.member_id
    /\ new.assigned_keys = old.assigned_keys
    /\ new.assigned_endpoints = old.assigned_endpoints
    /\ new.pending_requests \subseteq old.pending_requests
    /\ Prefix(old.group_secret, new.group_secret)

LEMMA PrefixSelf ==
    ASSUME NEW T, NEW a \in Seq(T) PROVE Prefix(a, a)
BY DEF Prefix

LEMMA PrefixChain ==
    ASSUME NEW T, NEW a \in Seq(T), NEW b \in Seq(T), NEW c \in Seq(T),
           Prefix(a, b), Prefix(b, c)
    PROVE  Prefix(a, c)
BY DEF Prefix

LEMMA SecretType ==
    ASSUME NEW l, NEW m, NEW self, MemberOK(l, m, self)
    PROVE  /\ self.group_secret \in Seq(Members)
           /\ ~ IsAssigned(self) => self.group_secret = <<>>
           /\ self.member_id \in Nat
           /\ self.is_sponsor => IsAssigned(self)
           /\ self.assigned_keys \in [DOMAIN self.assigned_keys -> Members]
           /\ DOMAIN self.assigned_keys \subseteq MemberIds
           /\ self.assigned_endpoints \in [DOMAIN self.assigned_endpoints -> MemberIds]
           /\ DOMAIN self.assigned_endpoints \subseteq Members
           /\ self.pending_requests \subseteq Members
BY DEF MemberOK, MemberState, MemberRecords, CountOK

LEMMA TakeOverEffect ==
    ASSUME NEW l, NEW m, NEW self, MemberOK(l, m, self), NEW msg
    PROVE  LET new == TakeOver(m, self, msg)
           IN  /\ new.status = self.status
               /\ new.is_sponsor
               /\ new.member_id = msg.assigned_id
               /\ new.assigned_keys = self.assigned_keys
               /\ new.assigned_endpoints = self.assigned_endpoints
               /\ new.pending_requests = self.pending_requests
               /\ new.group_secret = Append(msg.blinded_group_secret, m)
               /\ new.keys_computed_count = self.keys_computed_count + 1
BY DEF TakeOver, MemberOK, MemberState, MemberRecords

LEMMA AddKeysEffect ==
    ASSUME NEW l, NEW m \in Members, NEW self, MemberOK(l, m, self),
           self.status = "running", NEW next \in CheckAndAddNextBlindedKeys(self)
    PROVE  Settled(self, next)
<1>1. self.group_secret \in Seq(Members)
  BY SecretType
<1>2. CASE next = self
  BY <1>1, <1>2, PrefixSelf DEF Settled
<1>3. CASE IsAssigned(self) /\ \E top \in LastAdded(self) : next = AddKeys(self, top)
  <2>1. PICK top \in LastAdded(self) : next = AddKeys(self, top)
    BY <1>3
  <2>2. /\ self.member_id \in Nat
        /\ self.member_id # DEFAULT_MEMBER_ID
        /\ self.keys_computed_count \in Nat
        /\ self.keys_computed_count >= 1
        /\ Len(self.group_secret) = LastKeyId(self)
    BY <1>3 DEF MemberOK, MemberState, MemberRecords, CountOK, IsAssigned
  <2>3. LastKeyId(self) \in Nat /\ top \in Nat /\ top >= LastKeyId(self)
    BY <2>1, <2>2 DEF LastAdded, LastKeyId, DEFAULT_MEMBER_ID
  <2> DEFINE secret == [k \in 1 .. top |-> IF k <= LastKeyId(self)
                                           THEN self.group_secret[k]
                                           ELSE self.assigned_keys[k]]
  <2>4. /\ next.is_sponsor = self.is_sponsor
        /\ next.member_id = self.member_id
        /\ next.group_secret = secret
        /\ next.pending_requests = self.pending_requests
        /\ next.assigned_keys = self.assigned_keys
        /\ next.assigned_endpoints = self.assigned_endpoints
    BY <2>1 DEF AddKeys, MemberOK, MemberState, MemberRecords
  <2>5. next.group_secret \in Seq(Members)
    BY AddKeysOK, SecretType
  <2>6. DOMAIN secret = 1 .. top /\ \A k \in 1 .. LastKeyId(self) : secret[k] = self.group_secret[k]
    BY <2>3
  <2> HIDE DEF secret
  <2>7. Prefix(self.group_secret, secret)
    <3>1. Len(secret) = top
      BY <2>3, <2>4, <2>5, <2>6
    <3>2. DOMAIN self.group_secret = 1 .. LastKeyId(self)
      BY <1>1, <2>2
    <3> QED
      BY <2>2, <2>3, <2>6, <3>1, <3>2 DEF Prefix
  <2> QED
    BY <2>4, <2>7 DEF Settled
<1> QED
  BY <1>2, <1>3 DEF CheckAndAddNextBlindedKeys

LEMMA ContributeEffect ==
    ASSUME NEW l, NEW m, NEW self, MemberOK(l, m, self)
    PROVE  /\ Settled(self, ContributeStatistics(m, self))
           /\ ContributeStatistics(m, self).status
                = IF KeyComplete(m, self) THEN "stopped" ELSE self.status
           /\ ContributeStatistics(m, self).group_secret = self.group_secret
<1>1. self.group_secret \in Seq(Members)
  BY SecretType
<1>2. Prefix(self.group_secret, self.group_secret)
  BY <1>1, PrefixSelf
<1> QED
  BY <1>2 DEF ContributeStatistics, Settled, MemberOK, MemberState, MemberRecords

LEMMA HandOverEffect ==
    ASSUME NEW l, NEW m, NEW self, MemberOK(l, m, self), NEW e \in Members
    PROVE  LET new == HandOver(self, e)
           IN  /\ ~ new.is_sponsor
               /\ new.status = self.status
               /\ new.member_id = self.member_id
               /\ new.assigned_keys = Put(self.assigned_keys, self.member_id + 1, e)
               /\ new.assigned_endpoints
                    = Put(self.assigned_endpoints, e, self.member_id + 1)
               /\ new.pending_requests = {}
               /\ Prefix(self.group_secret, new.group_secret)
<1>1. self.group_secret \in Seq(Members)
  BY SecretType
<1>2. Prefix(self.group_secret, Append(self.group_secret, e))
  BY <1>1 DEF Prefix
<1> QED
  BY <1>2 DEF HandOver, MemberOK, MemberState, MemberRecords

LEMMA FlagsEffect ==
    ASSUME NEW l, NEW m \in Members, NEW self, MemberOK(l, m, self),
           self.status = "running"
    PROVE  LET started == [self EXCEPT !.key_agreement_start = TRUE]
               crashed == [self EXCEPT !.status = "crashed"]
           IN  /\ MemberOK(l, m, started) /\ Settled(self, started)
               /\ started.status = "running"
               /\ MemberOK(l, m, crashed) /\ Settled(self, crashed)
               /\ crashed.status = "crashed"
<1> DEFINE started == [self EXCEPT !.key_agreement_start = TRUE]
           crashed == [self EXCEPT !.status = "crashed"]
<1>1. MemberState(self) /\ Prefix(self.group_secret, self.group_secret)
  BY SecretType, PrefixSelf DEF MemberOK
<1>2. /\ started \in MemberRecords(self.assigned_keys, self.assigned_endpoints)
      /\ started.status = "running"
      /\ started.is_sponsor = self.is_sponsor
      /\ started.member_id = self.member_id
      /\ started.group_secret = self.group_secret
      /\ started.blinded_group_secret = self.blinded_group_secret
      /\ started.keys_computed_count = self.keys_computed_count
      /\ started.pending_requests = self.pending_requests
      /\ started.assigned_keys = self.assigned_keys
      /\ started.assigned_endpoints = self.assigned_endpoints
  BY <1>1 DEF MemberState, MemberRecords
<1>3. /\ crashed \in MemberRecords(self.assigned_keys, self.assigned_endpoints)
      /\ crashed.status = "crashed"
      /\ crashed.is_sponsor = self.is_sponsor
      /\ crashed.member_id = self.member_id
      /\ crashed.group_secret = self.group_secret
      /\ crashed.blinded_group_secret = self.blinded_group_secret
      /\ crashed.keys_computed_count = self.keys_computed_count
      /\ crashed.pending_requests = self.pending_requests
      /\ crashed.assigned_keys = self.assigned_keys
      /\ crashed.assigned_endpoints = self.assigned_endpoints
  BY <1>1 DEF MemberState, MemberRecords
<1> HIDE DEF started, crashed
<1>4. MemberOK(l, m, started) /\ MemberOK(l, m, crashed)
  BY <1>2, <1>3, FlagsOK
<1>5. Settled(self, started) /\ Settled(self, crashed)
  BY <1>1, <1>2, <1>3 DEF Settled
<1> QED
  BY <1>2, <1>3, <1>4, <1>5 DEF started, crashed

\* A member that stays as it was, as far as KeysGrow is concerned.
LEMMA KeepsChain ==
    ASSUME NEW a, NEW b, NEW c, Keeps(a, b), Keeps(b, c),
           a.group_secret \in Seq(Members),
           b.group_secret \in Seq(Members),
           c.group_secret \in Seq(Members)
    PROVE  Keeps(a, c)
<1>1. Prefix(a.group_secret, c.group_secret)
  BY PrefixChain DEF Keeps
<1> QED
  BY <1>1 DEF Keeps, IsAssigned

LEMMA SettledKeeps ==
    ASSUME NEW old, NEW new, Settled(old, new) PROVE Keeps(old, new)
BY DEF Settled, Keeps

\* A response never takes the role, the id or a key from its receiver.
LEMMA AfterResponseKeeps ==
    ASSUME NEW l, LogOK(l), NEW m \in Members, NEW self, MemberOK(l, m, self),
           self.status = "running", NEW i \in DOMAIN l, l[i].type = "response"
    PROVE  /\ Keeps(self, AfterResponse(m, self, l[i]))
           /\ self.is_sponsor => AfterResponse(m, self, l[i]).is_sponsor
<1>1. self.group_secret \in Seq(Members) /\ (~ IsAssigned(self) => self.group_secret = <<>>)
  BY SecretType
<1>2. CASE l[i].service # Service(m)
  BY <1>1, <1>2, PrefixSelf DEF AfterResponse, Keeps
<1>3. CASE l[i].service = Service(m)
  <2> DEFINE learnt == Learn(m, self, l[i])
  <2>1. IsResponse(l, Service(m), i)
    BY <1>3 DEF IsResponse
  <2>2. /\ MemberOK(l, m, learnt)
        /\ learnt.is_sponsor = self.is_sponsor
        /\ learnt.member_id = self.member_id
        /\ learnt.status = "running"
    BY <2>1, LearnOK
  <2>3. learnt.group_secret = self.group_secret
    BY DEF Learn, Note, MemberOK, MemberState, MemberRecords
  <2>4. AfterResponse(m, self, l[i]) = BecomeSponsor(m, learnt, l[i])
    BY <1>3 DEF AfterResponse
  <2> HIDE DEF learnt
  <2>5. CASE ~ Addressed(m, learnt, l[i])
    BY <1>1, <2>2, <2>3, <2>4, <2>5, PrefixSelf DEF BecomeSponsor, Keeps
  <2>6. CASE Addressed(m, learnt, l[i])
    <3> DEFINE new == TakeOver(m, learnt, l[i])
    <3>1. ~ IsAssigned(self) /\ self.group_secret = <<>>
      BY <1>1, <2>2, <2>6 DEF Addressed, IsAssigned
    <3>2. MemberOK(l, m, new)
      BY <2>1, <2>2, <2>6, TakeOverOK DEF Addressed
    <3>3. new.is_sponsor
      BY <2>2, TakeOverEffect
    <3>4. AfterResponse(m, self, l[i]) = new
      BY <2>4, <2>6 DEF BecomeSponsor
    <3> HIDE DEF new
    <3>5. new.group_secret \in Seq(Members)
      BY <3>2, SecretType
    <3>6. Prefix(<<>>, new.group_secret)
      BY <3>5 DEF Prefix
    <3> QED
      BY <3>1, <3>3, <3>4, <3>6 DEF Keeps
  <2> QED
    BY <2>5, <2>6
<1> QED
  BY <1>2, <1>3

\* m ends its handler with a response of its own.
HandsOn(m) ==
    /\ Len(log') = Len(log) + 1
    /\ log'[Len(log')].type = "response"
    /\ log'[Len(log')].from = m

Grows(m, old, new) ==
    Keeps(old, new) /\ (old.is_sponsor /\ ~ new.is_sponsor => HandsOn(m))

LEMMA GrowsPending ==
    ASSUME NEW m \in Members, NEW self, NEW old,
           Inv(log, [member EXCEPT ![m] = self]), m \in DOMAIN member,
           self.status = "running", old.group_secret \in Seq(Members),
           Keeps(old, self), old.is_sponsor => self.is_sponsor,
           ProcessPendingRequest(m, self)
    PROVE  Grows(m, old, member'[m])
<1> DEFINE base == [member EXCEPT ![m] = self]
<1>1. base[m] = self /\ Inv(log, base)
  OBVIOUS
<1>2. MemberOK(log, m, self) /\ log \in Seq(Messages)
  BY <1>1 DEF Inv, LogOK
<1>3. self.group_secret \in Seq(Members)
  BY <1>2, SecretType
<1>4. CASE member' = [member EXCEPT ![m] = ContributeStatistics(m, self)]
  <2> DEFINE next == ContributeStatistics(m, self)
  <2>1. member'[m] = next
    BY <1>4
  <2>2. Settled(self, next) /\ next.group_secret = self.group_secret
    BY <1>2, ContributeEffect
  <2> HIDE DEF next
  <2>3. Keeps(old, next)
    BY <1>3, <2>2, SettledKeeps, KeepsChain
  <2>4. self.is_sponsor => next.is_sponsor
    BY <2>2, Zenon DEF Settled
  <2> QED
    BY <2>1, <2>3, <2>4 DEF Grows
<1>5. CASE member' = [member EXCEPT ![m] =
                 ContributeStatistics(m, [self EXCEPT !.pending_requests = {}])]
  <2> DEFINE forgot == [self EXCEPT !.pending_requests = {}]
             next == ContributeStatistics(m, forgot)
             mid == [base EXCEPT ![m] = forgot]
  <2>1. member'[m] = next
    BY <1>5
  <2>2. MemberOK(log, m, forgot)
    <3> HIDE DEF base
    <3>1. Inv(log, mid)
      BY <1>1, ForgetInv
    <3>2. mid[m] = forgot
      BY <1>1 DEF Inv
    <3> QED
      BY <3>1, <3>2 DEF Inv
  <2>3. /\ forgot.group_secret = self.group_secret
        /\ forgot.is_sponsor = self.is_sponsor
        /\ forgot.member_id = self.member_id
    BY <1>2 DEF MemberOK, MemberState, MemberRecords
  <2> HIDE DEF forgot
  <2>4. Settled(forgot, next) /\ next.group_secret = forgot.group_secret
    BY <2>2, ContributeEffect
  <2> HIDE DEF next
  <2>5. Keeps(old, forgot)
    BY <2>3 DEF Keeps
  <2>6. Keeps(old, next)
    BY <1>3, <2>3, <2>4, <2>5, SettledKeeps, KeepsChain
  <2>7. self.is_sponsor => next.is_sponsor
    BY <2>3, <2>4, Zenon DEF Settled
  <2> QED
    BY <2>1, <2>6, <2>7 DEF Grows
<1>6. ASSUME self.is_sponsor, NEW e \in Unassigned(self),
             member' = [member EXCEPT ![m] = ContributeStatistics(m, HandOver(self, e))],
             log' = Append(log, Response(m, self, e))
      PROVE  Grows(m, old, member'[m])
  <2> DEFINE handed == HandOver(self, e)
             next == ContributeStatistics(m, handed)
  <2>1. member'[m] = next
    BY <1>6
  <2>2. /\ Keeps(self, handed)
        /\ handed.group_secret \in Seq(Members)
    <3>1. e \in Members
      BY <1>2, <1>6, SecretType DEF Unassigned
    <3>2. handed.group_secret = Append(self.group_secret, e)
      BY <1>2 DEF HandOver, MemberOK, MemberState, MemberRecords
    <3>3. handed.member_id = self.member_id /\ Prefix(self.group_secret, handed.group_secret)
      BY <1>2, <3>1, HandOverEffect
    <3> HIDE DEF handed
    <3> QED
      BY <1>3, <3>1, <3>2, <3>3 DEF Keeps
  <2>3. next.member_id = handed.member_id /\ next.group_secret = handed.group_secret
    <3>1. next \in {handed, [handed EXCEPT !.status = "stopped"]}
      BY DEF ContributeStatistics
    <3>2. /\ [handed EXCEPT !.status = "stopped"].member_id = handed.member_id
          /\ [handed EXCEPT !.status = "stopped"].group_secret = handed.group_secret
      BY <1>2 DEF HandOver, MemberOK, MemberState, MemberRecords
    <3> HIDE DEF handed, next
    <3> QED
      BY <3>1, <3>2
  <2> HIDE DEF handed, next
  <2>4. Keeps(old, handed)
    BY <1>3, <2>2, KeepsChain
  <2>5. Keeps(old, next)
    BY <2>3, <2>4 DEF Keeps
  <2>6. HandsOn(m)
    BY <1>2, <1>6 DEF HandsOn, Response
  <2> QED
    BY <2>1, <2>5, <2>6 DEF Grows
<1> QED
  BY <1>4, <1>5, <1>6 DEF ProcessPendingRequest

LEMMA GrowsRequest ==
    ASSUME Inv(log, member), NEW m \in Members, NEW i \in DOMAIN log,
           member[m].status = "running", ProcessRequest(m, i)
    PROVE  Grows(m, member[m], member'[m])
<1> DEFINE old == member[m]
           self == NoteRequest(m, old, log[i])
           started == [self EXCEPT !.key_agreement_start = TRUE]
           crashed == [self EXCEPT !.status = "crashed"]
<1>1. /\ MemberOK(log, m, old)
      /\ LogOK(log)
      /\ m \in DOMAIN member
      /\ old.group_secret \in Seq(Members)
  BY SecretType DEF Inv
<1>2. /\ MemberOK(log, m, self)
      /\ self.is_sponsor = old.is_sponsor
      /\ self.member_id = old.member_id
      /\ self.status = "running"
  BY <1>1, NoteRequestOK
<1>3. self.group_secret = old.group_secret
  BY <1>1 DEF NoteRequest, MemberOK, MemberState, MemberRecords
<1>4. \/ ProcessPendingRequest(m, self)
      \/ ProcessPendingRequest(m, started)
      \/ member' = [member EXCEPT ![m] = crashed]
  BY DEF ProcessRequest
<1> HIDE DEF self
<1>5. Keeps(old, self)
  BY <1>1, <1>2, <1>3, PrefixSelf DEF Keeps
<1>6. /\ MemberOK(log, m, started) /\ Settled(self, started)
      /\ started.status = "running"
      /\ MemberOK(log, m, crashed) /\ Settled(self, crashed)
      /\ crashed.status = "crashed"
  BY <1>2, FlagsEffect
<1> HIDE DEF started, crashed
<1>7. /\ started.group_secret \in Seq(Members)
      /\ crashed.group_secret \in Seq(Members)
  BY <1>6, SecretType
<1>8. Keeps(old, started) /\ Keeps(old, crashed)
  BY <1>1, <1>3, <1>5, <1>6, <1>7, SettledKeeps, KeepsChain
<1>9. old.is_sponsor => started.is_sponsor /\ crashed.is_sponsor
  BY <1>2, <1>6, Zenon DEF Settled
<1>10. /\ started.is_sponsor = old.is_sponsor
       /\ started.member_id = old.member_id
  BY <1>2, <1>6, Zenon DEF Settled
<1>11. /\ Inv(log, [member EXCEPT ![m] = self])
       /\ Inv(log, [member EXCEPT ![m] = started])
  BY <1>2, <1>6, <1>10, LocalChange
<1>12. CASE ProcessPendingRequest(m, self)
  BY <1>1, <1>2, <1>5, <1>11, <1>12, GrowsPending
<1>13. CASE ProcessPendingRequest(m, started)
  BY <1>1, <1>6, <1>8, <1>9, <1>11, <1>13, GrowsPending
<1>14. CASE member' = [member EXCEPT ![m] = crashed]
  BY <1>1, <1>8, <1>9, <1>14 DEF Grows
<1> QED
  BY <1>4, <1>12, <1>13, <1>14

LEMMA GrowsResponse ==
    ASSUME Inv(log, member), NEW m \in Members, NEW i \in DOMAIN log,
           member[m].status = "running", ProcessResponse(m, i)
    PROVE  Grows(m, member[m], member'[m])
<1> DEFINE old == member[m]
           self == AfterResponse(m, old, log[i])
           base == [member EXCEPT ![m] = self]
<1>1. /\ MemberOK(log, m, old)
      /\ LogOK(log)
      /\ m \in DOMAIN member
      /\ old.group_secret \in Seq(Members)
      /\ log[i].type = "response"
  BY SecretType DEF Inv, ProcessResponse
<1>2. Inv(log, base) /\ self.status = "running"
  BY <1>1, AfterResponseInv
<1>3. Keeps(old, self) /\ (old.is_sponsor => self.is_sponsor)
  BY <1>1, AfterResponseKeeps
<1>4. \/ member' = [member EXCEPT ![m] = ContributeStatistics(m, self)]
      \/ \E next \in CheckAndAddNextBlindedKeys(self) : ProcessPendingRequest(m, next)
  BY DEF ProcessResponse
<1> HIDE DEF self
<1>5. base[m] = self /\ MemberOK(log, m, self)
  <2>1. base[m] = self
    BY <1>1
  <2> QED
    BY <1>2, <2>1 DEF Inv
<1>6. self.group_secret \in Seq(Members)
  BY <1>5, SecretType
<1>7. CASE member' = [member EXCEPT ![m] = ContributeStatistics(m, self)]
  <2> DEFINE next == ContributeStatistics(m, self)
  <2>1. member'[m] = next
    BY <1>1, <1>7
  <2>2. Settled(self, next) /\ next.group_secret = self.group_secret
    BY <1>5, ContributeEffect
  <2> HIDE DEF next
  <2>3. Keeps(old, next)
    BY <1>1, <1>3, <1>6, <2>2, SettledKeeps, KeepsChain
  <2>4. old.is_sponsor => next.is_sponsor
    BY <1>3, <2>2, Zenon DEF Settled
  <2> QED
    BY <2>1, <2>3, <2>4 DEF Grows
<1>8. ASSUME NEW next \in CheckAndAddNextBlindedKeys(self), ProcessPendingRequest(m, next)
      PROVE  Grows(m, old, member'[m])
  <2>1. /\ MemberOK(log, m, next)
        /\ next.is_sponsor = self.is_sponsor
        /\ next.member_id = self.member_id
        /\ next.status = "running"
    BY <1>2, <1>5, AddKeysOK
  <2>2. Settled(self, next)
    BY <1>2, <1>5, AddKeysEffect
  <2>3. next.group_secret \in Seq(Members)
    BY <2>1, SecretType
  <2>4. Keeps(old, next)
    BY <1>1, <1>3, <1>6, <2>2, <2>3, SettledKeeps, KeepsChain
  <2>5. old.is_sponsor => next.is_sponsor
    BY <1>3, <2>1, Zenon
  <2> HIDE DEF base
  <2>6. Inv(log, [base EXCEPT ![m] = next])
    BY <1>2, <1>5, <2>1, LocalChange
  <2>7. Inv(log, [member EXCEPT ![m] = next])
    BY <2>6, ChangeTwice DEF base
  <2> QED
    BY <1>1, <1>8, <2>1, <2>4, <2>5, <2>7, GrowsPending
<1> QED
  BY <1>4, <1>7, <1>8

LEMMA GrowsLaunch ==
    ASSUME Inv(log, member), NEW m \in Members, Launch(m)
    PROVE  Grows(m, member[m], member'[m])
<1> DEFINE old == member[m]
<1>1. /\ MemberOK(log, m, old)
      /\ MemberState(old)
      /\ m \in DOMAIN member
      /\ old.status = "down"
      /\ old.group_secret \in Seq(Members)
  BY SecretType DEF Inv, MemberOK, Launch
<1>2. CASE ~ IsFounder(m)
  <2>1. member'[m] = [old EXCEPT !.status = "running"]
    BY <1>1, <1>2 DEF Launch
  <2>2. /\ member'[m].is_sponsor = old.is_sponsor
        /\ member'[m].member_id = old.member_id
        /\ member'[m].group_secret = old.group_secret
    BY <1>1, <2>1 DEF MemberState, MemberRecords
  <2>3. Keeps(old, member'[m])
    BY <1>1, <2>2, PrefixSelf DEF Keeps
  <2> QED
    BY <2>2, <2>3, Zenon DEF Grows
<1>3. CASE IsFounder(m)
  <2>1. member' = [member EXCEPT
                     ![m].status = "running",
                     ![m].is_sponsor = TRUE,
                     ![m].member_id = INITIAL_SPONSOR_ID,
                     ![m].group_secret = <<m>>,
                     ![m].blinded_group_secret = <<m>>,
                     ![m].keys_computed_count = 1]
    BY <1>3 DEF Launch
  <2>2. /\ member'[m].is_sponsor
        /\ member'[m].member_id = INITIAL_SPONSOR_ID
        /\ member'[m].group_secret = <<m>>
    BY <1>1, <2>1 DEF MemberState, MemberRecords
  <2>3. m = founder[Service(m)] /\ Service(m) \in Services
    BY <1>3, ConfigurationAssumption DEF IsFounder, Service
  <2>4. \A j \in DOMAIN log : ~ IsResponse(log, Service(m), j)
    BY <1>1, <2>3 DEF Inv, BatonOK, FounderFirst
  <2>5. \A k \in DOMAIN old.group_secret : k = INITIAL_SPONSOR_ID /\ old.group_secret[k] = m
    BY <1>1, <2>3, <2>4 DEF MemberOK, KeysOK, Backed, Gives
  <2>6. Len(old.group_secret) <= 1
    <3>1. ASSUME Len(old.group_secret) > 1 PROVE FALSE
      <4>1. 2 \in DOMAIN old.group_secret
        BY <1>1, <3>1
      <4> QED
        BY <2>5, <4>1 DEF INITIAL_SPONSOR_ID
    <3> QED
      BY <1>1, <3>1
  <2>7. IsAssigned(old) => old.member_id = INITIAL_SPONSOR_ID
    <3>1. IsAssigned(old) => old.member_id \in DOMAIN old.group_secret
      BY <1>1, SecretType DEF MemberOK, CountOK, MemberState, MemberRecords, LastKeyId,
                              IsAssigned, DEFAULT_MEMBER_ID
    <3> QED
      BY <2>5, <3>1
  <2>8. Prefix(old.group_secret, <<m>>)
    BY <1>1, <2>5, <2>6 DEF Prefix, INITIAL_SPONSOR_ID
  <2> QED
    BY <2>2, <2>7, <2>8 DEF Grows, Keeps
<1> QED
  BY <1>2, <1>3

(***************************************************************************)
(* KeysGrow: whatever the network does, a member never gives up its id or  *)
(* a key it has, and hands the role on only with a response.               *)
(***************************************************************************)
THEOREM KeysOnlyGrow == Spec => KeysGrow
<1> DEFINE Growing == \A m \in Members : Grows(m, member[m], member'[m])
<1>1. ASSUME IInv, [Next]_vars PROVE Growing \/ UNCHANGED vars
  <2>0. Inv(log, member)
    BY <1>1 DEF IInv
  <2>1. \A m \in Members : Grows(m, member[m], member[m])
    BY <2>0, SecretType, PrefixSelf DEF Inv, Grows, Keeps
  <2>2. ASSUME NEW m \in Members, Grows(m, member[m], member'[m]),
               \A n \in Members \ {m} : member'[n] = member[n]
        PROVE  Growing
    <3> SUFFICES ASSUME NEW n \in Members PROVE Grows(n, member[n], member'[n])
      OBVIOUS
    <3>1. CASE n = m
      BY <2>2, <3>1
    <3>2. CASE n # m
      <4>1. member'[n] = member[n]
        BY <2>2, <3>2
      <4> QED
        BY <2>1, <4>1
    <3> QED
      BY <3>1, <3>2
  <2>3. CASE member' = member
    BY <2>1, <2>3
  <2>4. ASSUME NEW m \in Members, Launch(m) PROVE Growing
    <3>1. \A n \in Members \ {m} : member'[n] = member[n]
      BY <2>0, <2>4 DEF Launch, Inv
    <3> QED
      BY <2>0, <2>2, <2>4, <3>1, GrowsLaunch
  <2>5. ASSUME NEW m \in Members, NEW self, ProcessPendingRequest(m, self)
        PROVE  \A n \in Members \ {m} : member'[n] = member[n]
    BY <2>0, <2>5 DEF ProcessPendingRequest, Inv
  <2>6. ASSUME NEW m \in Members, NEW i \in DOMAIN log, Deliverable(m, i),
               ProcessRequest(m, i) \/ ProcessResponse(m, i)
        PROVE  Growing
    <3>1. member[m].status = "running"
      BY <2>6 DEF Deliverable
    <3>2. \/ \E self : ProcessPendingRequest(m, self)
          \/ \E self : member' = [member EXCEPT ![m] = self]
      BY <2>6, Zenon DEF ProcessRequest, ProcessResponse
    <3>3. \A n \in Members \ {m} : member'[n] = member[n]
      BY <2>0, <2>5, <3>2 DEF Inv
    <3>4. Grows(m, member[m], member'[m])
      BY <2>0, <2>6, <3>1, GrowsRequest, GrowsResponse
    <3> QED
      BY <2>2, <3>3, <3>4
  <2>7. \A m, i : ProcessOffer(m, i) \/ Duplicate(m, i) => member' = member
    BY DEF ProcessOffer, Duplicate
  <2> HIDE DEF Growing
  <2> QED
    BY <1>1, <2>3, <2>4, <2>6, <2>7 DEF Next, Receive
<1>2. IInv /\ [Next]_vars => [\A m \in Members :
        /\ IsAssigned(member[m]) => member'[m].member_id = member[m].member_id
        /\ Prefix(member[m].group_secret, member'[m].group_secret)
        /\ member[m].is_sponsor /\ ~ member'[m].is_sponsor =>
              /\ Len(log') = Len(log) + 1
              /\ log'[Len(log')].type = "response"
              /\ log'[Len(log')].from = m]_vars
  BY <1>1 DEF Grows, Keeps, HandsOn
<1> QED
  BY <1>2, Invariant, PTL DEF Spec, KeysGrow

-----------------------------------------------------------------------------
(***************************************************************************)
(* The start of the key agreement is recorded by a sponsor with the first  *)
(* id, at a request of any service; a second one while it keeps the role   *)
(* ends its process.  Where one group uses the multicast address the first *)
(* request already costs it the role: it knows of nobody with an id yet,   *)
(* for no response was sent before its own, so that it hands over.         *)
(***************************************************************************)
OneService == \A s, t \in Services : s = t

Founding(self) == self.member_id = INITIAL_SPONSOR_ID /\ self.is_sponsor

Fresh(self) ==
    /\ self.status # "crashed"
    /\ self.status = "down" \/ Founding(self) =>
         ~ self.key_agreement_start /\ DOMAIN self.assigned_endpoints = {}

FreshInv == IInv /\ \A m \in Members : Fresh(member[m])

\* Nobody has answered while the founder is the sponsor.
LEMMA FounderUnanswered ==
    ASSUME IInv, NEW m \in Members, Founding(member[m]), NEW i \in DOMAIN log,
           log[i].type = "response", log[i].service = Service(m)
    PROVE  FALSE
<1>1. Service(m) \in Services
  BY ConfigurationAssumption DEF Service
<1>2. IsResponse(log, Service(m), i) /\ IsSponsor(member, Service(m), m)
  BY DEF IsResponse, IsSponsor, Founding
<1>3. log[i].assigned_id <= member[m].member_id
  BY <1>1, <1>2 DEF IInv, Inv, BatonOK, SponsorHighest
<1>4. log[i].assigned_id \in Nat /\ log[i].assigned_id >= 2
  BY DEF IInv, Inv, LogOK, MessageOK, Messages, MemberIds
<1> QED
  BY <1>3, <1>4 DEF Founding, INITIAL_SPONSOR_ID

\* The pending requests never make a founder.
LEMMA FreshContribute ==
    ASSUME NEW l, NEW m, NEW self, MemberOK(l, m, self), self.status = "running",
           ~ Founding(self)
    PROVE  Fresh(ContributeStatistics(m, self))
<1>1. /\ ContributeStatistics(m, self).status \in {"running", "stopped"}
      /\ ContributeStatistics(m, self).is_sponsor = self.is_sponsor
      /\ ContributeStatistics(m, self).member_id = self.member_id
  BY ContributeEffect DEF Settled
<1> QED
  BY <1>1 DEF Fresh, Founding

LEMMA FreshForget ==
    ASSUME NEW l, NEW m, NEW self, MemberOK(l, m, self)
    PROVE  LET next == [self EXCEPT !.pending_requests = {}]
           IN  /\ MemberOK(l, m, next)
               /\ next.status = self.status
               /\ next.is_sponsor = self.is_sponsor
               /\ next.member_id = self.member_id
<1> DEFINE next == [self EXCEPT !.pending_requests = {}]
<1>1. MemberState(self)
  BY DEF MemberOK
<1>2. MemberState(next)
  BY <1>1 DEF MemberState, MemberRecords
<1>3. KeysOK(l, m, next) /\ CountOK(m, next) /\ SponsorOK(next) /\ StoppedOK(m, next)
  BY <1>1 DEF MemberOK, MemberState, MemberRecords, KeysOK, CountOK, SponsorOK,
              StoppedOK, IsAssigned, LastKeyId
<1> QED
  BY <1>1, <1>2, <1>3 DEF MemberOK, MemberState, MemberRecords

LEMMA FreshPending ==
    ASSUME NEW m \in Members, m \in DOMAIN member, NEW self, MemberOK(log, m, self),
           self.status = "running",
           ProcessPendingRequest(m, self),
           ~ Founding(self) \/ Unassigned(self) # {}
    PROVE  Fresh(member'[m])
<1>1. CASE ~ self.is_sponsor /\ member' = [member EXCEPT ![m] = ContributeStatistics(m, self)]
  BY <1>1, FreshContribute DEF Founding
<1>2. CASE /\ Unassigned(self) = {}
           /\ member' = [member EXCEPT ![m] =
                  ContributeStatistics(m, [self EXCEPT !.pending_requests = {}])]
  <2> DEFINE next == [self EXCEPT !.pending_requests = {}]
  <2>1. /\ MemberOK(log, m, next)
        /\ next.status = "running"
        /\ next.is_sponsor = self.is_sponsor
        /\ next.member_id = self.member_id
    BY FreshForget
  <2>2. member'[m] = ContributeStatistics(m, next)
    BY <1>2
  <2> HIDE DEF next
  <2> QED
    BY <1>2, <2>1, <2>2, FreshContribute DEF Founding
<1>3. ASSUME self.is_sponsor, NEW e \in Unassigned(self),
             member' = [member EXCEPT ![m] = ContributeStatistics(m, HandOver(self, e))]
      PROVE  Fresh(member'[m])
  <2> DEFINE next == HandOver(self, e)
  <2>1. e \in Members
    BY SecretType DEF Unassigned
  <2>2. ~ next.is_sponsor /\ next.status = "running"
    BY <2>1, HandOverEffect
  <2>3. ContributeStatistics(m, next) = next
        \/ ContributeStatistics(m, next) = [next EXCEPT !.status = "stopped"]
    BY DEF ContributeStatistics
  <2>4. member'[m] = ContributeStatistics(m, next)
    BY <1>3
  <2>5. next = [self EXCEPT
                  !.is_sponsor = FALSE,
                  !.pending_requests = {},
                  !.group_secret = next.group_secret,
                  !.blinded_group_secret = DEFAULT_SECRET,
                  !.assigned_keys = next.assigned_keys,
                  !.assigned_endpoints = next.assigned_endpoints,
                  !.keys_computed_count = next.keys_computed_count]
    BY DEF HandOver, MemberOK, MemberState, MemberRecords
  <2>6. LET stopped == [next EXCEPT !.status = "stopped"]
        IN  ~ stopped.is_sponsor /\ stopped.status = "stopped"
    BY <2>2, <2>5 DEF MemberOK, MemberState, MemberRecords
  <2> HIDE DEF next
  <2> QED
    BY <2>2, <2>3, <2>4, <2>6 DEF Fresh, Founding
<1> QED
  BY <1>1, <1>2, <1>3 DEF ProcessPendingRequest

LEMMA FreshRequest ==
    ASSUME OneService, FreshInv, NEW m \in Members, NEW i \in DOMAIN log,
           Deliverable(m, i), ProcessRequest(m, i)
    PROVE  Fresh(member'[m])
<1> DEFINE old == member[m]
           self == NoteRequest(m, old, log[i])
           started == [self EXCEPT !.key_agreement_start = TRUE]
<1>1. /\ MemberOK(log, m, old)
      /\ LogOK(log)
      /\ m \in DOMAIN member
      /\ Fresh(old)
      /\ old.status = "running"
      /\ log[i].from # m
  BY DEF FreshInv, IInv, Inv, Deliverable
<1>2. /\ MemberOK(log, m, self)
      /\ self.is_sponsor = old.is_sponsor
      /\ self.member_id = old.member_id
      /\ self.status = "running"
  BY <1>1, NoteRequestOK
<1>3. CASE ~ Founding(self)
  BY <1>1, <1>2, <1>3, FreshPending DEF ProcessRequest, Founding
<1>4. CASE Founding(self)
  <2>1. DOMAIN old.assigned_endpoints = {} /\ ~ old.key_agreement_start
    BY <1>1, <1>2, <1>4 DEF Fresh, Founding
  <2>2. log[i].service = Service(m)
    BY <1>1, ConfigurationAssumption DEF OneService, LogOK, Messages, Service
  <2>3. self = [old EXCEPT !.pending_requests = @ \cup {log[i].from}]
    BY <2>1, <2>2 DEF NoteRequest
  <2>4. /\ self.pending_requests = old.pending_requests \cup {log[i].from}
        /\ self.assigned_endpoints = old.assigned_endpoints
        /\ self.key_agreement_start = old.key_agreement_start
    BY <1>1, <2>3 DEF MemberOK, MemberState, MemberRecords
  <2>5. ProcessPendingRequest(m, started)
    BY <1>4, <2>1, <2>4 DEF ProcessRequest, Founding
  <2> HIDE DEF self
  <2>6. /\ MemberOK(log, m, started)
        /\ started.status = "running"
    BY <1>2, FlagsEffect
  <2>7. /\ started.pending_requests = self.pending_requests
        /\ started.assigned_endpoints = self.assigned_endpoints
    BY <1>2 DEF MemberOK, MemberState, MemberRecords
  <2>8. log[i].from \in Unassigned(started)
    BY <2>1, <2>4, <2>7 DEF Unassigned
  <2> HIDE DEF started
  <2> QED
    BY <1>1, <2>5, <2>6, <2>8, FreshPending
<1> QED
  BY <1>3, <1>4

LEMMA FreshResponse ==
    ASSUME OneService, FreshInv, NEW m \in Members, NEW i \in DOMAIN log,
           Deliverable(m, i), ProcessResponse(m, i)
    PROVE  Fresh(member'[m])
<1> DEFINE old == member[m]
           learnt == Learn(m, old, log[i])
           self == AfterResponse(m, old, log[i])
<1>1. /\ Inv(log, member)
      /\ MemberOK(log, m, old)
      /\ LogOK(log)
      /\ m \in DOMAIN member
      /\ old.status = "running"
      /\ log[i].type = "response"
  BY DEF FreshInv, IInv, Inv, Deliverable, ProcessResponse
<1>2. log[i].service = Service(m) /\ Service(m) \in Services
  BY <1>1, ConfigurationAssumption DEF OneService, LogOK, Messages, Service
<1>3. ~ Founding(old)
  BY <1>1, <1>2, FounderUnanswered DEF FreshInv
<1>4. /\ MemberOK(log, m, learnt)
      /\ learnt.is_sponsor = old.is_sponsor
      /\ learnt.member_id = old.member_id
  BY <1>1, <1>2, LearnOK DEF IsResponse
<1>5. /\ Inv(log, [member EXCEPT ![m] = self])
      /\ self.status = "running"
  BY <1>1, AfterResponseInv
<1>6. MemberOK(log, m, self)
  BY <1>1, <1>5 DEF Inv
<1>7. ~ Founding(self)
  <2>1. self \in {learnt, TakeOver(m, learnt, log[i])}
    BY <1>2 DEF AfterResponse, BecomeSponsor
  <2>2. log[i].assigned_id \in Nat /\ log[i].assigned_id >= 2
    BY <1>1 DEF LogOK, MessageOK, Messages, MemberIds
  <2> HIDE DEF learnt, self
  <2>3. TakeOver(m, learnt, log[i]).member_id = log[i].assigned_id
    BY <1>4, TakeOverEffect
  <2> QED
    BY <1>3, <1>4, <2>1, <2>2, <2>3 DEF Founding, INITIAL_SPONSOR_ID
<1>8. \/ member' = [member EXCEPT ![m] = ContributeStatistics(m, self)]
      \/ \E next \in CheckAndAddNextBlindedKeys(self) : ProcessPendingRequest(m, next)
  BY DEF ProcessResponse
<1> HIDE DEF self
<1>9. CASE member' = [member EXCEPT ![m] = ContributeStatistics(m, self)]
  BY <1>1, <1>5, <1>6, <1>7, <1>9, FreshContribute
<1>10. ASSUME NEW next \in CheckAndAddNextBlindedKeys(self), ProcessPendingRequest(m, next)
       PROVE  Fresh(member'[m])
  <2>1. /\ MemberOK(log, m, next)
        /\ next.is_sponsor = self.is_sponsor
        /\ next.member_id = self.member_id
        /\ next.status = "running"
    BY <1>1, <1>5, <1>6, AddKeysOK
  <2> QED
    BY <1>1, <1>7, <1>10, <2>1, FreshPending DEF Founding
<1> QED
  BY <1>8, <1>9, <1>10

LEMMA FreshLaunch ==
    ASSUME FreshInv, NEW m \in Members, Launch(m)
    PROVE  Fresh(member'[m])
<1>1. /\ MemberOK(log, m, member[m])
      /\ m \in DOMAIN member
      /\ Fresh(member[m])
      /\ member[m].status = "down"
  BY DEF FreshInv, IInv, Inv, Launch
<1>2. member'[m].status = "running"
  BY <1>1 DEF Launch, MemberOK, MemberState, MemberRecords
<1>3. /\ member'[m].key_agreement_start = member[m].key_agreement_start
      /\ member'[m].assigned_endpoints = member[m].assigned_endpoints
  BY <1>1 DEF Launch, MemberOK, MemberState, MemberRecords
<1> QED
  BY <1>1, <1>2, <1>3 DEF Fresh

LEMMA FreshNext ==
    ASSUME OneService, FreshInv, [Next]_vars PROVE FreshInv'
<1>1. /\ IInv'
      /\ Inv(log, member)
      /\ \A m \in Members : Fresh(member[m])
  BY NextInv DEF FreshInv, IInv
<1>2. ASSUME NEW m \in Members, Fresh(member'[m]),
             \A n \in Members \ {m} : member'[n] = member[n]
      PROVE  FreshInv'
  <2>1. \A n \in Members : Fresh(member'[n])
    BY <1>1, <1>2
  <2> QED
    BY <1>1, <2>1 DEF FreshInv, Fresh, Founding
<1>3. CASE member' = member
  BY <1>1, <1>3 DEF FreshInv, Fresh, Founding
<1>4. ASSUME NEW m \in Members, Launch(m) PROVE FreshInv'
  <2>1. \A n \in Members \ {m} : member'[n] = member[n]
    BY <1>1, <1>4 DEF Launch, Inv
  <2> QED
    BY <1>2, <1>4, <2>1, FreshLaunch
<1>5. ASSUME NEW m \in Members, NEW i \in DOMAIN log, Deliverable(m, i),
             ProcessRequest(m, i) \/ ProcessResponse(m, i)
      PROVE  FreshInv'
  <2>1. \/ \E self : ProcessPendingRequest(m, self)
        \/ \E self : member' = [member EXCEPT ![m] = self]
    BY <1>5, Zenon DEF ProcessRequest, ProcessResponse
  <2>2. \A n \in Members \ {m} : member'[n] = member[n]
    BY <1>1, <2>1 DEF ProcessPendingRequest, Inv
  <2> QED
    BY <1>2, <1>5, <2>2, FreshRequest, FreshResponse
<1>6. \A m, i : ProcessOffer(m, i) \/ Duplicate(m, i) => member' = member
  BY DEF ProcessOffer, Duplicate
<1>7. CASE UNCHANGED vars
  BY <1>3, <1>7 DEF vars
<1> QED
  BY <1>3, <1>4, <1>5, <1>6, <1>7 DEF Next, Receive

(***************************************************************************)
(* TimestampsRecordedOnce: where one group uses the multicast address, no  *)
(* founder records the start of the key agreement twice, whatever the      *)
(* network loses, reorders or duplicates.                                  *)
(***************************************************************************)
THEOREM TimestampsOnce ==
    ASSUME OneService PROVE Spec => []TimestampsRecordedOnce
<1>1. Init => FreshInv
  <2>1. Init => \A m \in Members : Fresh(member[m])
    BY DEF Init, InitialMember, Fresh
  <2> QED
    BY <2>1, InitInv DEF FreshInv
<1>2. FreshInv /\ [Next]_vars => FreshInv'
  BY FreshNext
<1>3. FreshInv => TimestampsRecordedOnce
  BY DEF FreshInv, Fresh, TimestampsRecordedOnce
<1> QED
  BY <1>1, <1>2, <1>3, PTL DEF Spec
=============================================================================
