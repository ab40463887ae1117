--------------------------- MODULE StrDhRtxProofs ---------------------------
(***************************************************************************)
(* Proofs about StrDhRtx, the build with RETRANSMISSIONS, for any number   *)
(* of members and groups, on both networks, with any number of expired     *)
(* timers that wait for their handlers.                                    *)
(*                                                                         *)
(* The inductive invariant speaks of the states mem of the members, so     *)
(* that it can be carried through the parts of a handler, each of which    *)
(* maps it to itself, before the handler's effect is complete.             *)
(***************************************************************************)
EXTENDS StrDhRtx, FiniteSetTheorems, TLAPS

Fields ==
    {"status", "is_sponsor", "request_scheduled", "response_scheduled",
     "higher_member_id_synching", "higher_member_id_assigned", "synch_token_rcvd",
     "synch_finished", "last_member_synch_token_sending_triggered",
     "finish_message_rcvd", "member_id", "group_secret", "blinded_group_secret",
     "keys_computed_count", "pending_requests", "assigned_keys", "assigned_endpoints",
     "response_message_cache", "time_statistics", "scatter_wait", "scatter_queue",
     "timeout_wait"}

(***************************************************************************)
(* The assignments of ids: a sponsor keeps the response that it sent, so   *)
(* all of them are the history of the agreement.  In the group of s, e was *)
(* given id: the founder the first one, everybody else by a response.      *)
(***************************************************************************)
Assignments ==
    [type : {"response"}, from : Members, service : Services,
     blinded_group_secret : Seq(Members), new_sponsor : Members,
     assigned_id : MemberIds]

History(mem) == UNION {mem[m].response_message_cache : m \in Members}

Gives(H, s, id, e) ==
    \/ id = INITIAL_SPONSOR_ID /\ e = founder[s]
    \/ \E x \in H : x.service = s /\ x.assigned_id = id /\ x.new_sponsor = e

Backed(H, s, seq) == \A k \in DOMAIN seq : Gives(H, s, k, seq[k])

AssignmentOK(H, x) ==
    /\ x \in Assignments
    /\ x.service = Service(x.from)
    /\ x.service = Service(x.new_sponsor)
    /\ x.new_sponsor # founder[x.service]
    /\ x.assigned_id >= 2
    /\ x.assigned_id <= member_count[x.service]
    /\ Len(x.blinded_group_secret) = x.assigned_id - 1
    /\ Backed(H, x.service, x.blinded_group_secret)
    /\ Gives(H, x.service, x.assigned_id - 1, x.from)

\* An id is given once, and nobody is given two.
GivenOnce(H) ==
    \A x, y \in H :
        /\ x.service = y.service
        /\ x.assigned_id = y.assigned_id \/ x.new_sponsor = y.new_sponsor
        => x = y

HistoryOK(H) == (\A x \in H : AssignmentOK(H, x)) /\ GivenOnce(H)

(***************************************************************************)
(* What holds of the state of one member by itself.                        *)
(***************************************************************************)
Waits == Cyclic \cup {"request", "info", "synch_info", "none"}

CoreTypes(self) ==
    /\ DOMAIN self = Fields
    /\ self.status \in {"down", "running", "stopped", "crashed"}
    /\ self.is_sponsor \in BOOLEAN
    /\ self.member_id \in Nat
    /\ self.group_secret \in Seq(Members)
    /\ self.blinded_group_secret \in Seq(Members)
    /\ self.keys_computed_count \in Nat
    /\ self.pending_requests \subseteq Members
    /\ self.assigned_keys \in [DOMAIN self.assigned_keys -> Members]
    /\ DOMAIN self.assigned_keys \subseteq MemberIds
    /\ self.assigned_endpoints \in [DOMAIN self.assigned_endpoints -> MemberIds]
    /\ DOMAIN self.assigned_endpoints \subseteq Members

TimerTypes(self) ==
    /\ self.request_scheduled \in BOOLEAN
    /\ self.response_scheduled \in BOOLEAN
    /\ self.scatter_wait \in Waits
    /\ self.scatter_queue \in Seq(Handlers)

\* The two maps of a member are the inverse of each other, and right.
MapsOK(H, m, self) ==
    /\ m \notin DOMAIN self.assigned_endpoints
    /\ \A id \in DOMAIN self.assigned_keys :
          /\ self.assigned_keys[id] \in DOMAIN self.assigned_endpoints
          /\ self.assigned_endpoints[self.assigned_keys[id]] = id
    /\ \A e \in DOMAIN self.assigned_endpoints :
          /\ self.assigned_endpoints[e] \in DOMAIN self.assigned_keys
          /\ self.assigned_keys[self.assigned_endpoints[e]] = e
          /\ Gives(H, Service(m), self.assigned_endpoints[e], e)

PendingOK(m, self) == \A e \in self.pending_requests : e # m /\ Service(e) = Service(m)

CountOK(m, self) ==
    IF IsAssigned(self)
    THEN /\ Len(self.group_secret) = LastKeyId(self)
         /\ self.keys_computed_count >= 1
         /\ self.group_secret[self.member_id] = m
    ELSE /\ self.group_secret = <<>>
         /\ self.keys_computed_count = 0
         /\ ~ self.is_sponsor

SponsorOK(self) ==
    self.is_sponsor =>
        /\ Len(self.group_secret) = self.member_id
        /\ self.blinded_group_secret = self.group_secret

StoppedOK(m, self) ==
    /\ self.status = "down" => self = InitialMember
    /\ self.status = "stopped" =>
          /\ IsAssigned(self)
          /\ LastKeyId(self) = member_count[Service(m)]

CacheOK(m, self) ==
    \A x \in self.response_message_cache :
        /\ x.from = m
        /\ IsAssigned(self)
        /\ x.assigned_id = self.member_id + 1
        /\ ~ self.is_sponsor

MemberOK(H, m, self) ==
    /\ CoreTypes(self)
    /\ MapsOK(H, m, self)
    /\ PendingOK(m, self)
    /\ Backed(H, Service(m), self.group_secret)
    /\ CountOK(m, self)
    /\ SponsorOK(self)
    /\ StoppedOK(m, self)
    /\ CacheOK(m, self)

(***************************************************************************)
(* The sponsor role: before the founder there is none; there is at most    *)
(* one sponsor and it has the highest id given; while the addressee of a   *)
(* response has no id, its id is the highest and there is no sponsor; and  *)
(* the role is somewhere until the last member has had it.                 *)
(***************************************************************************)
IsSponsor(mem, s, m) == m \in Members /\ Service(m) = s /\ mem[m].is_sponsor

OnItsWay(mem, s, x) ==
    x \in History(mem) /\ x.service = s /\ ~ IsAssigned(mem[x.new_sponsor])

IsLast(mem, s, m) == m \in Members /\ Service(m) = s /\ mem[m].member_id = member_count[s]

FounderFirst(mem, s) ==
    mem[founder[s]].status = "down" => \A x \in History(mem) : x.service # s

OneSponsor(mem, s) ==
    \A m, n \in Members : IsSponsor(mem, s, m) /\ IsSponsor(mem, s, n) => m = n

SponsorHighest(mem, s) ==
    \A m \in Members, x \in History(mem) :
        IsSponsor(mem, s, m) /\ x.service = s => x.assigned_id <= mem[m].member_id

TransitHighest(mem, s) ==
    \A x \in History(mem) : OnItsWay(mem, s, x) =>
        /\ \A m \in Members : ~ IsSponsor(mem, s, m)
        /\ \A y \in History(mem) : y.service = s => y.assigned_id <= x.assigned_id

BatonSomewhere(mem, s) ==
    mem[founder[s]].status # "down" =>
        \/ \E m \in Members : IsSponsor(mem, s, m) \/ IsLast(mem, s, m)
        \/ \E x \in History(mem) : OnItsWay(mem, s, x)

BatonOK(mem) ==
    \A s \in Services :
        /\ FounderFirst(mem, s)
        /\ OneSponsor(mem, s)
        /\ SponsorHighest(mem, s)
        /\ TransitHighest(mem, s)
        /\ BatonSomewhere(mem, s)

Inv(mem) ==
    /\ mem \in [Members -> {mem[m] : m \in Members}]
    /\ HistoryOK(History(mem))
    /\ \A m \in Members : MemberOK(History(mem), m, mem[m])
    /\ BatonOK(mem)

\* A sponsor has room for one more member, when its handler is complete.
Room(mem) ==
    \A m \in Members : mem[m].is_sponsor => mem[m].member_id < member_count[Service(m)]

(***************************************************************************)
(* What is on its way is what its sender is, or was, and stays.            *)
(***************************************************************************)
Truthful(m, self, msg) ==
    /\ msg \in Messages
    /\ msg.from = m
    /\ msg.type \notin {"synch_token", "finish", "finish_ack"} => msg.service = Service(m)
    /\ msg.type = "response" => msg \in self.response_message_cache
    /\ msg.type \in {"info_response", "synch_response"} =>
          IsAssigned(self) /\ msg.member_id = self.member_id

NetOK(nt, mem) ==
    /\ nt \in [Members -> SUBSET Messages]
    /\ \A m \in Members : \A msg \in nt[m] : Truthful(m, mem[m], msg)

(***************************************************************************)
(* The timers: the flags of the answers that are scheduled, and who is to  *)
(* answer has an id.                                                       *)
(***************************************************************************)
At(self, j) == IF j = 0 THEN self.scatter_wait ELSE self.scatter_queue[j]

Some(self, kinds) == \E j \in 0 .. Len(self.scatter_queue) : At(self, j) \in kinds

Single(self, kinds) ==
    \A i, j \in 0 .. Len(self.scatter_queue) :
        At(self, i) \in kinds /\ At(self, j) \in kinds => i = j

Requesting == {"request", "request_aborted"}
Answering == {"info", "synch_info", "info_aborted"}

TimersOK(self) ==
    /\ TimerTypes(self)
    /\ self.request_scheduled <=> Some(self, Requesting)
    /\ self.response_scheduled <=> Some(self, Answering)
    /\ Single(self, Requesting)
    /\ Single(self, Answering)
    /\ \A j \in 0 .. Len(self.scatter_queue) :
          At(self, j) \in {"info", "synch_info"} => IsAssigned(self)

\* Only a member with an id started the synch token.
TriggeredOK(self) == self.last_member_synch_token_sending_triggered => IsAssigned(self)

IInv ==
    /\ Inv(member)
    /\ Room(member)
    /\ NetOK(net, member)
    /\ \A m \in Members : TimersOK(member[m]) /\ TriggeredOK(member[m])

-----------------------------------------------------------------------------
(***************************************************************************)
(* Lemmas about the history.                                               *)
(***************************************************************************)
LEMMA ServiceTypes ==
    /\ \A m \in Members : Service(m) \in Services
    /\ \A s \in Services : founder[s] \in Members /\ Service(founder[s]) = s
    /\ \A s \in Services : member_count[s] \in Nat \ {0}
    /\ \A s \in Services : IsFounder(founder[s])
BY ConfigurationAssumption DEF Service, IsFounder

LEMMA GivesGrows ==
    ASSUME NEW H, NEW K, H \subseteq K, NEW s, NEW id, NEW e, Gives(H, s, id, e)
    PROVE  Gives(K, s, id, e)
BY DEF Gives

LEMMA BackedGrows ==
    ASSUME NEW H, NEW K, H \subseteq K, NEW s, NEW seq, Backed(H, s, seq)
    PROVE  Backed(K, s, seq)
BY GivesGrows DEF Backed

LEMMA AssignmentGrows ==
    ASSUME NEW H, NEW K, H \subseteq K, NEW x, AssignmentOK(H, x)
    PROVE  AssignmentOK(K, x)
BY GivesGrows, BackedGrows DEF AssignmentOK

\* A group has one holder of an id, and nobody has two ids.
LEMMA GivesUnique ==
    ASSUME NEW H, HistoryOK(H), NEW s \in Services, NEW i, NEW j, NEW d, NEW e,
           Gives(H, s, i, d), Gives(H, s, j, e)
    PROVE  i = j <=> d = e
<1>1. \A x \in H : x.assigned_id # INITIAL_SPONSOR_ID /\ x.new_sponsor # founder[x.service]
  BY DEF HistoryOK, AssignmentOK, INITIAL_SPONSOR_ID, Assignments, MemberIds
<1>2. \A x, y \in H : /\ x.service = y.service
                      /\ x.assigned_id = y.assigned_id \/ x.new_sponsor = y.new_sponsor
                      => x = y
  BY DEF HistoryOK, GivenOnce
<1> QED
  BY <1>1, <1>2 DEF Gives

LEMMA GivesType ==
    ASSUME NEW H, HistoryOK(H), NEW s \in Services, NEW id, NEW e, Gives(H, s, id, e)
    PROVE  /\ e \in Members
           /\ Service(e) = s
           /\ id \in Nat
           /\ id >= 1
           /\ id # 1 => id <= member_count[s]
BY ServiceTypes DEF HistoryOK, AssignmentOK, Assignments, MemberIds, Gives, INITIAL_SPONSOR_ID

LEMMA HistoryMember ==
    ASSUME NEW mem, NEW m \in Members, NEW x \in mem[m].response_message_cache
    PROVE  x \in History(mem)
BY DEF History

\* A member with an id was given it.
LEMMA OwnId ==
    ASSUME NEW H, NEW m \in Members, NEW self, MemberOK(H, m, self), IsAssigned(self)
    PROVE  /\ Gives(H, Service(m), self.member_id, m)
           /\ self.member_id \in Nat \ {0}
           /\ self.member_id \in DOMAIN self.group_secret
<1>1. /\ self.member_id \in Nat \ {0}
      /\ self.group_secret \in Seq(Members)
      /\ self.keys_computed_count \in Nat
      /\ self.keys_computed_count >= 1
      /\ Len(self.group_secret) = LastKeyId(self)
      /\ self.group_secret[self.member_id] = m
  BY DEF MemberOK, CoreTypes, CountOK, IsAssigned, DEFAULT_MEMBER_ID
<1>2. self.member_id \in DOMAIN self.group_secret
  BY <1>1 DEF LastKeyId
<1> QED
  BY <1>1, <1>2 DEF MemberOK, Backed

\* Whatever a member knew keeps its backing when the history grows.
LEMMA MemberGrows ==
    ASSUME NEW H, NEW K, H \subseteq K, NEW m, NEW self, MemberOK(H, m, self)
    PROVE  MemberOK(K, m, self)
BY GivesGrows, BackedGrows DEF MemberOK, MapsOK

(***************************************************************************)
(* The fields the invariant of the members speaks of.                      *)
(***************************************************************************)
SameKeys(a, b) ==
    /\ DOMAIN b = DOMAIN a
    /\ b.member_id = a.member_id
    /\ b.group_secret = a.group_secret
    /\ b.keys_computed_count = a.keys_computed_count
    /\ b.assigned_keys = a.assigned_keys
    /\ b.assigned_endpoints = a.assigned_endpoints

SameCore(a, b) ==
    /\ SameKeys(a, b)
    /\ b.status = a.status
    /\ b.is_sponsor = a.is_sponsor
    /\ b.blinded_group_secret = a.blinded_group_secret
    /\ b.pending_requests = a.pending_requests
    /\ b.response_message_cache = a.response_message_cache

LEMMA SameCoreOK ==
    ASSUME NEW H, NEW m, NEW a, MemberOK(H, m, a), NEW b, SameCore(a, b), a.status # "down"
    PROVE  MemberOK(H, m, b)
<1>1. CoreTypes(b)
  BY DEF SameCore, SameKeys, MemberOK, CoreTypes
<1>2. MapsOK(H, m, b) /\ PendingOK(m, b) /\ Backed(H, Service(m), b.group_secret)
  BY DEF SameCore, SameKeys, MemberOK, MapsOK, PendingOK
<1>3. CountOK(m, b) /\ SponsorOK(b) /\ StoppedOK(m, b) /\ CacheOK(m, b)
  BY DEF SameCore, SameKeys, MemberOK, CountOK, SponsorOK, StoppedOK, CacheOK, IsAssigned, LastKeyId
<1> QED
  BY <1>1, <1>2, <1>3 DEF MemberOK

\* What is less than the invariant asks for may change.
LEMMA PendingChange ==
    ASSUME NEW H, NEW m, NEW self, MemberOK(H, m, self), NEW set,
           \A e \in set : e \in Members /\ e # m /\ Service(e) = Service(m),
           self.status # "down"
    PROVE  LET next == [self EXCEPT !.pending_requests = set]
           IN  /\ MemberOK(H, m, next)
               /\ SameKeys(self, next)
               /\ next.status = self.status
               /\ next.is_sponsor = self.is_sponsor
               /\ next.pending_requests = set
               /\ next.response_message_cache = self.response_message_cache
<1> DEFINE next == [self EXCEPT !.pending_requests = set]
<1>1. /\ SameKeys(self, next)
      /\ next.status = self.status
      /\ next.is_sponsor = self.is_sponsor
      /\ next.blinded_group_secret = self.blinded_group_secret
      /\ next.pending_requests = set
      /\ next.response_message_cache = self.response_message_cache
  BY DEF MemberOK, CoreTypes, Fields, SameKeys
<1> HIDE DEF next
<1>2. CoreTypes(next)
  BY <1>1 DEF SameKeys, MemberOK, CoreTypes
<1>3. MapsOK(H, m, next) /\ PendingOK(m, next) /\ Backed(H, Service(m), next.group_secret)
  BY <1>1 DEF SameKeys, MemberOK, MapsOK, PendingOK
<1>4. CountOK(m, next) /\ SponsorOK(next) /\ StoppedOK(m, next) /\ CacheOK(m, next)
  BY <1>1 DEF SameKeys, MemberOK, CountOK, SponsorOK, StoppedOK, CacheOK, IsAssigned, LastKeyId
<1>5. MemberOK(H, m, next)
  BY <1>2, <1>3, <1>4 DEF MemberOK
<1> QED
  BY <1>1, <1>5 DEF next

-----------------------------------------------------------------------------
(***************************************************************************)
(* A change of one member that leaves its id, role and assignment alone    *)
(* keeps the invariant.                                                    *)
(***************************************************************************)
LEMMA Updated ==
    ASSUME NEW mem, mem \in [Members -> {mem[m] : m \in Members}], NEW m \in Members,
           NEW self
    PROVE  LET next == [mem EXCEPT ![m] = self]
           IN  /\ next \in [Members -> {next[n] : n \in Members}]
               /\ next[m] = self
               /\ \A n \in Members : n # m => next[n] = mem[n]
OBVIOUS

LEMMA HistorySame ==
    ASSUME NEW mem, NEW next, NEW m \in Members,
           next[m].response_message_cache = mem[m].response_message_cache,
           \A n \in Members : n # m => next[n] = mem[n]
    PROVE  History(next) = History(mem)
<1>1. \A n \in Members : next[n].response_message_cache = mem[n].response_message_cache
  OBVIOUS
<1> QED
  BY <1>1 DEF History

LEMMA LocalChange ==
    ASSUME NEW mem, Inv(mem), NEW m \in Members, NEW self,
           MemberOK(History(mem), m, self),
           self.is_sponsor = mem[m].is_sponsor,
           self.member_id = mem[m].member_id,
           self.response_message_cache = mem[m].response_message_cache,
           IsFounder(m) => (self.status = "down" <=> mem[m].status = "down")
    PROVE  /\ Inv([mem EXCEPT ![m] = self])
           /\ History([mem EXCEPT ![m] = self]) = History(mem)
<1> DEFINE next == [mem EXCEPT ![m] = self]
<1>1. /\ next \in [Members -> {next[n] : n \in Members}]
      /\ next[m] = self
      /\ \A n \in Members : n # m => next[n] = mem[n]
  BY Updated DEF Inv
<1> HIDE DEF next
<1>2. History(next) = History(mem)
  BY <1>1, HistorySame
<1>3. \A n \in Members : MemberOK(History(next), n, next[n])
  BY <1>1, <1>2 DEF Inv
<1>4. \A n \in Members : /\ next[n].is_sponsor = mem[n].is_sponsor
                         /\ next[n].member_id = mem[n].member_id
  BY <1>1
<1>5. \A s \in Services : next[founder[s]].status = "down" <=> mem[founder[s]].status = "down"
  BY <1>1, ServiceTypes
<1>6. \A x \in History(mem) : x.new_sponsor \in Members
  BY DEF Inv, HistoryOK, AssignmentOK, Assignments
<1>7. ASSUME NEW s \in Services
      PROVE  /\ FounderFirst(next, s)
             /\ OneSponsor(next, s)
             /\ SponsorHighest(next, s)
             /\ TransitHighest(next, s)
             /\ BatonSomewhere(next, s)
  <2>1. /\ FounderFirst(mem, s)
        /\ OneSponsor(mem, s)
        /\ SponsorHighest(mem, s)
        /\ TransitHighest(mem, s)
        /\ BatonSomewhere(mem, s)
    BY DEF Inv, BatonOK
  <2>2. \A n : /\ IsSponsor(next, s, n) <=> IsSponsor(mem, s, n)
               /\ IsLast(next, s, n) <=> IsLast(mem, s, n)
    BY <1>4 DEF IsSponsor, IsLast
  <2>3. \A x : OnItsWay(next, s, x) <=> OnItsWay(mem, s, x)
    BY <1>2, <1>4, <1>6 DEF OnItsWay, IsAssigned
  <2>4. FounderFirst(next, s)
    BY <1>2, <1>5, <2>1 DEF FounderFirst
  <2>5. OneSponsor(next, s)
    BY <2>1, <2>2 DEF OneSponsor
  <2>6. SponsorHighest(next, s)
    BY <1>2, <1>4, <2>1, <2>2 DEF SponsorHighest
  <2>7. TransitHighest(next, s)
    BY <1>2, <2>1, <2>2, <2>3 DEF TransitHighest
  <2>8. BatonSomewhere(next, s)
    BY <1>2, <1>5, <2>1, <2>2, <2>3 DEF BatonSomewhere
  <2> QED
    BY <2>4, <2>5, <2>6, <2>7, <2>8
<1>8. HistoryOK(History(next))
  BY <1>2 DEF Inv
<1>9. Inv(next)
  BY <1>1, <1>3, <1>7, <1>8 DEF Inv, BatonOK
<1> QED
  BY <1>2, <1>9 DEF next

LEMMA CoreChange ==
    ASSUME NEW mem, Inv(mem), NEW m \in Members, mem[m].status # "down", NEW self,
           SameCore(mem[m], self)
    PROVE  /\ Inv([mem EXCEPT ![m] = self])
           /\ History([mem EXCEPT ![m] = self]) = History(mem)
<1>1. MemberOK(History(mem), m, self)
  BY SameCoreOK DEF Inv
<1> QED
  BY <1>1, LocalChange DEF SameCore, SameKeys

\* Two changes of one member in a handler are one.
LEMMA ChangeTwice ==
    ASSUME NEW mem, NEW m, NEW a, NEW b
    PROVE  [[mem EXCEPT ![m] = a] EXCEPT ![m] = b] = [mem EXCEPT ![m] = b]
OBVIOUS

LEMMA ChangeNothing ==
    ASSUME NEW mem, Inv(mem), NEW m \in Members
    PROVE  [mem EXCEPT ![m] = mem[m]] = mem
BY DEF Inv

-----------------------------------------------------------------------------
(***************************************************************************)
(* The parts of process_response and process_member_info_response_.        *)
(***************************************************************************)
\* Both maps learn that e has the id, which they did not know.
LEMMA PutMaps ==
    ASSUME NEW H, HistoryOK(H), NEW m \in Members, NEW self, NEW next,
           CoreTypes(self), MapsOK(H, m, self),
           NEW e \in Members, e # m, e \notin DOMAIN self.assigned_endpoints,
           NEW id \in MemberIds, Gives(H, Service(m), id, e),
           next.assigned_keys = Put(self.assigned_keys, id, e),
           next.assigned_endpoints = Put(self.assigned_endpoints, e, id)
    PROVE  /\ MapsOK(H, m, next)
           /\ id \notin DOMAIN self.assigned_keys
           /\ next.assigned_keys \in [DOMAIN next.assigned_keys -> Members]
           /\ DOMAIN next.assigned_keys \subseteq MemberIds
           /\ next.assigned_endpoints \in [DOMAIN next.assigned_endpoints -> MemberIds]
           /\ DOMAIN next.assigned_endpoints \subseteq Members
<1>1. id \notin DOMAIN self.assigned_keys
  <2> SUFFICES ASSUME id \in DOMAIN self.assigned_keys PROVE FALSE
    OBVIOUS
  <2>1. /\ self.assigned_keys[id] \in DOMAIN self.assigned_endpoints
        /\ Gives(H, Service(m), id, self.assigned_keys[id])
    BY DEF MapsOK
  <2> QED
    BY <2>1, GivesUnique, ServiceTypes
<1>2. /\ next.assigned_keys \in [DOMAIN next.assigned_keys -> Members]
      /\ DOMAIN next.assigned_keys \subseteq MemberIds
      /\ DOMAIN next.assigned_keys = DOMAIN self.assigned_keys \cup {id}
      /\ next.assigned_keys[id] = e
      /\ \A z \in DOMAIN self.assigned_keys : next.assigned_keys[z] = self.assigned_keys[z]
  <2> DEFINE old == self.assigned_keys
  <2>1. old \in [DOMAIN old -> Members] /\ DOMAIN old \subseteq MemberIds
    BY DEF CoreTypes
  <2> HIDE DEF old
  <2>2. /\ Put(old, id, e) \in [DOMAIN Put(old, id, e) -> Members]
        /\ DOMAIN Put(old, id, e) = DOMAIN old \cup {id}
        /\ DOMAIN Put(old, id, e) \subseteq MemberIds
        /\ Put(old, id, e)[id] = e
        /\ \A z \in DOMAIN old : z # id => Put(old, id, e)[z] = old[z]
    BY <2>1 DEF Put
  <2> QED
    BY <1>1, <2>2 DEF old
<1>3. /\ next.assigned_endpoints \in [DOMAIN next.assigned_endpoints -> MemberIds]
      /\ DOMAIN next.assigned_endpoints \subseteq Members
      /\ DOMAIN next.assigned_endpoints = DOMAIN self.assigned_endpoints \cup {e}
      /\ next.assigned_endpoints[e] = id
      /\ \A z \in DOMAIN self.assigned_endpoints :
            next.assigned_endpoints[z] = self.assigned_endpoints[z]
  <2> DEFINE old == self.assigned_endpoints
  <2>1. old \in [DOMAIN old -> MemberIds] /\ DOMAIN old \subseteq Members
    BY DEF CoreTypes
  <2> HIDE DEF old
  <2>2. /\ Put(old, e, id) \in [DOMAIN Put(old, e, id) -> MemberIds]
        /\ DOMAIN Put(old, e, id) = DOMAIN old \cup {e}
        /\ DOMAIN Put(old, e, id) \subseteq Members
        /\ Put(old, e, id)[e] = id
        /\ \A z \in DOMAIN old : z # e => Put(old, e, id)[z] = old[z]
    BY <2>1 DEF Put
  <2> QED
    BY <2>2 DEF old
<1>4. MapsOK(H, m, next)
  BY <1>1, <1>2, <1>3 DEF MapsOK
<1> QED
  BY <1>1, <1>2, <1>3, <1>4

LEMMA NoteOK ==
    ASSUME NEW H, HistoryOK(H), NEW m \in Members, NEW self, MemberOK(H, m, self),
           self.status # "down",
           NEW e \in Members, NEW id \in MemberIds, Gives(H, Service(m), id, e)
    PROVE  LET next == Note(m, self, e, id)
           IN  /\ MemberOK(H, m, next)
               /\ DOMAIN next = DOMAIN self
               /\ next.status = self.status
               /\ next.is_sponsor = self.is_sponsor
               /\ next.member_id = self.member_id
               /\ next.group_secret = self.group_secret
               /\ next.pending_requests = self.pending_requests
               /\ next.response_message_cache = self.response_message_cache
<1>1. CASE e = m \/ e \in DOMAIN self.assigned_endpoints
  BY <1>1 DEF Note
<1>2. CASE ~ (e = m \/ e \in DOMAIN self.assigned_endpoints)
  <2> DEFINE next == Note(m, self, e, id)
  <2>1. /\ DOMAIN next = DOMAIN self
        /\ next.status = self.status
        /\ next.is_sponsor = self.is_sponsor
        /\ next.member_id = self.member_id
        /\ next.group_secret = self.group_secret
        /\ next.blinded_group_secret = self.blinded_group_secret
        /\ next.keys_computed_count = self.keys_computed_count
        /\ next.pending_requests = self.pending_requests
        /\ next.response_message_cache = self.response_message_cache
        /\ next.assigned_keys = Put(self.assigned_keys, id, e)
        /\ next.assigned_endpoints = Put(self.assigned_endpoints, e, id)
    BY <1>2 DEF Note, MemberOK, CoreTypes, Fields
  <2> HIDE DEF next
  <2>2. /\ MapsOK(H, m, next)
        /\ next.assigned_keys \in [DOMAIN next.assigned_keys -> Members]
        /\ DOMAIN next.assigned_keys \subseteq MemberIds
        /\ next.assigned_endpoints \in [DOMAIN next.assigned_endpoints -> MemberIds]
        /\ DOMAIN next.assigned_endpoints \subseteq Members
    BY <1>2, <2>1, PutMaps DEF MemberOK
  <2>3. CoreTypes(next)
    BY <2>1, <2>2 DEF MemberOK, CoreTypes
  <2>4. /\ PendingOK(m, next)
        /\ Backed(H, Service(m), next.group_secret)
        /\ CountOK(m, next)
        /\ SponsorOK(next)
        /\ StoppedOK(m, next)
        /\ CacheOK(m, next)
    BY <2>1 DEF MemberOK, PendingOK, CountOK, SponsorOK, StoppedOK, CacheOK, IsAssigned,
                LastKeyId
  <2> QED
    BY <2>1, <2>2, <2>3, <2>4 DEF MemberOK, next
<1> QED
  BY <1>1, <1>2

LEMMA LearnOK ==
    ASSUME NEW H, HistoryOK(H), NEW m \in Members, NEW self, MemberOK(H, m, self),
           self.status # "down", NEW x \in H, x.service = Service(m)
    PROVE  LET next == Learn(m, self, x)
           IN  /\ MemberOK(H, m, next)
               /\ DOMAIN next = DOMAIN self
               /\ next.status = self.status
               /\ next.is_sponsor = self.is_sponsor
               /\ next.member_id = self.member_id
               /\ next.group_secret = self.group_secret
               /\ next.response_message_cache = self.response_message_cache
<1> DEFINE new == Note(m, self, x.new_sponsor, x.assigned_id)
           old == Note(m, new, x.from, x.assigned_id - 1)
           set == old.pending_requests \ {x.new_sponsor, x.from}
<1>1. /\ x.new_sponsor \in Members
      /\ x.from \in Members
      /\ x.assigned_id \in MemberIds
      /\ x.assigned_id - 1 \in MemberIds
      /\ Gives(H, Service(m), x.assigned_id, x.new_sponsor)
      /\ Gives(H, Service(m), x.assigned_id - 1, x.from)
  BY DEF HistoryOK, AssignmentOK, Assignments, MemberIds, DEFAULT_MEMBER_ID, Gives
<1>2. /\ MemberOK(H, m, new)
      /\ DOMAIN new = DOMAIN self
      /\ new.status = self.status
      /\ new.is_sponsor = self.is_sponsor
      /\ new.member_id = self.member_id
      /\ new.group_secret = self.group_secret
      /\ new.response_message_cache = self.response_message_cache
  BY <1>1, NoteOK
<1>3. Learn(m, self, x) = [old EXCEPT !.pending_requests = set]
  BY DEF Learn
<1> HIDE DEF new
<1>4. /\ MemberOK(H, m, old)
      /\ DOMAIN old = DOMAIN self
      /\ old.status = self.status
      /\ old.is_sponsor = self.is_sponsor
      /\ old.member_id = self.member_id
      /\ old.group_secret = self.group_secret
      /\ old.response_message_cache = self.response_message_cache
  BY <1>1, <1>2, NoteOK
<1>5. \A e \in set : e \in Members /\ e # m /\ Service(e) = Service(m)
  BY <1>4 DEF MemberOK, CoreTypes, PendingOK
<1> HIDE DEF old, set
<1> QED
  BY <1>3, <1>4, <1>5, PendingChange DEF SameKeys

(***************************************************************************)
(* The addressee of a response that has no id yet becomes the only sponsor *)
(* and has the highest id.                                                 *)
(***************************************************************************)
LEMMA TakeOverOK ==
    ASSUME NEW H, HistoryOK(H), NEW m \in Members, NEW self, MemberOK(H, m, self),
           self.status = "running", ~ IsAssigned(self),
           NEW x \in H, x.service = Service(m), x.new_sponsor = m
    PROVE  MemberOK(H, m, TakeOver(m, self, x))
<1> DEFINE secret == Append(x.blinded_group_secret, m)
           next == TakeOver(m, self, x)
<1>1. /\ x.blinded_group_secret \in Seq(Members)
      /\ x.assigned_id \in Nat \ {0}
      /\ Len(x.blinded_group_secret) = x.assigned_id - 1
      /\ Backed(H, Service(m), x.blinded_group_secret)
      /\ Gives(H, Service(m), x.assigned_id, m)
  BY DEF HistoryOK, AssignmentOK, Assignments, MemberIds, DEFAULT_MEMBER_ID, Gives
<1>2. /\ secret \in Seq(Members)
      /\ Len(secret) = x.assigned_id
      /\ secret[x.assigned_id] = m
      /\ Backed(H, Service(m), secret)
  BY <1>1 DEF Backed
<1>3. CoreTypes(self) /\ self.keys_computed_count = 0
  BY DEF MemberOK, CountOK
<1>4. /\ DOMAIN next = Fields
      /\ next.is_sponsor
      /\ next.member_id = x.assigned_id
      /\ next.group_secret = secret
      /\ next.blinded_group_secret = secret
      /\ next.keys_computed_count = 1
      /\ next.status = "running"
      /\ next.pending_requests = self.pending_requests
      /\ next.assigned_keys = self.assigned_keys
      /\ next.assigned_endpoints = self.assigned_endpoints
      /\ next.response_message_cache = self.response_message_cache
  BY <1>3 DEF TakeOver, CoreTypes, Fields
<1>5. next.is_sponsor = TRUE
  BY <1>3 DEF TakeOver, CoreTypes, Fields
<1> HIDE DEF next, secret
<1>6. CoreTypes(next)
  BY <1>1, <1>2, <1>3, <1>4, <1>5 DEF CoreTypes
<1>7. MapsOK(H, m, next) /\ PendingOK(m, next)
  BY <1>4 DEF MemberOK, MapsOK, PendingOK
<1>8. Backed(H, Service(m), next.group_secret) /\ CountOK(m, next) /\ SponsorOK(next)
  BY <1>1, <1>2, <1>4 DEF CountOK, SponsorOK, IsAssigned, LastKeyId, DEFAULT_MEMBER_ID
<1>9. StoppedOK(m, next) /\ CacheOK(m, next)
  BY <1>4 DEF StoppedOK, MemberOK, CacheOK
<1> QED
  BY <1>6, <1>7, <1>8, <1>9 DEF MemberOK, next

LEMMA TakeOverInv ==
    ASSUME NEW mem, Inv(mem), NEW m \in Members,
           mem[m].status = "running", ~ IsAssigned(mem[m]),
           NEW x \in History(mem), x.service = Service(m), x.new_sponsor = m
    PROVE  /\ Inv([mem EXCEPT ![m] = TakeOver(m, mem[m], x)])
           /\ History([mem EXCEPT ![m] = TakeOver(m, mem[m], x)]) = History(mem)
<1> DEFINE self == TakeOver(m, mem[m], x)
           next == [mem EXCEPT ![m] = self]
<1>1. /\ MemberOK(History(mem), m, mem[m])
      /\ HistoryOK(History(mem))
      /\ DOMAIN mem[m] = Fields
  BY DEF Inv, MemberOK, CoreTypes
<1>2. MemberOK(History(mem), m, self)
  BY <1>1, TakeOverOK
<1>3. /\ self.is_sponsor
      /\ self.member_id = x.assigned_id
      /\ self.status = "running"
      /\ self.response_message_cache = mem[m].response_message_cache
      /\ IsAssigned(self)
  <2>1. x.assigned_id \in Nat \ {0}
    BY <1>1 DEF HistoryOK, AssignmentOK, Assignments, MemberIds, DEFAULT_MEMBER_ID
  <2>2. /\ self.is_sponsor
        /\ self.member_id = x.assigned_id
        /\ self.status = mem[m].status
        /\ self.response_message_cache = mem[m].response_message_cache
    BY <1>1 DEF TakeOver, Fields
  <2> QED
    BY <2>1, <2>2 DEF IsAssigned, DEFAULT_MEMBER_ID
<1> HIDE DEF self
<1>4. /\ next \in [Members -> {next[n] : n \in Members}]
      /\ next[m] = self
      /\ \A n \in Members : n # m => next[n] = mem[n]
  BY Updated DEF Inv
<1> HIDE DEF next
<1>5. History(next) = History(mem)
  BY <1>3, <1>4, HistorySame
<1>6. \A n \in Members : MemberOK(History(next), n, next[n])
  BY <1>2, <1>4, <1>5 DEF Inv
<1>7. OnItsWay(mem, Service(m), x) /\ Service(m) \in Services
  BY ServiceTypes DEF OnItsWay
<1>8. \A y \in History(mem) : y.new_sponsor \in Members /\ y.assigned_id \in Nat
  BY <1>1 DEF HistoryOK, AssignmentOK, Assignments, MemberIds
<1>9. \A s \in Services : /\ FounderFirst(mem, s)
                          /\ OneSponsor(mem, s)
                          /\ SponsorHighest(mem, s)
                          /\ TransitHighest(mem, s)
                          /\ BatonSomewhere(mem, s)
  BY DEF Inv, BatonOK
<1>10. /\ \A n \in Members : ~ IsSponsor(mem, Service(m), n)
       /\ \A y \in History(mem) : y.service = Service(m) => y.assigned_id <= x.assigned_id
  BY <1>7, <1>9 DEF TransitHighest
<1>11. \A s \in Services : next[founder[s]].status = "down" <=> mem[founder[s]].status = "down"
  BY <1>3, <1>4, ServiceTypes
<1>12. ASSUME NEW s \in Services, s # Service(m)
       PROVE  /\ FounderFirst(next, s)
              /\ OneSponsor(next, s)
              /\ SponsorHighest(next, s)
              /\ TransitHighest(next, s)
              /\ BatonSomewhere(next, s)
  <2>1. \A n : /\ IsSponsor(next, s, n) <=> IsSponsor(mem, s, n)
               /\ IsLast(next, s, n) <=> IsLast(mem, s, n)
               /\ IsSponsor(next, s, n) => next[n] = mem[n]
    BY <1>4, <1>12 DEF IsSponsor, IsLast
  <2>2. \A y : OnItsWay(next, s, y) <=> OnItsWay(mem, s, y)
    <3>1. \A y \in History(mem) : y.service = s => y.new_sponsor # m
      BY <1>1, <1>12 DEF HistoryOK, AssignmentOK
    <3> QED
      BY <1>4, <1>5, <1>8, <3>1 DEF OnItsWay
  <2>3. FounderFirst(next, s)
    BY <1>5, <1>9, <1>11 DEF FounderFirst
  <2>4. OneSponsor(next, s)
    BY <1>9, <2>1 DEF OneSponsor
  <2>5. SponsorHighest(next, s)
    BY <1>5, <1>9, <2>1 DEF SponsorHighest
  <2>6. TransitHighest(next, s)
    BY <1>5, <1>9, <2>1, <2>2 DEF TransitHighest
  <2>7. BatonSomewhere(next, s)
    BY <1>5, <1>9, <1>11, <2>1, <2>2 DEF BatonSomewhere
  <2> QED
    BY <2>3, <2>4, <2>5, <2>6, <2>7
<1>13. FounderFirst(next, Service(m))
  BY <1>5, <1>7, <1>9, <1>11 DEF FounderFirst
<1>14. OneSponsor(next, Service(m))
  BY <1>4, <1>10 DEF OneSponsor, IsSponsor
<1>15. SponsorHighest(next, Service(m))
  BY <1>3, <1>4, <1>5, <1>10 DEF SponsorHighest, IsSponsor
<1>16. TransitHighest(next, Service(m))
  <2> SUFFICES ASSUME NEW y \in History(mem), OnItsWay(next, Service(m), y)
               PROVE  FALSE
    BY <1>5 DEF TransitHighest
  <2>1. y.new_sponsor # m /\ OnItsWay(mem, Service(m), y)
    BY <1>3, <1>4, <1>5, <1>8 DEF OnItsWay
  <2>2. x.assigned_id <= y.assigned_id /\ y.assigned_id <= x.assigned_id
    BY <1>7, <1>9, <1>10, <2>1 DEF TransitHighest, OnItsWay
  <2>3. x.assigned_id = y.assigned_id
    BY <1>8, <2>2
  <2> QED
    BY <1>1, <2>1, <2>3 DEF HistoryOK, GivenOnce, OnItsWay
<1>17. BatonSomewhere(next, Service(m))
  BY <1>3, <1>4 DEF BatonSomewhere, IsSponsor
<1>18. BatonOK(next)
  BY <1>12, <1>13, <1>14, <1>15, <1>16, <1>17 DEF BatonOK
<1>19. Inv(next)
  BY <1>1, <1>4, <1>5, <1>6, <1>18 DEF Inv
<1> QED
  BY <1>5, <1>19 DEF next, self

\* The keys a member adds are those of the members with the next ids.
LEMMA AddKeysOK ==
    ASSUME NEW H, NEW m \in Members, NEW self, MemberOK(H, m, self),
           self.status = "running", NEW next \in CheckAndAddNextBlindedKeys(self)
    PROVE  /\ MemberOK(H, m, next)
           /\ DOMAIN next = DOMAIN self
           /\ next.status = "running"
           /\ next.is_sponsor = self.is_sponsor
           /\ next.member_id = self.member_id
           /\ next.assigned_keys = self.assigned_keys
           /\ next.assigned_endpoints = self.assigned_endpoints
           /\ next.response_message_cache = self.response_message_cache
<1>1. CASE self.is_sponsor \/ ~ IsAssigned(self)
  BY <1>1 DEF CheckAndAddNextBlindedKeys
<1>2. CASE ~ self.is_sponsor /\ IsAssigned(self)
  <2>1. PICK top \in LastAdded(self) : next = AddKeys(self, top)
    BY <1>2 DEF CheckAndAddNextBlindedKeys
  <2>2. /\ CoreTypes(self)
        /\ self.member_id \in Nat \ {0}
        /\ self.keys_computed_count \in Nat
        /\ self.keys_computed_count >= 1
        /\ self.group_secret \in Seq(Members)
        /\ Len(self.group_secret) = LastKeyId(self)
        /\ self.group_secret[self.member_id] = m
        /\ self.assigned_keys \in [DOMAIN self.assigned_keys -> Members]
    BY <1>2 DEF MemberOK, CoreTypes, CountOK, IsAssigned, DEFAULT_MEMBER_ID
  <2>3. /\ LastKeyId(self) \in Nat
        /\ LastKeyId(self) >= self.member_id
        /\ top \in Nat
        /\ top >= LastKeyId(self)
        /\ \A id \in LastKeyId(self) + 1 .. top : id \in DOMAIN self.assigned_keys
    BY <2>2 DEF LastAdded, LastKeyId
  <2> DEFINE secret == [k \in 1 .. top |-> IF k <= LastKeyId(self)
                                           THEN self.group_secret[k]
                                           ELSE self.assigned_keys[k]]
             blinded == IF top = LastKeyId(self)
                        THEN self.blinded_group_secret ELSE DEFAULT_SECRET
             count == top - self.member_id + 1
  <2>4. next = [self EXCEPT !.group_secret = secret,
                            !.blinded_group_secret = blinded,
                            !.keys_computed_count = count]
    BY <2>1 DEF AddKeys
  <2>5. \A k \in 1 .. top : /\ k <= LastKeyId(self) =>
                                  /\ self.group_secret[k] \in Members
                                  /\ secret[k] = self.group_secret[k]
                            /\ k > LastKeyId(self) =>
                                  /\ self.assigned_keys[k] \in Members
                                  /\ k \in DOMAIN self.assigned_keys
                                  /\ secret[k] = self.assigned_keys[k]
    BY <2>2, <2>3
  <2>6. secret \in [1 .. top -> Members]
    BY <2>3, <2>5
  <2>7. secret \in Seq(Members) /\ Len(secret) = top /\ DOMAIN secret = 1 .. top
    BY <2>3, <2>6
  <2>8. blinded \in Seq(Members)
    BY <2>2 DEF CoreTypes, DEFAULT_SECRET
  <2>9. count \in Nat /\ count >= 1
    BY <2>2, <2>3
  <2>10. Backed(H, Service(m), secret)
    <3>1. \A k \in DOMAIN self.assigned_keys : Gives(H, Service(m), k, self.assigned_keys[k])
      BY DEF MemberOK, MapsOK
    <3> QED
      BY <2>2, <2>3, <2>5, <2>7, <3>1 DEF Backed, MemberOK
  <2>11. secret[self.member_id] = m
    BY <2>2, <2>3, <2>5
  <2> HIDE DEF secret, blinded, count
  <2>12. /\ DOMAIN next = DOMAIN self
         /\ next.is_sponsor = self.is_sponsor
         /\ next.member_id = self.member_id
         /\ next.status = self.status
         /\ next.group_secret = secret
         /\ next.blinded_group_secret = blinded
         /\ next.keys_computed_count = count
         /\ next.pending_requests = self.pending_requests
         /\ next.assigned_keys = self.assigned_keys
         /\ next.assigned_endpoints = self.assigned_endpoints
         /\ next.response_message_cache = self.response_message_cache
    BY <2>2, <2>4 DEF CoreTypes, Fields
  <2>13. CoreTypes(next)
    BY <2>2, <2>7, <2>8, <2>9, <2>12 DEF CoreTypes
  <2>14. MapsOK(H, m, next) /\ PendingOK(m, next) /\ Backed(H, Service(m), next.group_secret)
    BY <2>10, <2>12 DEF MemberOK, MapsOK, PendingOK
  <2>15. CountOK(m, next)
    <3>1. count + self.member_id - 1 = top
      BY <2>2, <2>3 DEF count
    <3>2. IsAssigned(next) /\ LastKeyId(next) = top
      BY <1>2, <2>12, <3>1 DEF IsAssigned, LastKeyId
    <3> QED
      BY <2>7, <2>9, <2>11, <2>12, <3>2 DEF CountOK
  <2>16. SponsorOK(next) /\ StoppedOK(m, next)
    BY <1>2, <2>12 DEF SponsorOK, StoppedOK
  <2>17. CacheOK(m, next)
    BY <2>12 DEF MemberOK, CacheOK, IsAssigned
  <2> QED
    BY <2>12, <2>13, <2>14, <2>15, <2>16, <2>17 DEF MemberOK
<1> QED
  BY <1>1, <1>2

(***************************************************************************)
(* contribute_statistics: who stops has as many keys as its group members. *)
(***************************************************************************)
LEMMA ContributeOK ==
    ASSUME NEW H, NEW m \in Members, NEW self, MemberOK(H, m, self), self.status = "running"
    PROVE  LET next == ContributeStatistics(m, self)
           IN  /\ MemberOK(H, m, next)
               /\ SameKeys(self, next)
               /\ next.is_sponsor = self.is_sponsor
               /\ next.status \in {"running", "stopped"}
               /\ next.response_message_cache = self.response_message_cache
<1>1. CASE ~ KeyComplete(m, self)
  BY <1>1 DEF ContributeStatistics, SameKeys
<1>2. CASE KeyComplete(m, self)
  <2> DEFINE next == [self EXCEPT !.status = "stopped"]
  <2>1. /\ CoreTypes(self)
        /\ self.member_id \in Nat
        /\ self.keys_computed_count \in Nat
        /\ member_count[Service(m)] \in Nat \ {0}
    BY ServiceTypes DEF MemberOK, CoreTypes
  <2>2. IsAssigned(self) /\ LastKeyId(self) = member_count[Service(m)]
    BY <1>2, <2>1 DEF KeyComplete, MemberOK, CountOK, IsAssigned, LastKeyId, DEFAULT_MEMBER_ID
  <2>3. next = ContributeStatistics(m, self)
    BY <1>2 DEF ContributeStatistics
  <2>4. /\ SameKeys(self, next)
        /\ next.status = "stopped"
        /\ next.is_sponsor = self.is_sponsor
        /\ next.blinded_group_secret = self.blinded_group_secret
        /\ next.pending_requests = self.pending_requests
        /\ next.response_message_cache = self.response_message_cache
    BY <2>1 DEF CoreTypes, Fields, SameKeys
  <2> HIDE DEF next
  <2>5. CoreTypes(next)
    BY <2>1, <2>4 DEF SameKeys, CoreTypes
  <2>6. MapsOK(H, m, next) /\ PendingOK(m, next) /\ Backed(H, Service(m), next.group_secret)
    BY <2>4 DEF SameKeys, MemberOK, MapsOK, PendingOK
  <2>7. CountOK(m, next) /\ SponsorOK(next) /\ StoppedOK(m, next) /\ CacheOK(m, next)
    BY <2>2, <2>4 DEF SameKeys, MemberOK, CountOK, SponsorOK, StoppedOK, CacheOK, IsAssigned,
                      LastKeyId
  <2> QED
    BY <2>3, <2>4, <2>5, <2>6, <2>7 DEF MemberOK
<1> QED
  BY <1>1, <1>2

-----------------------------------------------------------------------------
(***************************************************************************)
(* The sponsor admits nobody twice: with as many members known as there    *)
(* are ids before its own, it knows everybody who has an id.               *)
(***************************************************************************)
\* The two maps are a bijection and its inverse.
LEMMA MapsSameSize ==
    ASSUME NEW H, NEW m, NEW self, CoreTypes(self), MapsOK(H, m, self),
           IsFiniteSet(DOMAIN self.assigned_keys)
    PROVE  Cardinality(DOMAIN self.assigned_endpoints) = Cardinality(DOMAIN self.assigned_keys)
<1> DEFINE keys == self.assigned_keys
           ends == self.assigned_endpoints
<1>1. keys \in [DOMAIN keys -> DOMAIN ends]
  BY DEF CoreTypes, MapsOK
<1>2. \A x, y \in DOMAIN keys : keys[x] = keys[y] => x = y
  BY DEF MapsOK
<1>3. \A e \in DOMAIN ends : \E x \in DOMAIN keys : keys[x] = e
  BY DEF MapsOK
<1> HIDE DEF keys, ends
<1>4. ExistsBijection(DOMAIN keys, DOMAIN ends)
  BY <1>1, <1>2, <1>3 DEF ExistsBijection, Bijection, Injection, Surjection, IsInjective
<1> QED
  BY <1>4, FS_Bijection DEF keys, ends

\* A sponsor knows nobody but members before it, and all of them if it knows
\* enough of them.
LEMMA SponsorKeys ==
    ASSUME NEW H, HistoryOK(H), NEW m \in Members, NEW self, MemberOK(H, m, self),
           IsAssigned(self),
           \A x \in H : x.service = Service(m) => x.assigned_id <= self.member_id
    PROVE  /\ DOMAIN self.assigned_keys \subseteq 1 .. self.member_id - 1
           /\ AllPredecessorsKnown(self)
                 <=> DOMAIN self.assigned_keys = 1 .. self.member_id - 1
           /\ \A id, e : Gives(H, Service(m), id, e) =>
                 id \in Nat /\ id >= 1 /\ id <= self.member_id
<1> DEFINE s == Service(m)
           top == self.member_id
           keys == self.assigned_keys
<1>1. s \in Services /\ top \in Nat \ {0} /\ Gives(H, s, top, m)
  BY ServiceTypes, OwnId
<1>2. \A id \in DOMAIN keys : id \in Nat /\ id >= 1 /\ Gives(H, s, id, keys[id]) /\ keys[id] # m
  BY DEF MemberOK, CoreTypes, MapsOK, MemberIds, DEFAULT_MEMBER_ID
<1>3. \A id, e : Gives(H, s, id, e) => id \in Nat /\ id >= 1 /\ id <= top
  <2> SUFFICES ASSUME NEW id, NEW e, Gives(H, s, id, e)
               PROVE  id \in Nat /\ id >= 1 /\ id <= top
    OBVIOUS
  <2>1. id \in Nat /\ id >= 1
    BY <1>1, GivesType
  <2>2. id = 1 \/ id <= top
    BY DEF Gives, INITIAL_SPONSOR_ID
  <2> QED
    BY <1>1, <2>1, <2>2
<1>4. DOMAIN keys \subseteq 1 .. top - 1
  <2> SUFFICES ASSUME NEW id \in DOMAIN keys PROVE id \in 1 .. top - 1
    OBVIOUS
  <2>1. id # top
    BY <1>1, <1>2, GivesUnique
  <2> QED
    BY <1>1, <1>2, <1>3, <2>1
<1>5. IsFiniteSet(1 .. top - 1) /\ Cardinality(1 .. top - 1) = top - 1
  <2>1. 1 \in Int /\ top - 1 \in Int /\ (~ 1 > top - 1 => top - 1 - 1 + 1 = top - 1)
    BY <1>1
  <2>2. CASE top = 1
    <3>1. 1 .. top - 1 = {}
      BY <2>2
    <3> QED
      BY <2>2, <3>1, FS_EmptySet
  <2>3. CASE top # 1
    <3>1. ~ 1 > top - 1
      BY <1>1, <2>3
    <3> QED
      BY <2>1, <3>1, FS_Interval
  <2> QED
    BY <2>2, <2>3
<1>6. /\ IsFiniteSet(DOMAIN keys)
      /\ Cardinality(DOMAIN keys) \in Nat
      /\ Cardinality(DOMAIN keys) = Cardinality(1 .. top - 1) => DOMAIN keys = 1 .. top - 1
      /\ Cardinality(DOMAIN keys) <= top - 1
  BY <1>4, <1>5, FS_Subset, FS_CardinalityType
<1>7. Cardinality(DOMAIN self.assigned_endpoints) = Cardinality(DOMAIN keys)
  BY <1>6, MapsSameSize DEF MemberOK
<1>8. AllPredecessorsKnown(self) <=> Cardinality(DOMAIN keys) >= top - 1
  BY <1>7 DEF AllPredecessorsKnown
<1> HIDE DEF keys
<1>9. AllPredecessorsKnown(self) <=> DOMAIN keys = 1 .. top - 1
  BY <1>1, <1>5, <1>6, <1>8
<1> QED
  BY <1>3, <1>4, <1>9 DEF keys

LEMMA KnowsAll ==
    ASSUME NEW H, HistoryOK(H), NEW m \in Members, NEW self, MemberOK(H, m, self),
           IsAssigned(self), AllPredecessorsKnown(self),
           \A x \in H : x.service = Service(m) => x.assigned_id <= self.member_id
    PROVE  \A id, e : Gives(H, Service(m), id, e) =>
               e = m \/ e \in DOMAIN self.assigned_endpoints
<1> DEFINE s == Service(m)
           top == self.member_id
           keys == self.assigned_keys
<1>1. s \in Services /\ top \in Nat \ {0} /\ Gives(H, s, top, m)
  BY ServiceTypes, OwnId
<1>2. \A id \in DOMAIN keys : Gives(H, s, id, keys[id])
  BY DEF MemberOK, MapsOK
<1>3. \A id, e : Gives(H, s, id, e) => id \in Nat /\ id >= 1 /\ id <= top
  BY SponsorKeys
<1>9. DOMAIN keys = 1 .. top - 1
  BY SponsorKeys
<1> SUFFICES ASSUME NEW id, NEW e, Gives(H, s, id, e), e # m
             PROVE  e \in DOMAIN self.assigned_endpoints
  OBVIOUS
<1>10. id # top
  BY <1>1, GivesUnique
<1>11. id \in DOMAIN keys
  BY <1>1, <1>3, <1>9, <1>10
<1>12. keys[id] = e
  BY <1>1, <1>2, <1>11, GivesUnique
<1> QED
  BY <1>11, <1>12 DEF MemberOK, MapsOK

-----------------------------------------------------------------------------
(***************************************************************************)
(* process_pending_request: the sponsor m admits e and keeps the response. *)
(***************************************************************************)
Admitted(m, self, e) ==
    [HandOver(self, e) EXCEPT !.response_message_cache = {Response(m, self, e)}]

LEMMA AdmitOK ==
    ASSUME NEW H, HistoryOK(H), NEW m \in Members, NEW self, MemberOK(H, m, self),
           self.status = "running", self.is_sponsor, AllPredecessorsKnown(self),
           self.member_id < member_count[Service(m)],
           \A x \in H : x.service = Service(m) => x.assigned_id <= self.member_id,
           NEW e \in Unassigned(self)
    PROVE  LET x == Response(m, self, e)
               K == H \cup {x}
           IN  /\ HistoryOK(K)
               /\ MemberOK(K, m, Admitted(m, self, e))
               /\ e \in Members
               /\ Service(e) = Service(m)
               /\ \A id : ~ Gives(H, Service(m), id, e)
<1> DEFINE x == Response(m, self, e)
           K == H \cup {x}
           s == Service(m)
           id == self.member_id + 1
           next == Admitted(m, self, e)
           secret == Append(self.group_secret, e)
<1>1. /\ CoreTypes(self)
      /\ self.member_id \in Nat \ {0}
      /\ self.group_secret \in Seq(Members)
      /\ self.keys_computed_count \in Nat
      /\ self.keys_computed_count >= 1
      /\ IsAssigned(self)
      /\ Len(self.group_secret) = self.member_id
      /\ Len(self.group_secret) = LastKeyId(self)
      /\ self.group_secret[self.member_id] = m
      /\ self.blinded_group_secret = self.group_secret
      /\ Backed(H, s, self.group_secret)
  BY DEF MemberOK, CoreTypes, CountOK, SponsorOK, IsAssigned, DEFAULT_MEMBER_ID
<1>2. /\ e \in Members
      /\ e # m
      /\ Service(e) = s
      /\ e \notin DOMAIN self.assigned_endpoints
  BY <1>1 DEF CoreTypes, MemberOK, PendingOK, Unassigned
<1>3. \A i : ~ Gives(H, s, i, e)
  BY <1>1, <1>2, KnowsAll
<1>4. s \in Services /\ member_count[s] \in Nat \ {0}
  BY ServiceTypes
<1>5. e # founder[s]
  BY <1>3 DEF Gives
<1>6. /\ id \in MemberIds /\ id >= 2 /\ id <= member_count[s] /\ id - 1 = self.member_id
  BY <1>1, <1>4 DEF MemberIds, DEFAULT_MEMBER_ID
<1>7. /\ x.type = "response" /\ x.from = m /\ x.service = s
      /\ x.new_sponsor = e /\ x.assigned_id = id
      /\ x.blinded_group_secret = self.group_secret
      /\ x \in Assignments
  BY <1>1, <1>2, <1>4, <1>6 DEF Response, Assignments
<1> HIDE DEF x, id
<1>8. H \subseteq K /\ x \in K
  OBVIOUS
<1>9. Gives(K, s, id, e)
  BY <1>7, <1>8 DEF Gives
<1>10. Gives(H, s, self.member_id, m)
  BY <1>1, OwnId
<1> HIDE DEF K
<1>11. /\ MemberOK(K, m, self)
       /\ Backed(K, s, self.group_secret)
       /\ Gives(K, s, self.member_id, m)
  BY <1>1, <1>8, <1>10, MemberGrows, BackedGrows, GivesGrows
<1>12. AssignmentOK(K, x)
  BY <1>1, <1>2, <1>5, <1>6, <1>7, <1>11 DEF AssignmentOK
<1>13. GivenOnce(K)
  <2>1. \A y \in H : y.service = s => y.new_sponsor # e /\ y.assigned_id # id
    <3> SUFFICES ASSUME NEW y \in H, y.service = s PROVE y.new_sponsor # e /\ y.assigned_id # id
      OBVIOUS
    <3>1. y.assigned_id \in Nat /\ y.assigned_id <= self.member_id
      BY DEF HistoryOK, AssignmentOK, Assignments, MemberIds
    <3>2. Gives(H, s, y.assigned_id, y.new_sponsor)
      BY DEF Gives
    <3> QED
      BY <1>1, <1>3, <3>1, <3>2 DEF id
  <2>2. GivenOnce(H)
    BY DEF HistoryOK
  <2> QED
    BY <1>7, <2>1, <2>2 DEF GivenOnce, K
<1>14. HistoryOK(K)
  <2>1. \A y \in H : AssignmentOK(K, y)
    BY <1>8, AssignmentGrows DEF HistoryOK
  <2> QED
    BY <1>12, <1>13, <2>1 DEF HistoryOK, K
<1>15. /\ DOMAIN next = Fields
       /\ next.is_sponsor = FALSE
       /\ next.member_id = self.member_id
       /\ next.group_secret = secret
       /\ next.blinded_group_secret = <<>>
       /\ next.keys_computed_count = self.keys_computed_count + 1
       /\ next.status = "running"
       /\ next.pending_requests = {}
       /\ next.assigned_keys = Put(self.assigned_keys, id, e)
       /\ next.assigned_endpoints = Put(self.assigned_endpoints, e, id)
       /\ next.response_message_cache = {x}
  BY <1>1 DEF Admitted, HandOver, CoreTypes, Fields, DEFAULT_SECRET, id, x
<1>16. /\ secret \in Seq(Members)
       /\ Len(secret) = id
       /\ secret[self.member_id] = m
       /\ Backed(K, s, secret)
  <2>1. /\ secret \in Seq(Members)
        /\ Len(secret) = id
        /\ DOMAIN secret = DOMAIN self.group_secret \cup {id}
        /\ secret[id] = e
        /\ \A i \in DOMAIN self.group_secret : secret[i] = self.group_secret[i]
        /\ self.member_id \in DOMAIN self.group_secret
    BY <1>1, <1>2 DEF id
  <2> HIDE DEF secret
  <2> QED
    BY <1>1, <1>9, <1>11, <2>1 DEF Backed
<1> HIDE DEF next, secret
<1>17. /\ MapsOK(K, m, next)
       /\ next.assigned_keys \in [DOMAIN next.assigned_keys -> Members]
       /\ DOMAIN next.assigned_keys \subseteq MemberIds
       /\ next.assigned_endpoints \in [DOMAIN next.assigned_endpoints -> MemberIds]
       /\ DOMAIN next.assigned_endpoints \subseteq Members
  <2>1. CoreTypes(self) /\ MapsOK(K, m, self)
    BY <1>11 DEF MemberOK
  <2>2. /\ next.assigned_keys = Put(self.assigned_keys, id, e)
        /\ next.assigned_endpoints = Put(self.assigned_endpoints, e, id)
    BY <1>15
  <2>3. /\ e \in Members /\ e # m /\ e \notin DOMAIN self.assigned_endpoints
        /\ id \in MemberIds /\ Gives(K, Service(m), id, e)
    BY <1>2, <1>6, <1>9
  <2> HIDE DEF s
  <2> QED
    BY <1>14, <2>1, <2>2, <2>3, PutMaps
<1>18. CoreTypes(next)
  <2>1. /\ DOMAIN next = Fields
        /\ next.status \in {"down", "running", "stopped", "crashed"}
        /\ next.member_id \in Nat
        /\ next.keys_computed_count \in Nat
        /\ next.is_sponsor \in BOOLEAN
    <3>1. next.keys_computed_count \in Nat
      <4>1. next.keys_computed_count = self.keys_computed_count + 1
        BY <1>15
      <4> QED
        BY <1>1, <4>1
    <3>2. next.is_sponsor \in BOOLEAN
      <4>1. next.is_sponsor = FALSE
        BY <1>15
      <4> QED
        BY <4>1
    <3> QED
      BY <1>1, <1>15, <3>1, <3>2
  <2>2. /\ next.group_secret \in Seq(Members)
        /\ next.blinded_group_secret \in Seq(Members)
        /\ next.pending_requests \subseteq Members
    BY <1>15, <1>16
  <2> QED
    BY <1>17, <2>1, <2>2 DEF CoreTypes
<1>19. PendingOK(m, next) /\ Backed(K, s, next.group_secret) /\ SponsorOK(next)
  BY <1>15, <1>16 DEF PendingOK, SponsorOK
<1>20. CountOK(m, next) /\ StoppedOK(m, next)
  <2>1. IsAssigned(next) /\ LastKeyId(next) = id
    <3>1. /\ next.member_id = self.member_id
          /\ next.keys_computed_count = self.keys_computed_count + 1
          /\ self.member_id \in Nat \ {0}
          /\ self.keys_computed_count \in Nat
          /\ self.keys_computed_count + self.member_id - 1 = self.member_id
      BY <1>1, <1>15 DEF LastKeyId
    <3> QED
      BY <3>1 DEF IsAssigned, DEFAULT_MEMBER_ID, LastKeyId, id
  <2> QED
    BY <1>1, <1>15, <1>16, <2>1 DEF CountOK, StoppedOK
<1>21. CacheOK(m, next)
  BY <1>1, <1>7, <1>15 DEF CacheOK, IsAssigned, id
<1>22. MemberOK(K, m, next)
  BY <1>17, <1>18, <1>19, <1>20, <1>21 DEF MemberOK
<1> QED
  BY <1>2, <1>3, <1>14, <1>22 DEF next, K, x

\* The history of next is that of mem with the assignment x.
Extends(mem, next, x) == History(next) = History(mem) \cup {x}

LEMMA AdmitInv ==
    ASSUME NEW mem, Inv(mem), NEW m \in Members, NEW old, old = mem[m],
           old.status = "running", old.is_sponsor, AllPredecessorsKnown(old),
           old.member_id < member_count[Service(m)],
           NEW e \in Unassigned(old)
    PROVE  /\ Inv([mem EXCEPT ![m] = Admitted(m, old, e)])
           /\ Extends(mem, [mem EXCEPT ![m] = Admitted(m, old, e)], Response(m, old, e))
<1> DEFINE H == History(mem)
           x == Response(m, mem[m], e)
           K == H \cup {x}
           s == Service(m)
           self == Admitted(m, mem[m], e)
           next == [mem EXCEPT ![m] = self]
<1>1. /\ HistoryOK(H)
      /\ MemberOK(H, m, mem[m])
      /\ s \in Services
      /\ DOMAIN mem[m] = Fields
  BY ServiceTypes DEF Inv, MemberOK, CoreTypes
<1>2. \A t \in Services : /\ FounderFirst(mem, t)
                          /\ OneSponsor(mem, t)
                          /\ SponsorHighest(mem, t)
                          /\ TransitHighest(mem, t)
                          /\ BatonSomewhere(mem, t)
  BY DEF Inv, BatonOK
<1>3. IsSponsor(mem, s, m)
  BY DEF IsSponsor
<1>4. \A y \in H : y.service = s => y.assigned_id <= mem[m].member_id
  BY <1>1, <1>2, <1>3 DEF SponsorHighest
<1>5. /\ HistoryOK(K)
      /\ MemberOK(K, m, self)
      /\ e \in Members
      /\ Service(e) = s
      /\ \A id : ~ Gives(H, s, id, e)
  BY <1>1, <1>4, AdmitOK
<1>6. /\ self.is_sponsor = FALSE
      /\ self.member_id = mem[m].member_id
      /\ self.status = "running"
      /\ self.response_message_cache = {x}
  BY <1>1 DEF Admitted, HandOver, Fields
<1>7. x.service = s /\ x.new_sponsor = e /\ x.assigned_id = mem[m].member_id + 1
  BY DEF Response
<1> HIDE DEF self, x
<1>8. /\ next \in [Members -> {next[n] : n \in Members}]
      /\ next[m] = self
      /\ \A n \in Members : n # m => next[n] = mem[n]
  BY Updated DEF Inv
<1> HIDE DEF next
<1>9. mem[m].response_message_cache = {}
  BY <1>1 DEF MemberOK, CacheOK
<1>10. History(next) = K
  <2>1. \A y : y \in History(next) <=> y \in K
    BY <1>6, <1>8, <1>9 DEF History
  <2> QED
    BY <2>1
<1>11. \A n \in Members : MemberOK(K, n, next[n])
  <2>1. \A n \in Members : MemberOK(K, n, mem[n])
    BY MemberGrows DEF Inv
  <2> HIDE DEF K
  <2> QED
    BY <1>5, <1>8, <2>1
\* The sponsors after the step: those before it, without m.
<1>12. \A t \in Services, n \in Members :
          IsSponsor(next, t, n) => IsSponsor(mem, t, n) /\ n # m /\ next[n] = mem[n]
  BY <1>6, <1>8 DEF IsSponsor
<1>13. \A n \in Members : ~ IsSponsor(next, s, n)
  BY <1>1, <1>2, <1>3, <1>12 DEF OneSponsor
<1>14. \A n \in Members : next[n].member_id = mem[n].member_id
  BY <1>6, <1>8
<1>15. \A t \in Services : next[founder[t]].status = "down" <=> mem[founder[t]].status = "down"
  BY <1>6, <1>8, ServiceTypes
<1>16. mem[founder[s]].status # "down"
  <2>1. Gives(H, s, mem[m].member_id, m)
    BY <1>1, OwnId DEF MemberOK, CountOK
  <2>2. m = founder[s] \/ \E y \in H : y.service = s
    BY <2>1 DEF Gives
  <2> QED
    BY <1>1, <1>2, <2>2 DEF FounderFirst
<1>17. \A y \in K : y.new_sponsor \in Members /\ y.assigned_id \in Nat
  BY <1>5 DEF HistoryOK, AssignmentOK, Assignments, MemberIds
<1>18. ASSUME NEW t \in Services, t # s
       PROVE  /\ FounderFirst(next, t)
              /\ OneSponsor(next, t)
              /\ SponsorHighest(next, t)
              /\ TransitHighest(next, t)
              /\ BatonSomewhere(next, t)
  <2>1. \A n : /\ IsSponsor(next, t, n) <=> IsSponsor(mem, t, n)
               /\ IsLast(next, t, n) <=> IsLast(mem, t, n)
               /\ IsSponsor(next, t, n) => next[n] = mem[n]
    BY <1>8, <1>18 DEF IsSponsor, IsLast
  <2>2. \A y : OnItsWay(next, t, y) <=> OnItsWay(mem, t, y)
    BY <1>7, <1>10, <1>14, <1>17, <1>18 DEF OnItsWay, IsAssigned
  <2>3. \A y \in K : y.service = t => y \in H
    BY <1>7, <1>18
  <2>4. FounderFirst(next, t)
    BY <1>2, <1>10, <1>15, <2>3 DEF FounderFirst
  <2>5. OneSponsor(next, t)
    BY <1>2, <2>1 DEF OneSponsor
  <2>6. SponsorHighest(next, t)
    BY <1>2, <1>10, <2>1, <2>3 DEF SponsorHighest
  <2>7. TransitHighest(next, t)
    <3> SUFFICES ASSUME NEW y \in History(next), OnItsWay(next, t, y)
                 PROVE  /\ \A n \in Members : ~ IsSponsor(next, t, n)
                        /\ \A z \in History(next) : z.service = t => z.assigned_id <= y.assigned_id
      BY DEF TransitHighest
    <3>1. OnItsWay(mem, t, y) /\ y \in H
      BY <2>2 DEF OnItsWay
    <3> QED
      BY <1>2, <1>10, <2>1, <2>3, <3>1 DEF TransitHighest
  <2>8. BatonSomewhere(next, t)
    BY <1>2, <1>10, <1>15, <2>1, <2>2 DEF BatonSomewhere, OnItsWay
  <2> QED
    BY <2>4, <2>5, <2>6, <2>7, <2>8
<1>19. ~ IsAssigned(mem[e])
  BY <1>5, OwnId DEF Inv
<1>20. OnItsWay(next, s, x)
  BY <1>5, <1>7, <1>10, <1>14, <1>19 DEF OnItsWay, IsAssigned
<1>21. \A y \in K : y.service = s => y.assigned_id <= x.assigned_id
  BY <1>1, <1>4, <1>7, <1>17 DEF MemberOK, CoreTypes
<1>22. \A y : OnItsWay(next, s, y) => y = x
  <2> SUFFICES ASSUME NEW y \in H, OnItsWay(next, s, y) PROVE FALSE
    BY <1>10 DEF OnItsWay
  <2>1. OnItsWay(mem, s, y)
    BY <1>14, <1>17 DEF OnItsWay, IsAssigned
  <2> QED
    BY <1>1, <1>2, <1>3, <2>1 DEF TransitHighest
<1>23. FounderFirst(next, s)
  BY <1>1, <1>15, <1>16 DEF FounderFirst
<1>24. OneSponsor(next, s) /\ SponsorHighest(next, s)
  BY <1>13 DEF OneSponsor, SponsorHighest
<1>25. TransitHighest(next, s)
  BY <1>10, <1>13, <1>21, <1>22 DEF TransitHighest
<1>26. BatonSomewhere(next, s)
  BY <1>20 DEF BatonSomewhere, OnItsWay
<1>27. BatonOK(next)
  BY <1>18, <1>23, <1>24, <1>25, <1>26 DEF BatonOK
<1>28. Inv(next)
  BY <1>5, <1>8, <1>10, <1>11, <1>27 DEF Inv
<1> QED
  BY <1>10, <1>28 DEF next, self, x, Extends

-----------------------------------------------------------------------------
(***************************************************************************)
(* The timers.  Arming scatter_timer_ puts the handler it was armed for,   *)
(* if this resets a flag, at the end of the queue; otherwise the handlers  *)
(* that are pending keep their places.                                     *)
(***************************************************************************)
LEMMA KindsKept ==
    ASSUME NEW self, NEW next, NEW kinds,
           Len(self.scatter_queue) \in Nat, Len(next.scatter_queue) \in Nat,
           Single(self, kinds),
           Len(next.scatter_queue) \in {Len(self.scatter_queue), Len(self.scatter_queue) + 1},
           \A j \in 1 .. Len(self.scatter_queue) : At(next, j) = At(self, j),
           IF Len(next.scatter_queue) = Len(self.scatter_queue)
           THEN At(self, 0) \notin kinds
           ELSE At(next, Len(next.scatter_queue)) \in kinds <=> At(self, 0) \in kinds,
           At(next, 0) \in kinds => ~ Some(self, kinds)
    PROVE  /\ Some(next, kinds) <=> Some(self, kinds) \/ At(next, 0) \in kinds
           /\ Single(next, kinds)
<1> DEFINE n == Len(self.scatter_queue)
           k == Len(next.scatter_queue)
           In(j) == At(self, j) \in kinds
           Out(j) == At(next, j) \in kinds
           flag == Some(self, kinds)
           set == At(next, 0) \in kinds
<1>1. /\ flag <=> \E j \in 0 .. n : In(j)
      /\ \A i, j \in 0 .. n : In(i) /\ In(j) => i = j
  BY DEF Some, Single
<1>2. /\ \A j \in 1 .. n : Out(j) <=> In(j)
      /\ Out(0) <=> set
      /\ k = n => ~ In(0)
      /\ k = n + 1 => (Out(k) <=> In(0))
  BY ONLY Len(self.scatter_queue) \in Nat, Len(next.scatter_queue) \in Nat,
          \A j \in 1 .. Len(self.scatter_queue) : At(next, j) = At(self, j),
          IF Len(next.scatter_queue) = Len(self.scatter_queue)
          THEN At(self, 0) \notin kinds
          ELSE At(next, Len(next.scatter_queue)) \in kinds <=> At(self, 0) \in kinds
<1>3. n \in Nat /\ k \in {n, n + 1} /\ (set => ~ flag)
  OBVIOUS
<1> HIDE DEF n, k, In, Out, flag, set
<1>4. (flag \/ set) <=> \E j \in 0 .. k : Out(j)
  <2>1. CASE k = n
    BY <1>1, <1>2, <1>3, <2>1
  <2>2. CASE k = n + 1
    <3>1. ASSUME flag PROVE \E j \in 0 .. k : Out(j)
      <4>1. PICK j \in 0 .. n : In(j)
        BY <1>1, <3>1
      <4> QED
        BY <1>2, <1>3, <2>2, <4>1
    <3>2. ASSUME set PROVE \E j \in 0 .. k : Out(j)
      BY <1>2, <1>3, <2>2, <3>2
    <3>3. ASSUME NEW j \in 0 .. k, Out(j) PROVE flag \/ set
      BY <1>1, <1>2, <1>3, <2>2, <3>3
    <3> QED
      BY <3>1, <3>2, <3>3
  <2> QED
    BY <1>3, <2>1, <2>2
<1>5. \A i, j \in 0 .. k : Out(i) /\ Out(j) => i = j
  <2> SUFFICES ASSUME NEW i \in 0 .. k, NEW j \in 0 .. k, Out(i), Out(j), i # j
               PROVE  FALSE
    OBVIOUS
  <2>1. CASE i = 0 \/ j = 0
    <3>1. set /\ ~ flag
      BY <1>2, <1>3, <2>1
    <3>2. \A x \in 0 .. n : ~ In(x)
      BY <1>1, <3>1
    <3> QED
      BY <1>2, <1>3, <2>1, <3>2
  <2>2. CASE i # 0 /\ j # 0
    BY <1>1, <1>2, <1>3, <2>2
  <2> QED
    BY <2>1, <2>2
<1> QED
  BY <1>4, <1>5 DEF Some, Single, k, Out, flag, set

\* The handler h that scatter_timer_ is armed for, with its flag set.
LEMMA AwaitTimers ==
    ASSUME NEW self, TimersOK(self), NEW next, NEW h \in Waits,
           next.scatter_wait = h,
           next.scatter_queue = self.scatter_queue \o Aborted(self),
           next.request_scheduled \in BOOLEAN,
           next.request_scheduled <=> self.request_scheduled \/ h = "request",
           next.response_scheduled \in BOOLEAN,
           next.response_scheduled <=> self.response_scheduled \/ h \in {"info", "synch_info"},
           h = "request" => ~ self.request_scheduled,
           h \in {"info", "synch_info"} => ~ self.response_scheduled /\ IsAssigned(next),
           IsAssigned(self) => IsAssigned(next)
    PROVE  TimersOK(next)
<1> DEFINE n == Len(self.scatter_queue)
           k == Len(next.scatter_queue)
<1>1. /\ self.scatter_queue \in Seq(Handlers)
      /\ self.request_scheduled \in BOOLEAN
      /\ self.response_scheduled \in BOOLEAN
      /\ self.scatter_wait \in Waits
      /\ \A j \in 0 .. n : At(self, j) \in {"info", "synch_info"} => IsAssigned(self)
      /\ self.request_scheduled <=> Some(self, Requesting)
      /\ self.response_scheduled <=> Some(self, Answering)
      /\ Single(self, Requesting)
      /\ Single(self, Answering)
  BY DEF TimersOK, TimerTypes
<1>2. /\ "request_aborted" \in Handlers
      /\ "info_aborted" \in Handlers
      /\ Waits \ {"none"} \subseteq Handlers
  BY DEF Handlers, Waits
<1>3. n \in Nat
  BY <1>1
<1>4. /\ next.scatter_queue \in Seq(Handlers)
      /\ k \in {n, n + 1}
      /\ \A j \in 1 .. n : next.scatter_queue[j] = self.scatter_queue[j]
      /\ k = n => self.scatter_wait \notin {"request", "info", "synch_info"}
      /\ k = n + 1 =>
            \/ /\ self.scatter_wait = "request"
               /\ next.scatter_queue[k] = "request_aborted"
            \/ /\ self.scatter_wait \in {"info", "synch_info"}
               /\ next.scatter_queue[k] = "info_aborted"
  <2>1. CASE self.scatter_wait = "request"
    <3>1. Aborted(self) = <<"request_aborted">>
      BY <2>1 DEF Aborted
    <3> QED
      BY <1>1, <1>2, <2>1, <3>1
  <2>2. CASE self.scatter_wait \in {"info", "synch_info"}
    <3>1. Aborted(self) = <<"info_aborted">>
      BY <2>2 DEF Aborted
    <3> QED
      BY <1>1, <1>2, <2>2, <3>1
  <2>3. CASE self.scatter_wait \notin {"request", "info", "synch_info"}
    <3>1. Aborted(self) = <<>>
      BY <2>3 DEF Aborted
    <3>2. next.scatter_queue = self.scatter_queue
      BY <1>1, <3>1
    <3> QED
      BY <1>1, <2>3, <3>2
  <2> QED
    BY <2>1, <2>2, <2>3
<1>5. k \in Nat
  BY <1>3, <1>4
<1>6. At(self, 0) = self.scatter_wait /\ At(next, 0) = h
  BY DEF At
<1>7. \A j \in 1 .. n : At(next, j) = At(self, j)
  BY <1>3, <1>4 DEF At
<1>8. At(self, 0) \in Waits
  BY <1>1, <1>6
<1>9. k = n + 1 =>
          \/ At(self, 0) = "request" /\ At(next, k) = "request_aborted"
          \/ At(self, 0) \in {"info", "synch_info"} /\ At(next, k) = "info_aborted"
  BY <1>3, <1>4, <1>6 DEF At
<1>10. /\ h \in Requesting <=> h = "request"
       /\ h \in Answering <=> h \in {"info", "synch_info"}
       /\ At(self, 0) \in Requesting <=> At(self, 0) = "request"
       /\ At(self, 0) \in Answering <=> At(self, 0) \in {"info", "synch_info"}
  BY <1>8 DEF Requesting, Answering, Waits, Cyclic
<1>11. /\ IF k = n THEN At(self, 0) \notin Requesting
                   ELSE At(next, k) \in Requesting <=> At(self, 0) \in Requesting
       /\ IF k = n THEN At(self, 0) \notin Answering
                   ELSE At(next, k) \in Answering <=> At(self, 0) \in Answering
       /\ k = n + 1 => At(next, k) \notin {"info", "synch_info"}
  BY <1>3, <1>4, <1>6, <1>9, <1>10 DEF Requesting, Answering
<1>12. /\ Some(next, Requesting) <=> Some(self, Requesting) \/ h = "request"
       /\ Single(next, Requesting)
  <2>1. At(next, 0) \in Requesting <=> h = "request"
    BY <1>6, <1>10
  <2> QED
    BY <1>1, <1>3, <1>4, <1>5, <1>7, <1>11, <2>1, KindsKept
<1>13. /\ Some(next, Answering) <=> Some(self, Answering) \/ h \in {"info", "synch_info"}
       /\ Single(next, Answering)
  <2>1. At(next, 0) \in Answering <=> h \in {"info", "synch_info"}
    BY <1>6, <1>10
  <2> QED
    BY <1>1, <1>3, <1>4, <1>5, <1>7, <1>11, <2>1, KindsKept
<1>14. \A j \in 0 .. k : At(next, j) \in {"info", "synch_info"} => IsAssigned(next)
  <2> SUFFICES ASSUME NEW j \in 0 .. k, At(next, j) \in {"info", "synch_info"}
               PROVE  IsAssigned(next)
    OBVIOUS
  <2>1. CASE j = 0
    BY <1>6, <2>1
  <2>2. CASE j \in 1 .. n
    <3>1. At(self, j) \in {"info", "synch_info"} /\ j \in 0 .. n
      BY <1>3, <1>7, <2>2
    <3> QED
      BY <1>1, <3>1
  <2> QED
    BY <1>3, <1>4, <1>11, <2>1, <2>2
<1>15. TimerTypes(next)
  BY <1>1, <1>4 DEF TimerTypes
<1> QED
  BY <1>1, <1>12, <1>13, <1>14, <1>15 DEF TimersOK

\* The timer expires.
LEMMA ExpireTimers ==
    ASSUME NEW self, TimersOK(self), NEW next,
           self.scatter_wait # "none",
           next.scatter_wait = "none",
           next.scatter_queue = Append(self.scatter_queue, self.scatter_wait),
           next.request_scheduled = self.request_scheduled,
           next.response_scheduled = self.response_scheduled,
           next.member_id = self.member_id
    PROVE  TimersOK(next)
<1> DEFINE n == Len(self.scatter_queue)
           k == Len(next.scatter_queue)
<1>1. /\ self.scatter_queue \in Seq(Handlers)
      /\ self.request_scheduled \in BOOLEAN
      /\ self.response_scheduled \in BOOLEAN
      /\ self.scatter_wait \in Waits
      /\ \A j \in 0 .. n : At(self, j) \in {"info", "synch_info"} => IsAssigned(self)
      /\ self.request_scheduled <=> Some(self, Requesting)
      /\ self.response_scheduled <=> Some(self, Answering)
      /\ Single(self, Requesting)
      /\ Single(self, Answering)
  BY DEF TimersOK, TimerTypes
<1>2. self.scatter_wait \in Handlers
  BY <1>1 DEF Handlers, Waits
<1>3. /\ n \in Nat
      /\ next.scatter_queue \in Seq(Handlers)
      /\ k = n + 1
      /\ \A j \in 1 .. n : next.scatter_queue[j] = self.scatter_queue[j]
      /\ next.scatter_queue[k] = self.scatter_wait
  BY <1>1, <1>2
<1>4. /\ At(self, 0) = self.scatter_wait
      /\ At(next, 0) = "none"
      /\ \A j \in 1 .. n : At(next, j) = At(self, j)
      /\ At(next, k) = At(self, 0)
  BY <1>3 DEF At
<1>5. "none" \notin Requesting /\ "none" \notin Answering
  BY DEF Requesting, Answering
<1>6. k \in Nat /\ k \in {n, n + 1} /\ k # n
  BY <1>3
<1>7. (Some(next, Requesting) <=> Some(self, Requesting)) /\ Single(next, Requesting)
  <2>1. At(next, 0) \notin Requesting
    BY <1>4, <1>5
  <2>2. IF k = n THEN At(self, 0) \notin Requesting
                 ELSE At(next, k) \in Requesting <=> At(self, 0) \in Requesting
    BY <1>4, <1>6
  <2> QED
    BY <1>1, <1>3, <1>4, <1>6, <2>1, <2>2, KindsKept
<1>8. (Some(next, Answering) <=> Some(self, Answering)) /\ Single(next, Answering)
  <2>1. At(next, 0) \notin Answering
    BY <1>4, <1>5
  <2>2. IF k = n THEN At(self, 0) \notin Answering
                 ELSE At(next, k) \in Answering <=> At(self, 0) \in Answering
    BY <1>4, <1>6
  <2> QED
    BY <1>1, <1>3, <1>4, <1>6, <2>1, <2>2, KindsKept
<1>9. \A j \in 0 .. k : At(next, j) \in {"info", "synch_info"} => IsAssigned(next)
  <2> SUFFICES ASSUME NEW j \in 0 .. k, At(next, j) \in {"info", "synch_info"}
               PROVE  IsAssigned(self)
    BY DEF IsAssigned
  <2>1. j # 0
    BY <1>4
  <2>2. CASE j \in 1 .. n
    BY <1>1, <1>3, <1>4, <2>2
  <2>3. CASE j = k
    BY <1>1, <1>3, <1>4, <2>3
  <2> QED
    BY <1>3, <2>1, <2>2, <2>3
<1>10. TimerTypes(next)
  BY <1>1, <1>3 DEF TimerTypes, Waits
<1> QED
  BY <1>1, <1>7, <1>8, <1>9, <1>10 DEF TimersOK

(***************************************************************************)
(* A handler h starts: it leaves the queue, or the timer when there is no  *)
(* queue.  If it is one that resets a flag, it does so in the same step.   *)
(***************************************************************************)
Starts(self, h, next) ==
    \/ /\ self.scatter_queue # <<>>
       /\ h = Head(self.scatter_queue)
       /\ next.scatter_queue = Tail(self.scatter_queue)
       /\ next.scatter_wait = self.scatter_wait
    \/ /\ self.scatter_queue = <<>>
       /\ h = self.scatter_wait
       /\ next.scatter_queue = <<>>
       /\ next.scatter_wait = "none"

LEMMA KindsStart ==
    ASSUME NEW self, NEW next, NEW h, NEW kinds,
           self.scatter_queue \in Seq(Handlers), Starts(self, h, next), "none" \notin kinds,
           Single(self, kinds)
    PROVE  /\ h \in kinds => Some(self, kinds)
           /\ Some(next, kinds) <=> Some(self, kinds) /\ h \notin kinds
           /\ Single(next, kinds)
<1> DEFINE flag == Some(self, kinds)
<1>1. CASE self.scatter_queue # <<>>
  <2> DEFINE n == Len(self.scatter_queue)
  <2>1. /\ n \in Nat \ {0}
        /\ Len(next.scatter_queue) = n - 1
        /\ \A j \in 1 .. n - 1 : next.scatter_queue[j] = self.scatter_queue[j + 1]
        /\ h = self.scatter_queue[1]
        /\ next.scatter_wait = self.scatter_wait
    <3>1. self.scatter_queue \in Seq(Handlers) /\ self.scatter_queue # <<>>
      BY <1>1
    <3>2. /\ h = Head(self.scatter_queue)
          /\ next.scatter_queue = Tail(self.scatter_queue)
          /\ next.scatter_wait = self.scatter_wait
      BY <1>1 DEF Starts
    <3> QED
      BY <3>1, <3>2
  <2>2. /\ At(next, 0) = At(self, 0)
        /\ \A j \in 1 .. n - 1 : At(next, j) = At(self, j + 1)
        /\ h = At(self, 1)
    BY <2>1 DEF At
  <2>3. /\ flag <=> \E j \in 0 .. n : At(self, j) \in kinds
        /\ \A i, j \in 0 .. n : At(self, i) \in kinds /\ At(self, j) \in kinds => i = j
    BY DEF Some, Single
  <2>4. h \in kinds => flag
    BY <2>1, <2>2, <2>3
  <2>5. \A j \in 0 .. n - 1 : At(next, j) \in kinds => flag /\ h \notin kinds
    BY <2>1, <2>2, <2>3
  <2>6. flag /\ h \notin kinds => \E j \in 0 .. n - 1 : At(next, j) \in kinds
    <3> SUFFICES ASSUME flag, h \notin kinds PROVE \E j \in 0 .. n - 1 : At(next, j) \in kinds
      OBVIOUS
    <3>1. PICK j \in 0 .. n : At(self, j) \in kinds
      BY <2>3
    <3>2. j # 1
      BY <2>2, <3>1
    <3>3. CASE j = 0
      BY <2>1, <2>2, <3>1, <3>3
    <3>4. CASE j # 0
      <4>1. j - 1 \in 1 .. n - 1 /\ At(next, j - 1) = At(self, j)
        BY <2>1, <2>2, <3>2, <3>4
      <4> QED
        BY <2>1, <3>1, <4>1
    <3> QED
      BY <3>3, <3>4
  <2>7. \A i, j \in 0 .. n - 1 : At(next, i) \in kinds /\ At(next, j) \in kinds => i = j
    <3> SUFFICES ASSUME NEW i \in 0 .. n - 1, NEW j \in 0 .. n - 1,
                        At(next, i) \in kinds, At(next, j) \in kinds
                 PROVE  i = j
      OBVIOUS
    <3> DEFINE back(x) == IF x = 0 THEN 0 ELSE x + 1
    <3>1. /\ back(i) \in 0 .. n /\ At(self, back(i)) \in kinds
          /\ back(j) \in 0 .. n /\ At(self, back(j)) \in kinds
      BY <2>1, <2>2
    <3>2. back(i) = back(j)
      BY <2>3, <3>1
    <3> QED
      BY <2>1, <3>2
  <2> QED
    BY <2>1, <2>4, <2>5, <2>6, <2>7 DEF Some, Single
<1>2. CASE self.scatter_queue = <<>>
  <2>1. /\ Len(self.scatter_queue) = 0
        /\ Len(next.scatter_queue) = 0
        /\ At(self, 0) = h
        /\ At(next, 0) = "none"
    BY <1>2 DEF Starts, At
  <2> QED
    BY <2>1 DEF Some, Single
<1> QED
  BY <1>1, <1>2

LEMMA StartTimers ==
    ASSUME NEW self, TimersOK(self), NEW h, NEW next, Starts(self, h, next),
           next.request_scheduled \in BOOLEAN,
           next.request_scheduled <=> self.request_scheduled /\ h \notin Requesting,
           next.response_scheduled \in BOOLEAN,
           next.response_scheduled <=> self.response_scheduled /\ h \notin Answering,
           next.member_id = self.member_id
    PROVE  /\ TimersOK(next)
           /\ h \in Requesting => self.request_scheduled
           /\ h \in Answering => self.response_scheduled
           /\ h \in {"info", "synch_info"} => IsAssigned(self)
<1>1. /\ self.scatter_queue \in Seq(Handlers)
      /\ self.scatter_wait \in Waits
      /\ self.request_scheduled <=> Some(self, Requesting)
      /\ self.response_scheduled <=> Some(self, Answering)
      /\ Single(self, Requesting)
      /\ Single(self, Answering)
      /\ \A j \in 0 .. Len(self.scatter_queue) :
            At(self, j) \in {"info", "synch_info"} => IsAssigned(self)
  BY DEF TimersOK, TimerTypes
<1>2. "none" \notin Requesting /\ "none" \notin Answering
  BY DEF Requesting, Answering
<1>3. /\ h \in Requesting => Some(self, Requesting)
      /\ Some(next, Requesting) <=> Some(self, Requesting) /\ h \notin Requesting
      /\ Single(next, Requesting)
  BY <1>1, <1>2, KindsStart
<1>4. /\ h \in Answering => Some(self, Answering)
      /\ Some(next, Answering) <=> Some(self, Answering) /\ h \notin Answering
      /\ Single(next, Answering)
  BY <1>1, <1>2, KindsStart
<1>5. /\ next.scatter_queue \in Seq(Handlers)
      /\ next.scatter_wait \in Waits
      /\ h \in {"info", "synch_info"} => IsAssigned(self)
      /\ \A j \in 0 .. Len(next.scatter_queue) :
            At(next, j) \in {"info", "synch_info"} => IsAssigned(self)
  <2>1. CASE self.scatter_queue # <<>>
    <3>1. /\ h = Head(self.scatter_queue)
          /\ next.scatter_queue = Tail(self.scatter_queue)
          /\ next.scatter_wait = self.scatter_wait
      BY <2>1 DEF Starts
    <3> DEFINE n == Len(self.scatter_queue)
    <3>2. /\ n \in Nat \ {0}
          /\ next.scatter_queue \in Seq(Handlers)
          /\ Len(next.scatter_queue) = n - 1
          /\ \A j \in 1 .. n - 1 : next.scatter_queue[j] = self.scatter_queue[j + 1]
          /\ h = self.scatter_queue[1]
      BY <1>1, <2>1, <3>1
    <3>3. /\ At(next, 0) = At(self, 0)
          /\ \A j \in 1 .. n - 1 : At(next, j) = At(self, j + 1) /\ j + 1 \in 0 .. n
          /\ h = At(self, 1) /\ 1 \in 0 .. n /\ 0 \in 0 .. n
      BY <3>1, <3>2 DEF At
    <3> QED
      BY <1>1, <3>1, <3>2, <3>3
  <2>2. CASE self.scatter_queue = <<>>
    <3>1. /\ h = At(self, 0)
          /\ At(next, 0) = "none"
          /\ next.scatter_queue = <<>>
          /\ next.scatter_wait = "none"
      BY <2>2 DEF Starts, At
    <3> QED
      BY <1>1, <2>2, <3>1 DEF Waits
  <2> QED
    BY <2>1, <2>2
<1>6. TimersOK(next)
  BY <1>1, <1>3, <1>4, <1>5 DEF TimersOK, TimerTypes, IsAssigned
<1> QED
  BY <1>1, <1>3, <1>4, <1>5, <1>6

-----------------------------------------------------------------------------
(***************************************************************************)
(* A handler in the making: what m has become so far is good if with it    *)
(* the state would have the invariant.  It keeps its id, the response that *)
(* it sent and its group secret, to which it may only add.                 *)
(***************************************************************************)
Stable(old, new) ==
    /\ old.response_message_cache # {} =>
          new.response_message_cache = old.response_message_cache
    /\ IsAssigned(old) => new.member_id = old.member_id
    /\ Prefix(old.group_secret, new.group_secret)

Good(m, self) ==
    /\ Inv([member EXCEPT ![m] = self])
    /\ Stable(member[m], self)
    /\ TimersOK(self)
    /\ TriggeredOK(self)
    /\ self.status = "running"

\* The effect of a handler of m on the states of the members.
Advances(m) ==
    /\ member[m].status \in {"down", "running"}
    /\ \E next :
          /\ member' = [member EXCEPT ![m] = next]
          /\ Stable(member[m], next)
          /\ next.status # "down"
          /\ member[m].status = "down" => next.response_message_cache = {}

SameTimers(a, b) ==
    /\ b.scatter_wait = a.scatter_wait
    /\ b.scatter_queue = a.scatter_queue
    /\ b.request_scheduled = a.request_scheduled
    /\ b.response_scheduled = a.response_scheduled

LEMMA SameTimersOK ==
    ASSUME NEW a, TimersOK(a), NEW b, SameTimers(a, b), IsAssigned(a) => IsAssigned(b)
    PROVE  TimersOK(b)
BY DEF TimersOK, SameTimers, TimerTypes, Some, Single, At

LEMMA StableTrans ==
    ASSUME NEW a, NEW b, NEW c, Stable(a, b), Stable(b, c),
           a.group_secret \in Seq(Members), b.group_secret \in Seq(Members)
    PROVE  Stable(a, c)
<1>1. Prefix(a.group_secret, c.group_secret)
  <2> DEFINE x == a.group_secret
             y == b.group_secret
             z == c.group_secret
  <2>1. Prefix(x, y) /\ Prefix(y, z)
    BY DEF Stable
  <2>2. x \in Seq(Members) /\ y \in Seq(Members)
    OBVIOUS
  <2> HIDE DEF x, y, z
  <2>3. Len(x) <= Len(z)
    BY <2>1, <2>2 DEF Prefix
  <2> QED
    BY <2>1, <2>2, <2>3 DEF Prefix, x, z
<1> QED
  BY <1>1 DEF Stable, IsAssigned

LEMMA StableSame ==
    ASSUME NEW a, NEW b, a.group_secret \in Seq(Members),
           b.group_secret = a.group_secret,
           b.member_id = a.member_id,
           b.response_message_cache = a.response_message_cache
    PROVE  Stable(a, b)
BY DEF Stable, Prefix

LEMMA GoodMember ==
    ASSUME NEW m \in Members, NEW self, Good(m, self), IInv
    PROVE  LET mem == [member EXCEPT ![m] = self]
           IN  /\ mem[m] = self
               /\ mem \in [Members -> {mem[n] : n \in Members}]
               /\ MemberOK(History(mem), m, self)
               /\ HistoryOK(History(mem))
               /\ CoreTypes(self)
               /\ DOMAIN self = Fields
               /\ self.group_secret \in Seq(Members)
               /\ MemberOK(History(member), m, member[m])
               /\ member[m].group_secret \in Seq(Members)
<1>1. [member EXCEPT ![m] = self][m] = self
  BY DEF IInv, Inv
<1> QED
  BY <1>1 DEF Good, IInv, Inv, MemberOK, CoreTypes

\* The next part of a handler, which makes next of what m was.
LEMMA GoodNext ==
    ASSUME IInv, NEW m \in Members, NEW self, Good(m, self), NEW next,
           Inv([[member EXCEPT ![m] = self] EXCEPT ![m] = next]),
           Stable(self, next), TimersOK(next), TriggeredOK(next), next.status = "running"
    PROVE  Good(m, next)
<1>1. Inv([member EXCEPT ![m] = next])
  BY ChangeTwice
<1>2. Stable(member[m], next)
  BY StableTrans, GoodMember DEF Good
<1> QED
  BY <1>1, <1>2 DEF Good

LEMMA GoodSame ==
    ASSUME IInv, NEW m \in Members, NEW self, Good(m, self), NEW next,
           SameCore(self, next), TimersOK(next), TriggeredOK(next)
    PROVE  Good(m, next)
<1> DEFINE mem == [member EXCEPT ![m] = self]
<1>1. mem[m] = self /\ self.group_secret \in Seq(Members)
  BY GoodMember
<1>2. Inv(mem) /\ self.status = "running"
  BY DEF Good
<1>3. next.status = "running" /\ Stable(self, next)
  BY <1>1, <1>2, StableSame DEF SameCore, SameKeys
<1> HIDE DEF mem
<1>4. Inv([mem EXCEPT ![m] = next])
  BY <1>1, <1>2, CoreChange
<1> QED
  BY <1>3, <1>4, GoodNext DEF mem

LEMMA GoodLocal ==
    ASSUME IInv, NEW m \in Members, NEW self, Good(m, self), NEW next,
           MemberOK(History([member EXCEPT ![m] = self]), m, next),
           next.is_sponsor = self.is_sponsor,
           next.member_id = self.member_id,
           next.response_message_cache = self.response_message_cache,
           Prefix(self.group_secret, next.group_secret),
           next.status = "running", SameTimers(self, next),
           next.last_member_synch_token_sending_triggered
               = self.last_member_synch_token_sending_triggered
    PROVE  Good(m, next)
<1> DEFINE mem == [member EXCEPT ![m] = self]
<1>1. mem[m] = self
  BY GoodMember
<1>2. Inv(mem) /\ self.status = "running" /\ TimersOK(self) /\ TriggeredOK(self)
  BY DEF Good
<1>3. Stable(self, next)
  BY DEF Stable
<1>4. TimersOK(next)
  BY <1>2, SameTimersOK DEF IsAssigned
<1>5. TriggeredOK(next)
  BY <1>2 DEF TriggeredOK, IsAssigned
<1> HIDE DEF mem
<1>6. Inv([mem EXCEPT ![m] = next])
  BY <1>1, <1>2, LocalChange DEF mem
<1> QED
  BY <1>3, <1>4, <1>5, <1>6, GoodNext DEF mem

LEMMA GoodStart ==
    ASSUME IInv, NEW m \in Members, member[m].status = "running"
    PROVE  Good(m, member[m])
<1>1. [member EXCEPT ![m] = member[m]] = member
  BY ChangeNothing DEF IInv
<1>2. member[m].group_secret \in Seq(Members)
  BY DEF IInv, Inv, MemberOK, CoreTypes
<1> QED
  BY <1>1, <1>2, StableSame DEF Good, IInv

LEMMA TruthfulKept ==
    ASSUME NEW m, NEW old, NEW new, Stable(old, new), NEW msg, Truthful(m, old, msg)
    PROVE  Truthful(m, new, msg)
<1>1. msg \in old.response_message_cache => msg \in new.response_message_cache
  BY DEF Stable
<1>2. IsAssigned(old) => IsAssigned(new) /\ new.member_id = old.member_id
  BY DEF Stable, IsAssigned
<1> QED
  BY <1>1, <1>2 DEF Truthful

\* A handler is complete: m is self and has sent msgs.
LEMMA BecomeInv ==
    ASSUME IInv, NEW m \in Members, NEW self, NEW msgs,
           member[m].status \in {"down", "running"},
           Inv([member EXCEPT ![m] = self]),
           Stable(member[m], self), TimersOK(self), TriggeredOK(self),
           self.status # "down",
           member[m].status = "down" => self.response_message_cache = {},
           self.is_sponsor => self.member_id < member_count[Service(m)],
           \A msg \in msgs : Truthful(m, self, msg),
           Become(m, self, msgs)
    PROVE  IInv' /\ Advances(m)
<1>1. /\ member' = [member EXCEPT ![m] = self]
      /\ net' = IF msgs = {} THEN net ELSE Sent(m, msgs)
  BY DEF Become
<1>2. Inv(member')
  BY <1>1
<1>3. /\ member'[m] = self
      /\ \A n \in Members : n # m => member'[n] = member[n]
  BY <1>1, Updated DEF IInv, Inv
<1>4. Room(member')
  BY <1>3 DEF IInv, Room
<1>5. \A n \in Members : TimersOK(member'[n]) /\ TriggeredOK(member'[n])
  BY <1>3 DEF IInv
<1>6. /\ net \in [Members -> SUBSET Messages]
      /\ \A n \in Members : \A msg \in net[n] : Truthful(n, member[n], msg)
  BY DEF IInv, NetOK
<1>7. \A n \in Members : \A msg \in net[n] : Truthful(n, member'[n], msg)
  <2> SUFFICES ASSUME NEW n \in Members, NEW msg \in net[n]
               PROVE  Truthful(n, member'[n], msg)
    OBVIOUS
  <2>1. CASE n = m
    BY <1>3, <1>6, <2>1, TruthfulKept
  <2>2. CASE n # m
    BY <1>3, <1>6, <2>2
  <2> QED
    BY <2>1, <2>2
<1>8. \A msg \in msgs : msg \in Messages
  BY DEF Truthful
<1>9. /\ net' \in [Members -> SUBSET Messages]
      /\ net'[m] \subseteq net[m] \cup msgs
      /\ \A n \in Members : n # m => net'[n] = net[n]
  <2>1. CASE msgs = {}
    BY <1>1, <1>6, <2>1
  <2>2. CASE msgs # {}
    <3>1. CASE Network = "any"
      <4>1. net' = [net EXCEPT ![m] = net[m] \cup msgs]
        BY <1>1, <2>2, <3>1 DEF Sent
      <4> QED
        BY <1>6, <1>8, <4>1
    <3>2. CASE Network = "ordered"
      <4>1. net' = [net EXCEPT ![m] = msgs]
        BY <1>1, <2>2, <3>2 DEF Sent
      <4> QED
        BY <1>6, <1>8, <4>1
    <3> QED
      BY <3>1, <3>2, NetworkAssumption
  <2> QED
    BY <2>1, <2>2
<1>10. NetOK(net', member')
  <2> SUFFICES ASSUME NEW n \in Members, NEW msg \in net'[n]
               PROVE  Truthful(n, member'[n], msg)
    BY <1>9 DEF NetOK
  <2>1. CASE n = m
    BY <1>3, <1>7, <1>9, <2>1
  <2>2. CASE n # m
    BY <1>7, <1>9, <2>2
  <2> QED
    BY <2>1, <2>2
<1>11. IInv'
  BY <1>2, <1>4, <1>5, <1>10 DEF IInv
<1>12. Advances(m)
  BY <1>1 DEF Advances
<1> QED
  BY <1>11, <1>12

LEMMA BecomeGood ==
    ASSUME IInv, NEW m \in Members, member[m].status = "running",
           NEW self, Good(m, self), NEW msgs,
           self.is_sponsor => self.member_id < member_count[Service(m)],
           \A msg \in msgs : Truthful(m, self, msg),
           Become(m, self, msgs)
    PROVE  IInv' /\ Advances(m)
BY BecomeInv DEF Good

-----------------------------------------------------------------------------
(***************************************************************************)
(* What the parts of the handlers do to what was good.                     *)
(***************************************************************************)
LEMMA GoodFlags ==
    ASSUME IInv, NEW m \in Members, NEW self, Good(m, self), NEW next,
           SameCore(self, next), SameTimers(self, next),
           next.last_member_synch_token_sending_triggered
               = self.last_member_synch_token_sending_triggered
    PROVE  Good(m, next)
<1>1. TimersOK(next) /\ TriggeredOK(next)
  BY SameTimersOK DEF Good, SameCore, SameKeys, TriggeredOK, IsAssigned
<1> QED
  BY <1>1, GoodSame

LEMMA GoodAwait ==
    ASSUME IInv, NEW m \in Members, NEW self, Good(m, self),
           NEW h \in Waits \ {"request", "info", "synch_info"}
    PROVE  LET next == Await(self, h)
           IN  /\ Good(m, next)
               /\ SameCore(self, next)
<1> DEFINE next == Await(self, h)
<1>1. DOMAIN self = Fields /\ TimersOK(self) /\ TriggeredOK(self)
  BY GoodMember DEF Good
<1>2. /\ SameCore(self, next)
      /\ next.scatter_wait = h
      /\ next.scatter_queue = self.scatter_queue \o Aborted(self)
      /\ next.request_scheduled = self.request_scheduled
      /\ next.response_scheduled = self.response_scheduled
      /\ next.last_member_synch_token_sending_triggered
            = self.last_member_synch_token_sending_triggered
  BY <1>1 DEF Await, Fields, SameCore, SameKeys
<1> HIDE DEF next
<1>3. self.request_scheduled \in BOOLEAN /\ self.response_scheduled \in BOOLEAN
  BY <1>1 DEF TimersOK, TimerTypes
<1>4. IsAssigned(self) <=> IsAssigned(next)
  BY <1>2 DEF SameCore, SameKeys, IsAssigned
<1>5. TimersOK(next)
  BY <1>1, <1>2, <1>3, <1>4, AwaitTimers
<1>6. TriggeredOK(next)
  BY <1>1, <1>2, <1>4 DEF TriggeredOK
<1>7. Good(m, next)
  BY <1>2, <1>5, <1>6, GoodSame
<1> QED
  BY <1>2, <1>7 DEF next

LEMMA GoodRequest ==
    ASSUME IInv, NEW m \in Members, NEW self, Good(m, self), ~ self.request_scheduled
    PROVE  LET next == Await([self EXCEPT !.request_scheduled = TRUE], "request")
           IN  /\ Good(m, next)
               /\ SameCore(self, next)
<1> DEFINE mid == [self EXCEPT !.request_scheduled = TRUE]
           next == Await(mid, "request")
<1>1. DOMAIN self = Fields /\ TimersOK(self) /\ TriggeredOK(self)
  BY GoodMember DEF Good
<1>2. /\ SameCore(self, mid)
      /\ DOMAIN mid = Fields
      /\ mid.scatter_wait = self.scatter_wait
      /\ mid.scatter_queue = self.scatter_queue
      /\ mid.request_scheduled = TRUE
      /\ mid.response_scheduled = self.response_scheduled
      /\ mid.last_member_synch_token_sending_triggered
            = self.last_member_synch_token_sending_triggered
  BY <1>1 DEF Fields, SameCore, SameKeys
<1> HIDE DEF mid
<1>3. /\ SameCore(mid, next)
      /\ next.scatter_wait = "request"
      /\ next.scatter_queue = mid.scatter_queue \o Aborted(mid)
      /\ next.request_scheduled = TRUE
      /\ next.response_scheduled = mid.response_scheduled
      /\ next.last_member_synch_token_sending_triggered
            = mid.last_member_synch_token_sending_triggered
  BY <1>2 DEF Await, Fields, SameCore, SameKeys
<1> HIDE DEF next
<1>4. Aborted(mid) = Aborted(self)
  BY <1>2 DEF Aborted
<1>5. SameCore(self, next)
  BY <1>2, <1>3 DEF SameCore, SameKeys
<1>6. self.request_scheduled \in BOOLEAN /\ self.response_scheduled \in BOOLEAN
  BY <1>1 DEF TimersOK, TimerTypes
<1>7. IsAssigned(self) <=> IsAssigned(next)
  BY <1>5 DEF SameCore, SameKeys, IsAssigned
<1>8. TimersOK(next)
  <2>1. "request" \in Waits
    BY DEF Waits
  <2> QED
    BY <1>1, <1>2, <1>3, <1>4, <1>6, <1>7, <2>1, AwaitTimers
<1>9. TriggeredOK(next)
  BY <1>1, <1>2, <1>3, <1>7 DEF TriggeredOK
<1>10. Good(m, next)
  BY <1>5, <1>8, <1>9, GoodSame
<1> QED
  BY <1>5, <1>10 DEF next, mid

LEMMA GoodAnswer ==
    ASSUME IInv, NEW m \in Members, NEW self, Good(m, self), ~ self.response_scheduled,
           IsAssigned(self), NEW h \in {"info", "synch_info"}
    PROVE  LET next == Await([self EXCEPT !.response_scheduled = TRUE], h)
           IN  /\ Good(m, next)
               /\ SameCore(self, next)
<1> DEFINE mid == [self EXCEPT !.response_scheduled = TRUE]
           next == Await(mid, h)
<1>1. DOMAIN self = Fields /\ TimersOK(self) /\ TriggeredOK(self)
  BY GoodMember DEF Good
<1>2. /\ SameCore(self, mid)
      /\ DOMAIN mid = Fields
      /\ mid.scatter_wait = self.scatter_wait
      /\ mid.scatter_queue = self.scatter_queue
      /\ mid.response_scheduled = TRUE
      /\ mid.request_scheduled = self.request_scheduled
      /\ mid.last_member_synch_token_sending_triggered
            = self.last_member_synch_token_sending_triggered
  BY <1>1 DEF Fields, SameCore, SameKeys
<1> HIDE DEF mid
<1>3. /\ SameCore(mid, next)
      /\ next.scatter_wait = h
      /\ next.scatter_queue = mid.scatter_queue \o Aborted(mid)
      /\ next.response_scheduled = TRUE
      /\ next.request_scheduled = mid.request_scheduled
      /\ next.last_member_synch_token_sending_triggered
            = mid.last_member_synch_token_sending_triggered
  BY <1>2 DEF Await, Fields, SameCore, SameKeys
<1> HIDE DEF next
<1>4. Aborted(mid) = Aborted(self)
  BY <1>2 DEF Aborted
<1>5. SameCore(self, next)
  BY <1>2, <1>3 DEF SameCore, SameKeys
<1>6. self.request_scheduled \in BOOLEAN /\ self.response_scheduled \in BOOLEAN
  BY <1>1 DEF TimersOK, TimerTypes
<1>7. IsAssigned(next)
  BY <1>5 DEF SameCore, SameKeys, IsAssigned
<1>8. TimersOK(next)
  <2>1. h \in Waits /\ h # "request"
    BY DEF Waits
  <2> QED
    BY <1>1, <1>2, <1>3, <1>4, <1>6, <1>7, <2>1, AwaitTimers
<1>9. TriggeredOK(next)
  BY <1>7 DEF TriggeredOK
<1>10. Good(m, next)
  BY <1>5, <1>8, <1>9, GoodSame
<1> QED
  BY <1>5, <1>10 DEF next, mid

LEMMA GoodPending ==
    ASSUME IInv, NEW m \in Members, NEW self, Good(m, self), NEW set,
           \A e \in set : e \in Members /\ e # m /\ Service(e) = Service(m)
    PROVE  LET next == [self EXCEPT !.pending_requests = set]
           IN  /\ Good(m, next)
               /\ next.is_sponsor = self.is_sponsor
               /\ next.member_id = self.member_id
<1> DEFINE H == History([member EXCEPT ![m] = self])
           next == [self EXCEPT !.pending_requests = set]
<1>1. DOMAIN self = Fields /\ MemberOK(H, m, self) /\ self.group_secret \in Seq(Members)
  BY GoodMember
<1>2. self.status = "running"
  BY DEF Good
<1> HIDE DEF H
<1>3. /\ MemberOK(H, m, next)
      /\ SameKeys(self, next)
      /\ next.status = "running"
      /\ next.is_sponsor = self.is_sponsor
      /\ next.response_message_cache = self.response_message_cache
  BY <1>1, <1>2, PendingChange
<1>4. /\ SameTimers(self, next)
      /\ next.last_member_synch_token_sending_triggered
            = self.last_member_synch_token_sending_triggered
  BY <1>1 DEF Fields, SameTimers
<1> HIDE DEF next
<1>5. Prefix(self.group_secret, next.group_secret)
  BY <1>1, <1>3 DEF SameKeys, Prefix
<1>6. Good(m, next)
  BY <1>3, <1>4, <1>5, GoodLocal DEF H, SameKeys
<1> QED
  BY <1>3, <1>6 DEF next, SameKeys

LEMMA GoodHistory ==
    ASSUME IInv, NEW m \in Members, NEW self, Good(m, self),
           self.response_message_cache = member[m].response_message_cache
    PROVE  History([member EXCEPT ![m] = self]) = History(member)
<1>1. /\ [member EXCEPT ![m] = self][m] = self
      /\ \A n \in Members : n # m => [member EXCEPT ![m] = self][n] = member[n]
  BY Updated DEF IInv, Inv
<1> QED
  BY <1>1, HistorySame

\* A member with an id that is not the last member has room behind it.
LEMMA GoodRoom ==
    ASSUME IInv, NEW m \in Members, NEW self, Good(m, self)
    PROVE  /\ self.is_sponsor => IsAssigned(self)
           /\ IsAssigned(self) /\ ~ IsLastMember(m, self)
                 => self.member_id < member_count[Service(m)]
<1> DEFINE H == History([member EXCEPT ![m] = self])
<1>1. MemberOK(H, m, self) /\ HistoryOK(H)
  BY GoodMember
<1> HIDE DEF H
<1>2. self.is_sponsor => IsAssigned(self)
  BY <1>1 DEF MemberOK, CountOK
<1>3. ASSUME IsAssigned(self), ~ IsLastMember(m, self)
      PROVE  self.member_id < member_count[Service(m)]
  <2>1. Gives(H, Service(m), self.member_id, m) /\ self.member_id \in Nat \ {0}
    BY <1>1, <1>3, OwnId
  <2>2. Service(m) \in Services /\ member_count[Service(m)] \in Nat \ {0}
    BY ServiceTypes
  <2>3. self.member_id # 1 => self.member_id <= member_count[Service(m)]
    BY <1>1, <2>1, <2>2, GivesType
  <2>4. self.member_id # member_count[Service(m)]
    BY <1>3 DEF IsLastMember
  <2> QED
    BY <2>1, <2>2, <2>3, <2>4
<1> QED
  BY <1>2, <1>3

LEMMA GoodAddKeys ==
    ASSUME IInv, NEW m \in Members, NEW self, Good(m, self),
           NEW next \in CheckAndAddNextBlindedKeys(self)
    PROVE  /\ Good(m, next)
           /\ next.is_sponsor = self.is_sponsor
           /\ next.member_id = self.member_id
           /\ next.response_message_cache = self.response_message_cache
<1> DEFINE H == History([member EXCEPT ![m] = self])
<1>1. /\ MemberOK(H, m, self)
      /\ DOMAIN self = Fields
      /\ self.group_secret \in Seq(Members)
      /\ self.status = "running"
  BY GoodMember DEF Good
<1> HIDE DEF H
<1>2. /\ MemberOK(H, m, next)
      /\ next.status = "running"
      /\ next.is_sponsor = self.is_sponsor
      /\ next.member_id = self.member_id
      /\ next.response_message_cache = self.response_message_cache
  <2>1. /\ MemberOK(H, m, self)
        /\ self.status = "running"
        /\ m \in Members
        /\ next \in CheckAndAddNextBlindedKeys(self)
    BY <1>1
  <2> QED
    BY ONLY <2>1, AddKeysOK
<1>3. /\ SameTimers(self, next)
      /\ next.last_member_synch_token_sending_triggered
            = self.last_member_synch_token_sending_triggered
      /\ Prefix(self.group_secret, next.group_secret)
  <2>1. CASE self.is_sponsor \/ ~ IsAssigned(self)
    BY <1>1, <2>1 DEF CheckAndAddNextBlindedKeys, SameTimers, Prefix
  <2>2. CASE ~ self.is_sponsor /\ IsAssigned(self)
    <3>1. PICK top \in LastAdded(self) : next = AddKeys(self, top)
      BY <2>2 DEF CheckAndAddNextBlindedKeys
    <3>2. /\ Len(self.group_secret) = LastKeyId(self)
          /\ LastKeyId(self) \in Nat
      BY <1>1, <2>2 DEF MemberOK, CountOK
    <3>3. top \in Nat /\ top >= LastKeyId(self)
      BY <3>2 DEF LastAdded
    <3> DEFINE secret == [i \in 1 .. top |-> IF i <= LastKeyId(self)
                                             THEN self.group_secret[i]
                                             ELSE self.assigned_keys[i]]
    <3>4. /\ next.group_secret = secret
          /\ SameTimers(self, next)
          /\ next.last_member_synch_token_sending_triggered
                = self.last_member_synch_token_sending_triggered
      BY <1>1, <3>1 DEF AddKeys, SameTimers, Fields
    <3>5. /\ Len(secret) = top
          /\ \A i \in DOMAIN self.group_secret : self.group_secret[i] = secret[i]
      BY <1>1, <3>2, <3>3
    <3> HIDE DEF secret
    <3> QED
      BY <3>2, <3>3, <3>4, <3>5 DEF Prefix
  <2> QED
    BY <2>1, <2>2
<1>4. Good(m, next)
  BY <1>2, <1>3, GoodLocal DEF H
<1> QED
  BY <1>2, <1>4

\* A member gets to know that n has the id.
LEMMA GoodNote ==
    ASSUME IInv, NEW m \in Members, NEW self, Good(m, self),
           NEW n \in Members, NEW id \in MemberIds,
           Gives(History([member EXCEPT ![m] = self]), Service(m), id, n)
    PROVE  LET next == Note(m, self, n, id)
           IN  /\ Good(m, next)
               /\ next.is_sponsor = self.is_sponsor
               /\ next.member_id = self.member_id
               /\ next.response_message_cache = self.response_message_cache
               /\ next.pending_requests = self.pending_requests
               /\ SameTimers(self, next)
               /\ next.last_member_synch_token_sending_triggered
                     = self.last_member_synch_token_sending_triggered
<1> DEFINE H == History([member EXCEPT ![m] = self])
           next == Note(m, self, n, id)
<1>1. /\ MemberOK(H, m, self)
      /\ HistoryOK(H)
      /\ DOMAIN self = Fields
      /\ self.group_secret \in Seq(Members)
      /\ self.status = "running"
      /\ Gives(H, Service(m), id, n)
  BY GoodMember DEF Good
<1> HIDE DEF H
<1>2. /\ MemberOK(H, m, next)
      /\ next.status = "running"
      /\ next.is_sponsor = self.is_sponsor
      /\ next.member_id = self.member_id
      /\ next.group_secret = self.group_secret
      /\ next.pending_requests = self.pending_requests
      /\ next.response_message_cache = self.response_message_cache
  BY <1>1, NoteOK
<1>3. /\ SameTimers(self, next)
      /\ next.last_member_synch_token_sending_triggered
            = self.last_member_synch_token_sending_triggered
  BY <1>1 DEF Note, SameTimers, Fields
<1> HIDE DEF next
<1>4. Prefix(self.group_secret, next.group_secret)
  BY <1>1, <1>2 DEF Prefix
<1>5. Good(m, next)
  BY <1>2, <1>3, <1>4, GoodLocal DEF H
<1> QED
  BY <1>2, <1>3, <1>5 DEF next

\* process_member_info_response_ keeps the role, the id and the assignment.
LEMMA GoodLearnInfo ==
    ASSUME IInv, NEW m \in Members, member[m].status = "running",
           NEW n \in Members \ {m}, NEW msg \in net[n],
           msg.type \in {"info_response", "synch_response"},
           NEW next \in LearnInfo(m, member[m], msg)
    PROVE  /\ Good(m, next)
           /\ next.is_sponsor = member[m].is_sponsor
           /\ next.member_id = member[m].member_id
           /\ next.response_message_cache = member[m].response_message_cache
<1> DEFINE self == member[m]
           H == History([member EXCEPT ![m] = self])
<1>1. /\ msg.from = n
      /\ msg.service = Service(n)
      /\ IsAssigned(member[n])
      /\ msg.member_id = member[n].member_id
  <2>1. Truthful(n, member[n], msg)
    BY DEF IInv, NetOK
  <2> QED
    BY <2>1 DEF Truthful
<1>2. Good(m, self)
  BY GoodStart
<1>3. H = History(member)
  BY <1>2, GoodHistory
<1>4. CASE ~ (msg.service = Service(m) /\ msg.from \notin DOMAIN self.assigned_endpoints)
  BY <1>2, <1>4 DEF LearnInfo
<1>5. CASE msg.service = Service(m) /\ msg.from \notin DOMAIN self.assigned_endpoints
  <2> DEFINE noted == Note(m, self, n, msg.member_id)
             set == noted.pending_requests \ {n}
             mid == [noted EXCEPT !.pending_requests = set]
  <2>1. Gives(H, Service(m), msg.member_id, n) /\ msg.member_id \in MemberIds
    <3>1. MemberOK(H, n, member[n])
      BY <1>3 DEF IInv, Inv
    <3> QED
      BY <1>1, <1>5, <3>1, OwnId DEF MemberIds, DEFAULT_MEMBER_ID
  <2>2. /\ Good(m, noted)
        /\ noted.is_sponsor = self.is_sponsor
        /\ noted.member_id = self.member_id
        /\ noted.response_message_cache = self.response_message_cache
    BY <1>2, <2>1, GoodNote
  <2>3. next \in CheckAndAddNextBlindedKeys(mid)
    BY <1>1, <1>5 DEF LearnInfo
  <2> HIDE DEF noted
  <2>4. \A e \in set : e \in Members /\ e # m /\ Service(e) = Service(m)
    <3>1. MemberOK(History([member EXCEPT ![m] = noted]), m, noted)
      BY <2>2, GoodMember
    <3> QED
      BY <3>1 DEF MemberOK, CoreTypes, PendingOK
  <2>5. /\ Good(m, mid)
        /\ mid.is_sponsor = noted.is_sponsor
        /\ mid.member_id = noted.member_id
    BY <2>2, <2>4, GoodPending
  <2>6. mid.response_message_cache = noted.response_message_cache
    BY <2>2, GoodMember DEF Fields
  <2> HIDE DEF mid
  <2> QED
    BY <2>2, <2>3, <2>5, <2>6, GoodAddKeys
<1> QED
  BY <1>4, <1>5

\* What a response tells of others, and what its addressee becomes.
LEMMA GoodAfterResponse ==
    ASSUME IInv, NEW m \in Members, member[m].status = "running",
           NEW msg \in History(member)
    PROVE  LET next == AfterResponse(m, member[m], msg)
           IN  /\ Good(m, next)
               /\ IsAssigned(member[m]) => /\ next.is_sponsor = member[m].is_sponsor
                                           /\ next.member_id = member[m].member_id
               /\ next.response_message_cache = member[m].response_message_cache
               /\ next.last_member_synch_token_sending_triggered
                     = member[m].last_member_synch_token_sending_triggered
<1> DEFINE self == member[m]
           next == AfterResponse(m, self, msg)
<1>1. Good(m, self)
  BY GoodStart
<1>2. CASE msg.service # Service(m)
  BY <1>1, <1>2 DEF AfterResponse
<1>3. CASE msg.service = Service(m)
  <2> DEFINE H == History(member)
             learnt == Learn(m, self, msg)
             mem == [member EXCEPT ![m] = learnt]
  <2>1. /\ HistoryOK(H)
        /\ MemberOK(H, m, self)
        /\ DOMAIN self = Fields
        /\ self.group_secret \in Seq(Members)
    BY DEF IInv, Inv, MemberOK, CoreTypes
  <2>2. /\ MemberOK(H, m, learnt)
        /\ DOMAIN learnt = Fields
        /\ learnt.status = "running"
        /\ learnt.is_sponsor = self.is_sponsor
        /\ learnt.member_id = self.member_id
        /\ learnt.group_secret = self.group_secret
        /\ learnt.response_message_cache = self.response_message_cache
    BY <1>3, <2>1, LearnOK
  <2>3. /\ SameTimers(self, learnt)
        /\ learnt.last_member_synch_token_sending_triggered
              = self.last_member_synch_token_sending_triggered
    <3> DEFINE new == Note(m, self, msg.new_sponsor, msg.assigned_id)
               old == Note(m, new, msg.from, msg.assigned_id - 1)
    <3>1. /\ SameTimers(self, new)
          /\ new.last_member_synch_token_sending_triggered
                = self.last_member_synch_token_sending_triggered
          /\ DOMAIN new = Fields
      BY <2>1 DEF Note, SameTimers, Fields
    <3> HIDE DEF new
    <3>2. /\ SameTimers(self, old)
          /\ old.last_member_synch_token_sending_triggered
                = self.last_member_synch_token_sending_triggered
          /\ DOMAIN old = Fields
      BY <3>1 DEF Note, SameTimers, Fields
    <3>3. learnt = [old EXCEPT !.pending_requests = @ \ {msg.new_sponsor, msg.from}]
      BY DEF Learn, new
    <3> HIDE DEF old, learnt
    <3> QED
      BY <3>2, <3>3 DEF SameTimers, Fields
  <2>4. next = BecomeSponsor(m, learnt, msg)
    BY <1>3 DEF AfterResponse
  <2> HIDE DEF learnt, next
  <2>5. Prefix(self.group_secret, learnt.group_secret)
    BY <2>1, <2>2 DEF Prefix
  <2>6. Good(m, learnt)
    <3>1. MemberOK(History([member EXCEPT ![m] = self]), m, learnt)
      BY <1>1, <2>2, GoodHistory
    <3> QED
      BY <1>1, <2>2, <2>3, <2>5, <3>1, GoodLocal
  <2>7. CASE ~ Addressed(m, learnt, msg)
    BY <2>2, <2>3, <2>4, <2>6, <2>7 DEF BecomeSponsor, next
  <2>8. CASE Addressed(m, learnt, msg)
    <3>1. next = TakeOver(m, learnt, msg) /\ msg.new_sponsor = m /\ ~ IsAssigned(learnt)
      BY <2>4, <2>8 DEF BecomeSponsor, Addressed
    <3>2. History(mem) = H /\ mem[m] = learnt /\ Inv(mem)
      BY <2>2, <2>6, GoodHistory, GoodMember DEF Good
    <3> HIDE DEF mem
    <3>3. Inv([mem EXCEPT ![m] = next])
      BY <1>3, <2>2, <3>1, <3>2, TakeOverInv
    <3>4. /\ next.status = "running"
          /\ next.member_id = msg.assigned_id
          /\ next.response_message_cache = learnt.response_message_cache
          /\ next.last_member_synch_token_sending_triggered
                = learnt.last_member_synch_token_sending_triggered
          /\ SameTimers(learnt, next)
      BY <2>2, <3>1 DEF TakeOver, Fields, SameTimers
    <3>5. IsAssigned(next)
      BY <2>1, <3>4 DEF HistoryOK, AssignmentOK, Assignments, MemberIds, IsAssigned
    <3>6. Stable(learnt, next)
      <4>1. learnt.group_secret = <<>>
        BY <2>2, <3>1 DEF MemberOK, CountOK
      <4>2. Prefix(learnt.group_secret, next.group_secret)
        <5>1. next.group_secret = Append(msg.blinded_group_secret, m)
          BY <2>2, <3>1 DEF TakeOver, Fields
        <5>2. msg.blinded_group_secret \in Seq(Members)
          BY <2>1 DEF HistoryOK, AssignmentOK, Assignments
        <5> QED
          BY <4>1, <5>1, <5>2 DEF Prefix
      <4> QED
        BY <3>1, <3>4, <4>2 DEF Stable
    <3>7. TimersOK(next) /\ TriggeredOK(next)
      BY <2>6, <3>4, <3>5, SameTimersOK DEF Good, TriggeredOK
    <3>8. Good(m, next)
      BY <2>6, <3>3, <3>4, <3>6, <3>7, GoodNext DEF mem
    <3>9. ~ IsAssigned(self)
      BY <2>2, <3>1 DEF IsAssigned
    <3> QED
      BY <2>2, <2>3, <3>4, <3>8, <3>9 DEF next
  <2> QED
    BY <2>7, <2>8 DEF next
<1> QED
  BY <1>2, <1>3

\* A response that may be received is part of the history.
LEMMA ResponseKnown ==
    ASSUME IInv, NEW n \in Members, NEW msg \in net[n], msg.type = "response"
    PROVE  msg \in History(member)
<1>1. msg \in member[n].response_message_cache
  BY DEF IInv, NetOK, Truthful
<1> QED
  BY <1>1, HistoryMember

-----------------------------------------------------------------------------
(***************************************************************************)
(* process_pending_request, which ends most handlers.                      *)
(***************************************************************************)
LEMMA GoodAdmitted ==
    ASSUME IInv, NEW m \in Members, NEW self, Good(m, self),
           self.is_sponsor, AllPredecessorsKnown(self),
           self.member_id < member_count[Service(m)], NEW e \in Unassigned(self)
    PROVE  LET next == Admitted(m, self, e)
           IN  /\ Good(m, next)
               /\ next.is_sponsor = FALSE
               /\ next.response_message_cache = {Response(m, self, e)}
               /\ Response(m, self, e) \in Assignments
               /\ IsAssigned(next)
<1> DEFINE mem == [member EXCEPT ![m] = self]
           next == Admitted(m, self, e)
           x == Response(m, self, e)
<1>1. /\ Inv(mem)
      /\ mem[m] = self
      /\ self.status = "running"
      /\ DOMAIN self = Fields
      /\ MemberOK(History(mem), m, self)
      /\ self.group_secret \in Seq(Members)
      /\ TimersOK(self)
  BY GoodMember DEF Good
<1> HIDE DEF mem
<1>2. /\ Inv([mem EXCEPT ![m] = next])
      /\ Extends(mem, [mem EXCEPT ![m] = next], x)
  BY <1>1, AdmitInv
<1>3. x \in Assignments
  <2>1. x \in History([mem EXCEPT ![m] = next])
    BY <1>2 DEF Extends
  <2> HIDE DEF next, x
  <2> QED
    BY <1>2, <2>1 DEF Inv, HistoryOK, AssignmentOK
<1>4. /\ next.is_sponsor = FALSE
      /\ next.member_id = self.member_id
      /\ next.group_secret = Append(self.group_secret, e)
      /\ next.status = "running"
      /\ next.response_message_cache = {x}
      /\ SameTimers(self, next)
  BY <1>1 DEF Admitted, HandOver, Fields, SameTimers
<1>5. self.response_message_cache = {} /\ IsAssigned(self)
  BY <1>1 DEF MemberOK, CacheOK, CountOK
<1>6. Prefix(self.group_secret, next.group_secret)
  BY <1>1, <1>4 DEF Prefix
<1> HIDE DEF next, x
<1>7. Stable(self, next)
  BY <1>4, <1>5, <1>6 DEF Stable
<1>8. IsAssigned(next) /\ TimersOK(next) /\ TriggeredOK(next)
  BY <1>1, <1>4, <1>5, SameTimersOK DEF IsAssigned, TriggeredOK
<1>9. Good(m, next)
  BY <1>2, <1>4, <1>7, <1>8, GoodNext DEF mem
<1> QED
  BY <1>3, <1>4, <1>8, <1>9 DEF next, x

LEMMA PendingInv ==
    ASSUME IInv, NEW m \in Members, member[m].status = "running",
           NEW self, Good(m, self),
           self.is_sponsor => self.member_id < member_count[Service(m)],
           ProcessPendingRequest(m, self)
    PROVE  IInv' /\ Advances(m)
<1>1. Service(m) \in Services /\ self.member_id \in Nat
  BY ServiceTypes, GoodMember DEF CoreTypes
<1>2. CASE Become(m, self, {}) /\ ~ self.is_sponsor
  BY <1>2, BecomeGood
<1>3. CASE Become(m, Await(self, "predecessors"), {InfoRequest(m, UnknownPredecessors(self))})
  <2> DEFINE next == Await(self, "predecessors")
             msg == InfoRequest(m, UnknownPredecessors(self))
  <2>1. Good(m, next) /\ SameCore(self, next)
    <3>1. "predecessors" \in Waits \ {"request", "info", "synch_info"}
      BY DEF Waits, Cyclic
    <3> QED
      BY <3>1, GoodAwait
  <2>2. UnknownPredecessors(self) \in SUBSET MemberIds
    BY <1>1 DEF UnknownPredecessors, MemberIds, DEFAULT_MEMBER_ID
  <2>3. Truthful(m, next, msg)
    BY <1>1, <2>2 DEF Truthful, InfoRequest, Messages
  <2> HIDE DEF next, msg
  <2> QED
    BY <1>3, <2>1, <2>3, BecomeGood DEF next, msg, SameCore, SameKeys
<1>4. CASE Become(m, Await([self EXCEPT !.pending_requests = {}], "offer"), {Offer(m)})
  <2> DEFINE mid == [self EXCEPT !.pending_requests = {}]
             next == Await(mid, "offer")
  <2>1. /\ Good(m, mid)
        /\ mid.is_sponsor = self.is_sponsor
        /\ mid.member_id = self.member_id
    BY GoodPending
  <2> HIDE DEF mid
  <2>2. Good(m, next) /\ SameCore(mid, next)
    <3>1. "offer" \in Waits \ {"request", "info", "synch_info"}
      BY DEF Waits, Cyclic
    <3> QED
      BY <2>1, <3>1, GoodAwait
  <2>3. Truthful(m, next, Offer(m))
    BY <1>1 DEF Truthful, Offer, Messages
  <2> HIDE DEF next
  <2> QED
    BY <1>4, <2>1, <2>2, <2>3, BecomeGood DEF next, mid, SameCore, SameKeys
<1>5. CASE /\ self.is_sponsor
           /\ AllPredecessorsKnown(self)
           /\ \E e \in Unassigned(self) : Admit(m, self, e)
  <2>1. PICK e \in Unassigned(self) : Admit(m, self, e)
    BY <1>5
  <2> DEFINE mid == Admitted(m, self, e)
             next == Await(mid, "response")
             x == Response(m, self, e)
  <2>2. /\ Good(m, mid)
        /\ mid.is_sponsor = FALSE
        /\ mid.response_message_cache = {x}
        /\ x \in Assignments
    BY <1>5, GoodAdmitted
  <2>3. Become(m, next, {x})
    BY <2>1 DEF Admit, Admitted
  <2>4. x.from = m /\ x.service = Service(m)
    BY DEF Response
  <2> HIDE DEF mid, x
  <2>5. Good(m, next) /\ SameCore(mid, next)
    <3>1. "response" \in Waits \ {"request", "info", "synch_info"}
      BY DEF Waits, Cyclic
    <3> QED
      BY <2>2, <3>1, GoodAwait
  <2> HIDE DEF next
  <2>6. x \in next.response_message_cache /\ next.is_sponsor = FALSE
    BY <2>2, <2>5 DEF SameCore
  <2>7. Truthful(m, next, x)
    <3>1. x \in Messages /\ x.type = "response"
      BY <2>2 DEF Assignments, Messages
    <3> QED
      BY <2>4, <2>6, <3>1 DEF Truthful
  <2> QED
    BY <2>3, <2>5, <2>6, <2>7, BecomeGood
<1> QED
  BY <1>2, <1>3, <1>4, <1>5 DEF ProcessPendingRequest

-----------------------------------------------------------------------------
(***************************************************************************)
(* The last member gives up the role when it starts the synch token.       *)
(***************************************************************************)
LEMMA ResignInv ==
    ASSUME NEW mem, Inv(mem), NEW m \in Members, mem[m].status = "running",
           IsLastMember(m, mem[m]), NEW self, SameKeys(mem[m], self),
           self.status = mem[m].status,
           self.is_sponsor = FALSE,
           self.blinded_group_secret = mem[m].blinded_group_secret,
           self.pending_requests = mem[m].pending_requests,
           self.response_message_cache = mem[m].response_message_cache
    PROVE  /\ Inv([mem EXCEPT ![m] = self])
           /\ History([mem EXCEPT ![m] = self]) = History(mem)
<1> DEFINE next == [mem EXCEPT ![m] = self]
<1>1. /\ next \in [Members -> {next[n] : n \in Members}]
      /\ next[m] = self
      /\ \A n \in Members : n # m => next[n] = mem[n]
  BY Updated DEF Inv
<1> HIDE DEF next
<1>2. History(next) = History(mem)
  BY <1>1, HistorySame
<1>3. MemberOK(History(mem), m, self)
  <2>1. MemberOK(History(mem), m, mem[m])
    BY DEF Inv
  <2>2. CoreTypes(self)
    BY <2>1 DEF SameKeys, MemberOK, CoreTypes
  <2>3. MapsOK(History(mem), m, self) /\ PendingOK(m, self)
    BY <2>1 DEF SameKeys, MemberOK, MapsOK, PendingOK
  <2>4. Backed(History(mem), Service(m), self.group_secret)
    BY <2>1 DEF SameKeys, MemberOK
  <2>5. CountOK(m, self) /\ SponsorOK(self) /\ StoppedOK(m, self) /\ CacheOK(m, self)
    BY <2>1 DEF SameKeys, MemberOK, CountOK, SponsorOK, StoppedOK, CacheOK, IsAssigned,
                LastKeyId
  <2> QED
    BY <2>2, <2>3, <2>4, <2>5 DEF MemberOK
<1>4. \A n \in Members : MemberOK(History(next), n, next[n])
  BY <1>1, <1>2, <1>3 DEF Inv
<1>5. \A n \in Members : /\ next[n].is_sponsor => mem[n].is_sponsor
                         /\ next[n].member_id = mem[n].member_id
                         /\ n # m => (next[n].is_sponsor <=> mem[n].is_sponsor)
  BY <1>1 DEF SameKeys
<1>6. \A s \in Services : next[founder[s]].status = "down" <=> mem[founder[s]].status = "down"
  BY <1>1, ServiceTypes
<1>7. \A x \in History(mem) : x.new_sponsor \in Members
  BY DEF Inv, HistoryOK, AssignmentOK, Assignments
<1>8. ASSUME NEW s \in Services
      PROVE  /\ FounderFirst(next, s)
             /\ OneSponsor(next, s)
             /\ SponsorHighest(next, s)
             /\ TransitHighest(next, s)
             /\ BatonSomewhere(next, s)
  <2>1. /\ FounderFirst(mem, s)
        /\ OneSponsor(mem, s)
        /\ SponsorHighest(mem, s)
        /\ TransitHighest(mem, s)
        /\ BatonSomewhere(mem, s)
    BY DEF Inv, BatonOK
  <2>2. \A n : /\ IsSponsor(next, s, n) => IsSponsor(mem, s, n)
               /\ IsLast(next, s, n) <=> IsLast(mem, s, n)
               /\ n # m => (IsSponsor(next, s, n) <=> IsSponsor(mem, s, n))
    BY <1>5 DEF IsSponsor, IsLast
  <2>3. \A x : OnItsWay(next, s, x) <=> OnItsWay(mem, s, x)
    BY <1>2, <1>5, <1>7 DEF OnItsWay, IsAssigned
  <2>4. FounderFirst(next, s)
    BY <1>2, <1>6, <2>1 DEF FounderFirst
  <2>5. OneSponsor(next, s)
    BY <2>1, <2>2 DEF OneSponsor
  <2>6. SponsorHighest(next, s)
    BY <1>2, <1>5, <2>1, <2>2 DEF SponsorHighest
  <2>7. TransitHighest(next, s)
    BY <1>2, <2>1, <2>2, <2>3 DEF TransitHighest
  <2>8. BatonSomewhere(next, s)
    <3>1. CASE s = Service(m)
      <4>1. IsLast(next, s, m)
        BY <2>2, <3>1 DEF IsLast, IsLastMember
      <4> QED
        BY <4>1 DEF BatonSomewhere
    <3>2. CASE s # Service(m)
      <4>1. \A n : IsSponsor(next, s, n) <=> IsSponsor(mem, s, n)
        BY <2>2, <3>2 DEF IsSponsor
      <4> QED
        BY <1>2, <1>6, <2>1, <2>2, <2>3, <4>1 DEF BatonSomewhere
    <3> QED
      BY <3>1, <3>2
  <2> QED
    BY <2>4, <2>5, <2>6, <2>7, <2>8
<1>9. HistoryOK(History(next))
  BY <1>2 DEF Inv
<1>10. Inv(next)
  BY <1>1, <1>4, <1>8, <1>9 DEF Inv, BatonOK
<1> QED
  BY <1>2, <1>10 DEF next

LEMMA GoodStartSynch ==
    ASSUME IInv, NEW m \in Members, NEW self, Good(m, self), IsLastMember(m, self)
    PROVE  LET next == StartSynchToken(m, self)
           IN  /\ Good(m, next)
               /\ next.is_sponsor = FALSE
               /\ next.member_id = self.member_id
<1> DEFINE mem == [member EXCEPT ![m] = self]
           mid == [self EXCEPT
                      !.last_member_synch_token_sending_triggered = TRUE,
                      !.is_sponsor = FALSE,
                      !.synch_finished = TRUE,
                      !.higher_member_id_assigned = TRUE]
           next == Await(mid, "token")
<1>1. /\ Inv(mem)
      /\ mem[m] = self
      /\ self.status = "running"
      /\ DOMAIN self = Fields
      /\ self.group_secret \in Seq(Members)
      /\ TimersOK(self)
  BY GoodMember DEF Good
<1>2. /\ SameKeys(self, mid)
      /\ mid.status = self.status
      /\ mid.is_sponsor = FALSE
      /\ mid.blinded_group_secret = self.blinded_group_secret
      /\ mid.pending_requests = self.pending_requests
      /\ mid.response_message_cache = self.response_message_cache
      /\ SameTimers(self, mid)
  BY <1>1 DEF SameKeys, SameTimers, Fields
<1> HIDE DEF mem, mid
<1>3. Inv([mem EXCEPT ![m] = mid])
  BY <1>1, <1>2, ResignInv
<1>4. IsAssigned(self)
  BY DEF IsLastMember
<1>5. IsAssigned(mid)
  BY <1>2, <1>4 DEF IsAssigned, SameKeys
<1>6. Stable(self, mid)
  BY <1>1, <1>2, StableSame DEF SameKeys
<1>7. TimersOK(mid) /\ TriggeredOK(mid)
  BY <1>1, <1>2, <1>5, SameTimersOK DEF TriggeredOK
<1>8. Good(m, mid)
  BY <1>1, <1>2, <1>3, <1>6, <1>7, GoodNext DEF mem
<1>9. Good(m, next) /\ SameCore(mid, next)
  <2>1. "token" \in Waits \ {"request", "info", "synch_info"}
    BY DEF Waits, Cyclic
  <2> QED
    BY <1>8, <2>1, GoodAwait
<1>10. next = StartSynchToken(m, self)
  BY DEF StartSynchToken, mid
<1> HIDE DEF next
<1> QED
  BY <1>2, <1>9, <1>10 DEF SameCore, SameKeys

-----------------------------------------------------------------------------
(***************************************************************************)
(* A handler that may end the member.                                      *)
(***************************************************************************)
LEMMA EndInv ==
    ASSUME IInv, NEW m \in Members, member[m].status = "running",
           NEW self, Good(m, self), NEW next,
           MemberOK(History([member EXCEPT ![m] = self]), m, next),
           next.status # "down",
           next.is_sponsor = self.is_sponsor,
           next.member_id = self.member_id,
           next.group_secret = self.group_secret,
           next.response_message_cache = self.response_message_cache,
           SameTimers(self, next),
           next.last_member_synch_token_sending_triggered
               = self.last_member_synch_token_sending_triggered,
           self.is_sponsor => self.member_id < member_count[Service(m)],
           NEW msgs, \A msg \in msgs : Truthful(m, self, msg),
           Become(m, next, msgs)
    PROVE  IInv' /\ Advances(m)
<1> DEFINE mem == [member EXCEPT ![m] = self]
<1>1. /\ Inv(mem)
      /\ mem[m] = self
      /\ self.status = "running"
      /\ self.group_secret \in Seq(Members)
      /\ member[m].group_secret \in Seq(Members)
      /\ TimersOK(self)
      /\ TriggeredOK(self)
      /\ Stable(member[m], self)
  BY GoodMember DEF Good
<1>2. Inv([mem EXCEPT ![m] = next])
  <2> HIDE DEF mem
  <2>1. MemberOK(History(mem), m, next)
    BY DEF mem
  <2> QED
    BY <1>1, <2>1, LocalChange
<1>3. Inv([member EXCEPT ![m] = next])
  BY <1>2, ChangeTwice
<1>4. Stable(self, next)
  BY <1>1, StableSame
<1>5. next.group_secret \in Seq(Members)
  BY <1>1
<1>6. Stable(member[m], next)
  BY <1>1, <1>4, <1>5, StableTrans
<1>7. IsAssigned(self) <=> IsAssigned(next)
  BY DEF IsAssigned
<1>8. TimersOK(next) /\ TriggeredOK(next)
  BY <1>1, <1>7, SameTimersOK DEF TriggeredOK
<1>9. \A msg \in msgs : Truthful(m, next, msg)
  BY <1>4, TruthfulKept
<1> HIDE DEF mem
<1> QED
  BY <1>3, <1>6, <1>8, <1>9, BecomeInv

LEMMA DoneInv ==
    ASSUME IInv, NEW m \in Members, member[m].status = "running",
           NEW self, Good(m, self),
           self.is_sponsor => self.member_id < member_count[Service(m)],
           Become(m, Done(m, self), {})
    PROVE  IInv' /\ Advances(m)
<1> DEFINE mid == Cancel(self)
           next == ContributeStatistics(m, mid)
<1>1. Good(m, mid) /\ SameCore(self, mid)
  <2>1. "none" \in Waits \ {"request", "info", "synch_info"}
    BY DEF Waits
  <2> QED
    BY <2>1, GoodAwait DEF Cancel
<1>2. Become(m, next, {})
  BY DEF Done
<1> HIDE DEF mid
<1>3. /\ mid.status = "running"
      /\ DOMAIN mid = Fields
      /\ MemberOK(History([member EXCEPT ![m] = mid]), m, mid)
      /\ mid.is_sponsor => mid.member_id < member_count[Service(m)]
  BY <1>1, GoodMember DEF Good, SameCore, SameKeys
<1>4. /\ SameTimers(mid, next)
      /\ next.last_member_synch_token_sending_triggered
            = mid.last_member_synch_token_sending_triggered
  BY <1>3 DEF ContributeStatistics, SameTimers, Fields
<1>5. /\ MemberOK(History([member EXCEPT ![m] = mid]), m, next)
      /\ SameKeys(mid, next)
      /\ next.is_sponsor = mid.is_sponsor
      /\ next.status \in {"running", "stopped"}
      /\ next.response_message_cache = mid.response_message_cache
  BY <1>3, ContributeOK
<1> HIDE DEF next
<1>6. /\ next.status # "down"
      /\ next.member_id = mid.member_id
      /\ next.group_secret = mid.group_secret
  BY <1>5 DEF SameKeys
<1> QED
  BY <1>1, <1>2, <1>3, <1>4, <1>5, <1>6, EndInv

\* The exception of record_timestamp may end the member.
LEMMA RecordInv ==
    ASSUME IInv, NEW m \in Members, member[m].status = "running",
           NEW self, Good(m, self), NEW next, SameKeys(self, next),
           next.status \in {"running", "crashed"},
           next.is_sponsor = self.is_sponsor,
           next.blinded_group_secret = self.blinded_group_secret,
           next.pending_requests = self.pending_requests,
           next.response_message_cache = self.response_message_cache,
           SameTimers(self, next),
           next.last_member_synch_token_sending_triggered
               = self.last_member_synch_token_sending_triggered,
           self.is_sponsor => self.member_id < member_count[Service(m)],
           NEW msgs, \A msg \in msgs : Truthful(m, self, msg),
           Become(m, next, msgs)
    PROVE  IInv' /\ Advances(m)
<1> DEFINE H == History([member EXCEPT ![m] = self])
<1>1. MemberOK(H, m, self)
  BY GoodMember
<1> HIDE DEF H
<1>2. CoreTypes(next)
  BY <1>1 DEF SameKeys, MemberOK, CoreTypes
<1>3. MapsOK(H, m, next) /\ PendingOK(m, next) /\ Backed(H, Service(m), next.group_secret)
  BY <1>1 DEF SameKeys, MemberOK, MapsOK, PendingOK
<1>4. CountOK(m, next) /\ SponsorOK(next) /\ StoppedOK(m, next) /\ CacheOK(m, next)
  BY <1>1 DEF SameKeys, MemberOK, CountOK, SponsorOK, StoppedOK, CacheOK, IsAssigned, LastKeyId
<1>5. MemberOK(H, m, next)
  BY <1>2, <1>3, <1>4 DEF MemberOK
<1>6. /\ next.status # "down"
      /\ next.member_id = self.member_id
      /\ next.group_secret = self.group_secret
  BY DEF SameKeys
<1> QED
  BY <1>5, <1>6, EndInv DEF H

-----------------------------------------------------------------------------
(***************************************************************************)
(* The handlers of messages.                                               *)
(***************************************************************************)
LEMMA Received ==
    ASSUME IInv, NEW n \in Members, NEW msg \in net[n]
    PROVE  Truthful(n, member[n], msg) /\ msg.from = n
BY DEF IInv, NetOK, Truthful

LEMMA RoomKept ==
    ASSUME IInv, NEW m \in Members, NEW self,
           self.is_sponsor = member[m].is_sponsor,
           self.member_id = member[m].member_id
    PROVE  self.is_sponsor => self.member_id < member_count[Service(m)]
BY DEF IInv, Room

LEMMA GoodCheck ==
    ASSUME IInv, NEW m \in Members, member[m].status = "running", NEW n
    PROVE  LET next == CheckIfHigherMemberIdAssigned(m, member[m], n)
           IN  /\ Good(m, next)
               /\ SameCore(member[m], next)
<1> DEFINE self == member[m]
           next == CheckIfHigherMemberIdAssigned(m, self, n)
<1>1. Good(m, self)
  BY GoodStart
<1>2. DOMAIN self = Fields
  BY <1>1, GoodMember
<1> HIDE DEF self
<1>3. /\ SameCore(self, next)
      /\ SameTimers(self, next)
      /\ next.last_member_synch_token_sending_triggered
            = self.last_member_synch_token_sending_triggered
  BY <1>2 DEF CheckIfHigherMemberIdAssigned, SameCore, SameKeys, SameTimers, Fields
<1> HIDE DEF next
<1>4. Good(m, next)
  BY <1>1, <1>3, GoodFlags
<1> QED
  BY <1>3, <1>4 DEF next, self

LEMMA OfferInv ==
    ASSUME IInv, NEW m \in Members, member[m].status = "running", NEW msg,
           ProcessOffer(m, msg)
    PROVE  IInv' /\ Advances(m)
<1> DEFINE self == CheckIfHigherMemberIdAssigned(m, member[m], msg.from)
           next == Await([self EXCEPT !.request_scheduled = TRUE], "request")
<1>1. Good(m, self) /\ SameCore(member[m], self)
  BY GoodCheck
<1>2. self.is_sponsor => self.member_id < member_count[Service(m)]
  BY <1>1, RoomKept DEF SameCore, SameKeys
<1>3. \/ Become(m, next, {}) /\ ~ self.request_scheduled
      \/ Become(m, self, {})
  BY DEF ProcessOffer
<1> HIDE DEF self
<1>4. CASE Become(m, self, {})
  BY <1>1, <1>2, <1>4, BecomeGood
<1>5. CASE Become(m, next, {}) /\ ~ self.request_scheduled
  <2>1. Good(m, next) /\ SameCore(self, next)
    BY <1>1, <1>5, GoodRequest
  <2> HIDE DEF next
  <2> QED
    BY <1>2, <1>5, <2>1, BecomeGood DEF SameCore, SameKeys
<1> QED
  BY <1>3, <1>4, <1>5

LEMMA RequestInv ==
    ASSUME IInv, NEW m \in Members, member[m].status = "running",
           NEW n \in Members \ {m}, NEW msg \in net[n], ProcessRequest(m, msg)
    PROVE  IInv' /\ Advances(m)
<1> DEFINE old == member[m]
           noted == NoteRequest(m, old, msg)
           recorded == RecordTimestamp(noted, "KEY_AGREEMENT_START")
<1>1. msg.from = n /\ (msg.type = "request" => msg.service = Service(n))
  BY Received DEF Truthful
<1>2. Good(m, old)
  BY GoodStart
<1>3. /\ Good(m, noted)
      /\ noted.is_sponsor = old.is_sponsor
      /\ noted.member_id = old.member_id
  <2> DEFINE set == old.pending_requests \cup {n}
  <2>1. CASE noted = old
    BY <1>2, <2>1
  <2>2. CASE noted = [old EXCEPT !.pending_requests = set] /\ msg.service = Service(m)
    <3>1. \A e \in set : e \in Members /\ e # m /\ Service(e) = Service(m)
      <4>1. MemberOK(History(member), m, old)
        BY DEF IInv, Inv
      <4> QED
        BY <1>1, <2>2, <4>1 DEF MemberOK, CoreTypes, PendingOK, ProcessRequest
    <3> HIDE DEF old, set, noted
    <3> QED
      BY <1>2, <2>2, <3>1, GoodPending
  <2> QED
    BY <1>1, <2>1, <2>2 DEF NoteRequest
<1>4. noted.is_sponsor => noted.member_id < member_count[Service(m)]
  BY <1>3, RoomKept
<1>5. DOMAIN noted = Fields /\ noted.status = "running"
  BY <1>3, GoodMember DEF Good
<1>6. \/ /\ recorded.status = "crashed"
         /\ Become(m, recorded, {})
      \/ /\ recorded.status # "crashed"
         /\ ProcessPendingRequest(m, recorded)
      \/ ProcessPendingRequest(m, noted)
  BY <1>5 DEF ProcessRequest
<1> HIDE DEF noted
<1>7. /\ SameKeys(noted, recorded)
      /\ recorded.status \in {"running", "crashed"}
      /\ recorded.is_sponsor = noted.is_sponsor
      /\ recorded.blinded_group_secret = noted.blinded_group_secret
      /\ recorded.pending_requests = noted.pending_requests
      /\ recorded.response_message_cache = noted.response_message_cache
      /\ SameTimers(noted, recorded)
      /\ recorded.last_member_synch_token_sending_triggered
            = noted.last_member_synch_token_sending_triggered
  BY <1>5 DEF RecordTimestamp, SameKeys, SameTimers, Fields
<1> HIDE DEF recorded
<1>8. CASE Become(m, recorded, {})
  BY <1>3, <1>4, <1>7, <1>8, RecordInv
<1>9. CASE recorded.status # "crashed" /\ ProcessPendingRequest(m, recorded)
  <2>1. SameCore(noted, recorded)
    BY <1>5, <1>7, <1>9 DEF SameCore
  <2>2. Good(m, recorded)
    BY <1>3, <1>7, <2>1, GoodFlags
  <2> QED
    BY <1>4, <1>7, <1>9, <2>2, PendingInv DEF SameKeys
<1>10. CASE ProcessPendingRequest(m, noted)
  BY <1>3, <1>4, <1>10, PendingInv
<1> QED
  BY <1>6, <1>8, <1>9, <1>10

LEMMA TokenTruthful ==
    ASSUME NEW m \in Members, NEW old, old.member_id \in Nat, NEW self
    PROVE  Truthful(m, self, SynchToken(m, old))
<1> DEFINE msg == SynchToken(m, old)
<1>1. msg.type = "synch_token" /\ msg.from = m
  BY DEF SynchToken
<1>2. msg \in [type : {"synch_token"}, from : Members, member_id : MemberIds]
  BY DEF SynchToken, MemberIds, DEFAULT_MEMBER_ID
<1>3. msg \in Messages
  BY <1>2 DEF Messages
<1> HIDE DEF msg
<1>4. Truthful(m, self, msg)
  BY <1>1, <1>3 DEF Truthful
<1> QED
  BY <1>4 DEF msg

LEMMA ResponseInv ==
    ASSUME IInv, NEW m \in Members, member[m].status = "running",
           NEW n \in Members \ {m}, NEW msg \in net[n], ProcessResponse(m, msg)
    PROVE  IInv' /\ Advances(m)
<1> DEFINE old == member[m]
           self == AfterResponse(m, old, msg)
<1>1. msg \in History(member)
  BY ResponseKnown DEF ProcessResponse
<1>2. /\ Good(m, self)
      /\ IsAssigned(old) => self.is_sponsor = old.is_sponsor /\ self.member_id = old.member_id
      /\ self.last_member_synch_token_sending_triggered
            = old.last_member_synch_token_sending_triggered
  BY <1>1, GoodAfterResponse
<1>3. \/ /\ IsLastMember(m, self)
         /\ self.last_member_synch_token_sending_triggered
         /\ Become(m, self, {})
      \/ /\ IsLastMember(m, self)
         /\ Become(m, StartSynchToken(m, self), {SynchToken(m, self)})
      \/ /\ ~ IsLastMember(m, self)
         /\ \E next \in CheckAndAddNextBlindedKeys(self) : ProcessPendingRequest(m, next)
  BY DEF ProcessResponse
<1> HIDE DEF self
<1>4. CASE self.last_member_synch_token_sending_triggered /\ Become(m, self, {})
  <2>1. IsAssigned(old)
    BY <1>2, <1>4 DEF IInv, TriggeredOK
  <2>2. self.is_sponsor => self.member_id < member_count[Service(m)]
    BY <1>2, <2>1, RoomKept
  <2> QED
    BY <1>2, <1>4, <2>2, BecomeGood
<1>5. CASE /\ IsLastMember(m, self)
           /\ Become(m, StartSynchToken(m, self), {SynchToken(m, self)})
  <2> DEFINE next == StartSynchToken(m, self)
             token == SynchToken(m, self)
  <2>1. Good(m, next) /\ next.is_sponsor = FALSE
    BY <1>2, <1>5, GoodStartSynch
  <2>2. self.member_id \in Nat
    BY <1>2, GoodMember DEF CoreTypes
  <2>3. Truthful(m, next, token)
    BY <2>2, TokenTruthful
  <2> HIDE DEF next, token
  <2> QED
    BY <1>5, <2>1, <2>3, BecomeGood DEF next, token
<1>6. CASE /\ ~ IsLastMember(m, self)
           /\ \E next \in CheckAndAddNextBlindedKeys(self) : ProcessPendingRequest(m, next)
  <2>1. PICK next \in CheckAndAddNextBlindedKeys(self) : ProcessPendingRequest(m, next)
    BY <1>6
  <2>2. /\ Good(m, next)
        /\ next.member_id = self.member_id
    BY <1>2, GoodAddKeys
  <2>3. ~ IsLastMember(m, next)
    BY <1>6, <2>2 DEF IsLastMember, IsAssigned
  <2>4. next.is_sponsor => next.member_id < member_count[Service(m)]
    BY <2>2, <2>3, GoodRoom
  <2> QED
    BY <2>1, <2>2, <2>4, PendingInv
<1> QED
  BY <1>3, <1>4, <1>5, <1>6

LEMMA ScheduleInv ==
    ASSUME IInv, NEW m \in Members, member[m].status = "running",
           NEW self, Good(m, self), SameCore(member[m], self),
           NEW msg, NEW h \in {"info", "synch_info"},
           Become(m, ScheduleResponse(m, self, msg, h), {})
    PROVE  IInv' /\ Advances(m)
<1> DEFINE next == Await([self EXCEPT !.response_scheduled = TRUE], h)
<1>1. self.is_sponsor => self.member_id < member_count[Service(m)]
  BY RoomKept DEF SameCore, SameKeys
<1>2. \/ Become(m, next, {}) /\ ~ self.response_scheduled /\ IsAssigned(self)
      \/ Become(m, self, {})
  BY DEF ScheduleResponse
<1>3. CASE Become(m, self, {})
  BY <1>1, <1>3, BecomeGood
<1>4. CASE Become(m, next, {}) /\ ~ self.response_scheduled /\ IsAssigned(self)
  <2>1. Good(m, next) /\ SameCore(self, next)
    BY <1>4, GoodAnswer
  <2> HIDE DEF next
  <2> QED
    BY <1>1, <1>4, <2>1, BecomeGood DEF SameCore, SameKeys
<1> QED
  BY <1>2, <1>3, <1>4

LEMMA InfoRequestInv ==
    ASSUME IInv, NEW m \in Members, member[m].status = "running", NEW msg,
           ProcessMemberInfoRequest(m, msg)
    PROVE  IInv' /\ Advances(m)
<1> DEFINE self == CheckIfHigherMemberIdAssigned(m, member[m], msg.from)
<1>1. Good(m, self) /\ SameCore(member[m], self)
  BY GoodCheck
<1>2. Become(m, ScheduleResponse(m, self, msg, "info"), {})
  BY DEF ProcessMemberInfoRequest
<1> HIDE DEF self
<1> QED
  BY <1>1, <1>2, ScheduleInv

LEMMA SynchRequestInv ==
    ASSUME IInv, NEW m \in Members, member[m].status = "running", NEW msg,
           ProcessMemberInfoSynchRequest(m, msg)
    PROVE  IInv' /\ Advances(m)
<1> DEFINE old == member[m]
           self == [old EXCEPT
                      !.higher_member_id_assigned = TRUE,
                      !.higher_member_id_synching = @ \/ KnownLater(m, old, msg.from)]
<1>1. Good(m, old)
  BY GoodStart
<1>2. DOMAIN old = Fields
  BY <1>1, GoodMember
<1>3. Become(m, ScheduleResponse(m, self, msg, "synch_info"), {})
  BY DEF ProcessMemberInfoSynchRequest
<1> HIDE DEF old
<1>4. /\ SameCore(old, self)
      /\ SameTimers(old, self)
      /\ self.last_member_synch_token_sending_triggered
            = old.last_member_synch_token_sending_triggered
  BY <1>2 DEF SameCore, SameKeys, SameTimers, Fields
<1> HIDE DEF self
<1>5. Good(m, self)
  BY <1>1, <1>4, GoodFlags
<1> QED
  BY <1>3, <1>4, <1>5, ScheduleInv DEF old

\* A handler that changes what the invariant does not see, and waits.
LEMMA AwaitInv ==
    ASSUME IInv, NEW m \in Members, member[m].status = "running",
           NEW self, Good(m, self),
           self.is_sponsor => self.member_id < member_count[Service(m)],
           NEW h \in Waits \ {"request", "info", "synch_info"},
           NEW msgs, \A msg \in msgs : Truthful(m, self, msg),
           Become(m, Await(self, h), msgs)
    PROVE  IInv' /\ Advances(m)
<1> DEFINE next == Await(self, h)
<1>1. Good(m, next) /\ SameCore(self, next)
  BY GoodAwait
<1> HIDE DEF next
<1>2. /\ next.is_sponsor = self.is_sponsor
      /\ next.member_id = self.member_id
      /\ next.response_message_cache = self.response_message_cache
  BY <1>1 DEF SameCore, SameKeys
<1>3. \A msg \in msgs : Truthful(m, next, msg)
  BY <1>2 DEF Truthful, IsAssigned
<1> QED
  BY <1>1, <1>2, <1>3, BecomeGood DEF next

LEMMA PassInv ==
    ASSUME IInv, NEW m \in Members, member[m].status = "running",
           NEW self, Good(m, self),
           self.is_sponsor => self.member_id < member_count[Service(m)],
           PassSynchToken(m, self)
    PROVE  IInv' /\ Advances(m)
<1> DEFINE mid == [self EXCEPT !.synch_finished = TRUE]
           token == SynchToken(m, self)
<1>1. DOMAIN self = Fields /\ self.member_id \in Nat
  BY GoodMember DEF CoreTypes
<1>2. /\ SameCore(self, mid)
      /\ SameTimers(self, mid)
      /\ mid.last_member_synch_token_sending_triggered
            = self.last_member_synch_token_sending_triggered
  BY <1>1 DEF SameCore, SameKeys, SameTimers, Fields
<1>3. Become(m, Await(mid, "token"), {token})
  BY DEF PassSynchToken
<1>4. Truthful(m, mid, token)
  BY <1>1, TokenTruthful
<1> HIDE DEF mid, token
<1>5. Good(m, mid)
  BY <1>2, GoodFlags
<1>6. mid.is_sponsor => mid.member_id < member_count[Service(m)]
  BY <1>2 DEF SameCore, SameKeys
<1>7. "token" \in Waits \ {"request", "info", "synch_info"}
  BY DEF Waits, Cyclic
<1> QED
  BY <1>3, <1>4, <1>5, <1>6, <1>7, AwaitInv

LEMMA InfoResponseInv ==
    ASSUME IInv, NEW m \in Members, member[m].status = "running",
           NEW n \in Members \ {m}, NEW msg \in net[n], ProcessMemberInfoResponse(m, msg)
    PROVE  IInv' /\ Advances(m)
<1>1. PICK self \in LearnInfo(m, member[m], msg) :
          IF self.is_sponsor /\ AllPredecessorsKnown(self)
          THEN ProcessPendingRequest(m, self)
          ELSE Become(m, self, {})
  BY DEF ProcessMemberInfoResponse
<1>2. /\ Good(m, self)
      /\ self.is_sponsor = member[m].is_sponsor
      /\ self.member_id = member[m].member_id
  BY GoodLearnInfo DEF ProcessMemberInfoResponse
<1>3. self.is_sponsor => self.member_id < member_count[Service(m)]
  BY <1>2, RoomKept
<1> QED
  BY <1>1, <1>2, <1>3, PendingInv, BecomeGood

LEMMA SynchResponseInv ==
    ASSUME IInv, NEW m \in Members, member[m].status = "running",
           NEW n \in Members \ {m}, NEW msg \in net[n],
           ProcessMemberInfoSynchResponse(m, msg)
    PROVE  IInv' /\ Advances(m)
<1>1. PICK next \in LearnInfo(m, member[m], msg) :
          LET self == [next EXCEPT !.higher_member_id_assigned = TRUE]
          IN  IF /\ AllSuccessorsKnown(m, self)
                 /\ ~ self.synch_finished
                 /\ self.synch_token_rcvd
              THEN PassSynchToken(m, self)
              ELSE Become(m, self, {})
  BY DEF ProcessMemberInfoSynchResponse
<1> DEFINE self == [next EXCEPT !.higher_member_id_assigned = TRUE]
<1>2. /\ Good(m, next)
      /\ next.is_sponsor = member[m].is_sponsor
      /\ next.member_id = member[m].member_id
  BY GoodLearnInfo DEF ProcessMemberInfoSynchResponse
<1>3. next.is_sponsor => next.member_id < member_count[Service(m)]
  BY <1>2, RoomKept
<1>4. DOMAIN next = Fields
  BY <1>2, GoodMember
<1>5. /\ SameCore(next, self)
      /\ SameTimers(next, self)
      /\ self.last_member_synch_token_sending_triggered
            = next.last_member_synch_token_sending_triggered
  BY <1>4 DEF SameCore, SameKeys, SameTimers, Fields
<1>6. PassSynchToken(m, self) \/ Become(m, self, {})
  BY <1>1
<1> HIDE DEF self
<1>7. Good(m, self)
  BY <1>2, <1>5, GoodFlags
<1>8. self.is_sponsor => self.member_id < member_count[Service(m)]
  BY <1>3, <1>5 DEF SameCore, SameKeys
<1> QED
  BY <1>6, <1>7, <1>8, PassInv, BecomeGood

LEMMA SynchTokenInv ==
    ASSUME IInv, NEW m \in Members, member[m].status = "running", NEW msg,
           ProcessSynchToken(m, msg)
    PROVE  IInv' /\ Advances(m)
<1> DEFINE old == member[m]
           self == [old EXCEPT
                      !.higher_member_id_assigned = TRUE,
                      !.higher_member_id_synching = @ \/ msg.member_id > Rank(m, old)]
           next == [self EXCEPT !.synch_token_rcvd = TRUE]
<1>1. Good(m, old)
  BY GoodStart
<1>2. DOMAIN old = Fields
  BY <1>1, GoodMember
<1>3. TakeSynchToken(m, self) \/ Become(m, self, {})
  BY DEF ProcessSynchToken
<1> HIDE DEF old
<1>4. /\ SameCore(old, self)
      /\ SameTimers(old, self)
      /\ self.last_member_synch_token_sending_triggered
            = old.last_member_synch_token_sending_triggered
      /\ DOMAIN self = Fields
  BY <1>2 DEF SameCore, SameKeys, SameTimers, Fields
<1> HIDE DEF self
<1>5. /\ SameCore(self, next)
      /\ SameTimers(self, next)
      /\ next.last_member_synch_token_sending_triggered
            = self.last_member_synch_token_sending_triggered
  BY <1>4 DEF SameCore, SameKeys, SameTimers, Fields
<1>6. \/ Become(m, Await(next, "finish"), {Finish(m)})
      \/ PassSynchToken(m, next)
      \/ Become(m, Await(next, "successors"), {SynchRequest(m, UnknownSuccessors(m, self))})
      \/ Become(m, self, {})
  BY <1>3 DEF TakeSynchToken
<1> HIDE DEF next
<1>7. Good(m, self)
  BY <1>1, <1>4, GoodFlags
<1>8. Good(m, next)
  BY <1>5, <1>7, GoodFlags
<1>9. self.is_sponsor => self.member_id < member_count[Service(m)]
  BY <1>4, RoomKept DEF SameCore, SameKeys, old
<1>10. next.is_sponsor => next.member_id < member_count[Service(m)]
  BY <1>5, <1>9 DEF SameCore, SameKeys
<1>11. Truthful(m, next, Finish(m))
  BY DEF Truthful, Finish, Messages
<1>12. Truthful(m, next, SynchRequest(m, UnknownSuccessors(m, self)))
  <2>1. self.member_id \in Nat /\ Service(m) \in Services /\ member_count[Service(m)] \in Nat
    BY <1>7, ServiceTypes, GoodMember DEF CoreTypes
  <2>2. UnknownSuccessors(m, self) \in SUBSET MemberIds
    BY <2>1 DEF UnknownSuccessors, MemberIds, DEFAULT_MEMBER_ID
  <2> QED
    BY <2>1, <2>2 DEF Truthful, SynchRequest, Messages
<1>13. /\ "finish" \in Waits \ {"request", "info", "synch_info"}
       /\ "successors" \in Waits \ {"request", "info", "synch_info"}
  BY DEF Waits, Cyclic
<1>14. CASE Become(m, Await(next, "finish"), {Finish(m)})
  BY <1>8, <1>10, <1>11, <1>13, <1>14, AwaitInv
<1>15. CASE Become(m, Await(next, "successors"), {SynchRequest(m, UnknownSuccessors(m, self))})
  <2> DEFINE asking == SynchRequest(m, UnknownSuccessors(m, self))
  <2>1. Truthful(m, next, asking) /\ Become(m, Await(next, "successors"), {asking})
    BY <1>12, <1>15
  <2> HIDE DEF asking
  <2> QED
    BY <1>8, <1>10, <1>13, <2>1, AwaitInv
<1> QED
  BY <1>6, <1>7, <1>8, <1>9, <1>10, <1>14, <1>15, PassInv, BecomeGood

\* The founder, which answers a finish, may fail to record its duration.
LEMMA FinishInv ==
    ASSUME IInv, NEW m \in Members, member[m].status = "running", NEW msg,
           ProcessFinish(m, msg)
    PROVE  IInv' /\ Advances(m)
<1> DEFINE old == member[m]
           rcvd == [Finishing(old) EXCEPT !.finish_message_rcvd = TRUE]
           self == IF old.finish_message_rcvd THEN rcvd
                                              ELSE RecordTimestamp(rcvd, "DURATION_END")
           waiting == Await(rcvd, "founder_finish")
           next == [Await(self, "founder_finish") EXCEPT !.timeout_wait = TRUE]
<1>1. Good(m, old)
  BY GoodStart
<1>2. DOMAIN old = Fields /\ old.status = "running"
  BY <1>1, GoodMember
<1>3. \/ Become(m, Done(m, rcvd), {})
      \/ Become(m, self, {})
      \/ Become(m, next, {FinishAck(m), Finish(m)})
  BY DEF ProcessFinish
<1> HIDE DEF old
<1>4. /\ SameCore(old, rcvd)
      /\ SameTimers(old, rcvd)
      /\ rcvd.last_member_synch_token_sending_triggered
            = old.last_member_synch_token_sending_triggered
      /\ DOMAIN rcvd = Fields
      /\ rcvd.status = "running"
  BY <1>2 DEF Finishing, SameCore, SameKeys, SameTimers, Fields
<1> HIDE DEF rcvd
<1>5. /\ SameKeys(rcvd, self)
      /\ self.status \in {"running", "crashed"}
      /\ self.is_sponsor = rcvd.is_sponsor
      /\ self.blinded_group_secret = rcvd.blinded_group_secret
      /\ self.pending_requests = rcvd.pending_requests
      /\ self.response_message_cache = rcvd.response_message_cache
      /\ SameTimers(rcvd, self)
      /\ self.last_member_synch_token_sending_triggered
            = rcvd.last_member_synch_token_sending_triggered
      /\ DOMAIN self = Fields
  BY <1>4 DEF RecordTimestamp, SameKeys, SameTimers, Fields
<1> HIDE DEF self
<1>6. /\ SameKeys(waiting, next)
      /\ next.status = self.status
      /\ next.is_sponsor = waiting.is_sponsor
      /\ next.blinded_group_secret = waiting.blinded_group_secret
      /\ next.pending_requests = waiting.pending_requests
      /\ next.response_message_cache = waiting.response_message_cache
      /\ next.last_member_synch_token_sending_triggered
            = waiting.last_member_synch_token_sending_triggered
  BY <1>4, <1>5 DEF Await, SameKeys, Fields
<1>7. SameTimers(waiting, next)
  <2>1. Aborted(rcvd) = Aborted(self)
    BY <1>5 DEF Aborted, SameTimers
  <2> QED
    BY <1>4, <1>5, <2>1 DEF Await, SameTimers, Fields
<1>8. Good(m, rcvd)
  BY <1>1, <1>4, GoodFlags
<1>9. rcvd.is_sponsor => rcvd.member_id < member_count[Service(m)]
  BY <1>4, RoomKept DEF SameCore, SameKeys, old
<1>10. CASE Become(m, Done(m, rcvd), {})
  BY <1>8, <1>9, <1>10, DoneInv
<1>11. CASE Become(m, self, {})
  BY <1>5, <1>8, <1>9, <1>11, RecordInv
<1>12. CASE Become(m, next, {FinishAck(m), Finish(m)})
  <2>1. Good(m, waiting) /\ SameCore(rcvd, waiting)
    <3>1. "founder_finish" \in Waits \ {"request", "info", "synch_info"}
      BY DEF Waits, Cyclic
    <3> QED
      BY <1>8, <3>1, GoodAwait
  <2> HIDE DEF waiting, next
  <2>2. \A x \in {FinishAck(m), Finish(m)} : Truthful(m, waiting, x)
    BY DEF Truthful, FinishAck, Finish, Messages
  <2>3. waiting.is_sponsor => waiting.member_id < member_count[Service(m)]
    BY <1>9, <2>1 DEF SameCore, SameKeys
  <2>4. next.status \in {"running", "crashed"}
    BY <1>5, <1>6
  <2> QED
    BY <1>6, <1>7, <1>12, <2>1, <2>2, <2>3, <2>4, RecordInv
<1> QED
  BY <1>3, <1>10, <1>11, <1>12

LEMMA FinishAckInv ==
    ASSUME IInv, NEW m \in Members, member[m].status = "running", NEW msg,
           ProcessFinishAck(m, msg)
    PROVE  IInv' /\ Advances(m)
<1> DEFINE old == member[m]
           self == Finishing(old)
<1>1. Good(m, old)
  BY GoodStart
<1>2. DOMAIN old = Fields
  BY <1>1, GoodMember
<1>3. Become(m, Done(m, self), {}) \/ Become(m, self, {})
  BY DEF ProcessFinishAck
<1> HIDE DEF old
<1>4. /\ SameCore(old, self)
      /\ SameTimers(old, self)
      /\ self.last_member_synch_token_sending_triggered
            = old.last_member_synch_token_sending_triggered
  BY <1>2 DEF Finishing, SameCore, SameKeys, SameTimers, Fields
<1> HIDE DEF self
<1>5. Good(m, self)
  BY <1>1, <1>4, GoodFlags
<1>6. self.is_sponsor => self.member_id < member_count[Service(m)]
  BY <1>4, RoomKept DEF SameCore, SameKeys, old
<1> QED
  BY <1>3, <1>5, <1>6, DoneInv, BecomeGood

LEMMA ReceiveInv ==
    ASSUME IInv, NEW m \in Members, NEW type, Receive(m, type)
    PROVE  IInv' /\ Advances(m)
<1>1. PICK n \in Members \ {m} : \E msg \in net[n] : msg.type = type /\ Process(m, msg)
  BY DEF Receive
<1> PICK msg \in net[n] : Process(m, msg)
  BY <1>1
<1>2. member[m].status = "running"
  BY DEF Receive
<1> QED
  BY <1>2, OfferInv, RequestInv, ResponseInv, InfoRequestInv, InfoResponseInv,
     SynchTokenInv, SynchRequestInv, SynchResponseInv, FinishInv, FinishAckInv DEF Process

-----------------------------------------------------------------------------
(***************************************************************************)
(* The timers.                                                             *)
(***************************************************************************)
LEMMA ExpireInv ==
    ASSUME IInv, NEW m \in Members, ScatterExpires(m)
    PROVE  IInv' /\ Advances(m)
<1> DEFINE old == member[m]
           next == [old EXCEPT !.scatter_wait = "none",
                               !.scatter_queue = Append(@, old.scatter_wait)]
<1>1. old.status = "running" /\ old.scatter_wait # "none"
  BY DEF ScatterExpires
<1>2. Good(m, old)
  BY <1>1, GoodStart
<1>3. DOMAIN old = Fields /\ TimersOK(old) /\ TriggeredOK(old)
  BY <1>2, GoodMember DEF Good
<1>4. Become(m, next, {})
  BY DEF ScatterExpires, Become
<1> HIDE DEF old
<1>5. /\ SameCore(old, next)
      /\ next.scatter_wait = "none"
      /\ next.scatter_queue = Append(old.scatter_queue, old.scatter_wait)
      /\ next.request_scheduled = old.request_scheduled
      /\ next.response_scheduled = old.response_scheduled
      /\ next.last_member_synch_token_sending_triggered
            = old.last_member_synch_token_sending_triggered
  BY <1>3 DEF SameCore, SameKeys, Fields
<1> HIDE DEF next
<1>6. TimersOK(next)
  BY <1>1, <1>3, <1>5, ExpireTimers DEF SameCore, SameKeys
<1>7. TriggeredOK(next)
  BY <1>3, <1>5 DEF TriggeredOK, SameCore, SameKeys, IsAssigned
<1>8. Good(m, next)
  BY <1>2, <1>5, <1>6, <1>7, GoodSame
<1>9. next.is_sponsor => next.member_id < member_count[Service(m)]
  BY <1>5, RoomKept DEF SameCore, SameKeys, old
<1> QED
  BY <1>1, <1>4, <1>8, <1>9, BecomeGood DEF old

LEMMA TimeoutInv ==
    ASSUME IInv, NEW m \in Members, Timeout(m)
    PROVE  IInv' /\ Advances(m)
<1> DEFINE old == member[m]
           self == [old EXCEPT !.timeout_wait = FALSE]
<1>1. old.status = "running"
  BY DEF Timeout
<1>2. Good(m, old)
  BY <1>1, GoodStart
<1>3. DOMAIN old = Fields
  BY <1>2, GoodMember
<1>4. Become(m, Done(m, self), {})
  BY DEF Timeout
<1> HIDE DEF old
<1>5. /\ SameCore(old, self)
      /\ SameTimers(old, self)
      /\ self.last_member_synch_token_sending_triggered
            = old.last_member_synch_token_sending_triggered
  BY <1>3 DEF SameCore, SameKeys, SameTimers, Fields
<1> HIDE DEF self
<1>6. Good(m, self)
  BY <1>2, <1>5, GoodFlags
<1>7. self.is_sponsor => self.member_id < member_count[Service(m)]
  BY <1>5, RoomKept DEF SameCore, SameKeys, old
<1> QED
  BY <1>1, <1>4, <1>6, <1>7, DoneInv DEF old

LEMMA LoseInv ==
    ASSUME IInv, NEW m \in Members, Lose(m)
    PROVE  IInv' /\ UNCHANGED member
<1>1. member' = member /\ net' = [net EXCEPT ![m] = {}]
  BY DEF Lose
<1>2. NetOK(net', member')
  BY <1>1 DEF IInv, NetOK
<1> QED
  BY <1>1, <1>2 DEF IInv

\* What a handler of the timer repeats is still so.
LEMMA RepeatedTruthful ==
    ASSUME IInv, NEW m \in Members, NEW self, Good(m, self), NEW h,
           NEW msg \in Repeated(m, self, h)
    PROVE  Truthful(m, self, msg)
<1> DEFINE mem == [member EXCEPT ![m] = self]
<1>1. /\ mem[m] = self
      /\ MemberOK(History(mem), m, self)
      /\ HistoryOK(History(mem))
      /\ self.member_id \in Nat
  BY GoodMember DEF CoreTypes
<1> HIDE DEF mem
<1>2. Service(m) \in Services /\ member_count[Service(m)] \in Nat
  BY ServiceTypes
<1>3. CASE msg = Offer(m) \/ msg = Finish(m)
  BY <1>2, <1>3 DEF Truthful, Offer, Finish, Messages
<1>4. CASE msg = InfoRequest(m, UnknownPredecessors(self))
  <2>1. UnknownPredecessors(self) \in SUBSET MemberIds
    BY <1>1 DEF UnknownPredecessors, MemberIds, DEFAULT_MEMBER_ID
  <2> QED
    BY <1>2, <1>4, <2>1 DEF Truthful, InfoRequest, Messages
<1>5. CASE msg = SynchRequest(m, UnknownSuccessors(m, self))
  <2>1. UnknownSuccessors(m, self) \in SUBSET MemberIds
    BY <1>1, <1>2 DEF UnknownSuccessors, MemberIds, DEFAULT_MEMBER_ID
  <2> QED
    BY <1>2, <1>5, <2>1 DEF Truthful, SynchRequest, Messages
<1>6. CASE msg = SynchToken(m, self)
  BY <1>1, <1>6, TokenTruthful
<1>7. CASE msg \in self.response_message_cache
  <2>1. msg \in History(mem)
    BY <1>1, <1>7 DEF History
  <2>2. msg \in Assignments /\ msg.service = Service(msg.from) /\ msg.from = m
    BY <1>1, <1>7, <2>1 DEF HistoryOK, AssignmentOK, MemberOK, CacheOK
  <2>3. msg \in Messages /\ msg.type = "response"
    BY <2>2 DEF Assignments, Messages
  <2> QED
    BY <1>7, <2>2, <2>3 DEF Truthful
<1> QED
  BY <1>3, <1>4, <1>5, <1>6, <1>7 DEF Repeated

LEMMA StartedGood ==
    ASSUME IInv, NEW m \in Members, member[m].status = "running", NEW h, NEW next,
           SameCore(member[m], next), Starts(member[m], h, next),
           next.request_scheduled \in BOOLEAN,
           next.request_scheduled <=> member[m].request_scheduled /\ h \notin Requesting,
           next.response_scheduled \in BOOLEAN,
           next.response_scheduled <=> member[m].response_scheduled /\ h \notin Answering,
           next.last_member_synch_token_sending_triggered
               = member[m].last_member_synch_token_sending_triggered
    PROVE  Good(m, next) /\ (h \in {"info", "synch_info"} => IsAssigned(next))
<1> DEFINE old == member[m]
<1>1. Good(m, old) /\ TimersOK(old) /\ TriggeredOK(old)
  BY GoodStart DEF IInv
<1> HIDE DEF old
<1>2. next.member_id = old.member_id
  BY DEF SameCore, SameKeys, old
<1>3. TimersOK(next) /\ (h \in {"info", "synch_info"} => IsAssigned(old))
  BY <1>1, <1>2, StartTimers DEF old
<1>4. IsAssigned(old) <=> IsAssigned(next)
  BY <1>2 DEF IsAssigned
<1>5. TriggeredOK(next)
  BY <1>1, <1>4 DEF TriggeredOK, old
<1>6. Good(m, next)
  BY <1>1, <1>3, <1>5, GoodSame DEF old
<1> QED
  BY <1>3, <1>4, <1>6

LEMMA RunInv ==
    ASSUME IInv, NEW m \in Members, member[m].status = "running", NEW h, NEW self,
           SameCore(member[m], self), Starts(member[m], h, self),
           self.request_scheduled = member[m].request_scheduled,
           self.response_scheduled = member[m].response_scheduled,
           self.last_member_synch_token_sending_triggered
               = member[m].last_member_synch_token_sending_triggered,
           RunHandler(m, self, h)
    PROVE  IInv' /\ Advances(m)
<1> DEFINE old == member[m]
<1>1. /\ TimersOK(old)
      /\ DOMAIN self = Fields
      /\ Service(m) \in Services
      /\ self.member_id \in Nat
      /\ self.is_sponsor => self.member_id < member_count[Service(m)]
  <2>1. DOMAIN self = Fields /\ self.member_id \in Nat
    BY DEF SameCore, SameKeys, IInv, Inv, MemberOK, CoreTypes
  <2>2. self.is_sponsor => self.member_id < member_count[Service(m)]
    BY RoomKept DEF SameCore, SameKeys
  <2> QED
    BY <2>1, <2>2, ServiceTypes DEF IInv
<1>2. /\ old.scatter_queue \in Seq(Handlers)
      /\ self.request_scheduled \in BOOLEAN
      /\ self.response_scheduled \in BOOLEAN
      /\ Single(old, Requesting)
      /\ Single(old, Answering)
      /\ self.request_scheduled <=> Some(old, Requesting)
      /\ self.response_scheduled <=> Some(old, Answering)
  BY <1>1 DEF TimersOK, TimerTypes
<1>3. h \in Requesting => self.request_scheduled
  <2>1. "none" \notin Requesting
    BY DEF Requesting
  <2> QED
    BY <1>2, <2>1, KindsStart DEF old
<1>4. h \in Answering => self.response_scheduled
  <2>1. "none" \notin Answering
    BY DEF Answering
  <2> QED
    BY <1>2, <2>1, KindsStart DEF old
<1>5. CASE h \in {"request", "request_aborted"}
  <2> DEFINE next == [self EXCEPT !.request_scheduled = ~ @]
             msgs == IF h = "request" THEN {Request(m)} ELSE {}
  <2>1. Become(m, next, msgs)
    BY <1>5 DEF RunHandler, AnswerOnce, Cyclic
  <2>2. h \in Requesting /\ h \notin Answering
    BY <1>5 DEF Requesting, Answering
  <2>3. /\ SameCore(old, next)
        /\ Starts(old, h, next)
        /\ next.request_scheduled = FALSE
        /\ next.response_scheduled = old.response_scheduled
        /\ next.last_member_synch_token_sending_triggered
              = old.last_member_synch_token_sending_triggered
    BY <1>1, <1>2, <1>3, <2>2 DEF SameCore, SameKeys, Starts, Fields
  <2> HIDE DEF next
  <2>4. Good(m, next)
    BY <1>2, <2>2, <2>3, StartedGood
  <2>5. next.is_sponsor => next.member_id < member_count[Service(m)]
    BY <2>3, RoomKept DEF SameCore, SameKeys
  <2>6. \A msg \in msgs : Truthful(m, next, msg)
    BY <1>1 DEF Truthful, Request, Messages
  <2> HIDE DEF msgs
  <2> QED
    BY <2>1, <2>4, <2>5, <2>6, BecomeGood
<1>6. CASE h \in {"info", "synch_info", "info_aborted"}
  <2> DEFINE next == [self EXCEPT !.response_scheduled = ~ @]
             msgs == CASE h = "info" -> {InfoResponse(m, self)}
                       [] h = "synch_info" -> {SynchResponse(m, self)}
                       [] OTHER -> {}
  <2>1. Become(m, next, msgs)
    BY <1>6 DEF RunHandler, AnswerOnce, Cyclic
  <2>2. h \in Answering /\ h \notin Requesting
    BY <1>6 DEF Requesting, Answering
  <2>3. /\ SameCore(old, next)
        /\ Starts(old, h, next)
        /\ next.response_scheduled = FALSE
        /\ next.request_scheduled = old.request_scheduled
        /\ next.member_id = self.member_id
        /\ next.last_member_synch_token_sending_triggered
              = old.last_member_synch_token_sending_triggered
    BY <1>1, <1>2, <1>4, <2>2 DEF SameCore, SameKeys, Starts, Fields
  <2> HIDE DEF next
  <2>4. Good(m, next) /\ (h \in {"info", "synch_info"} => IsAssigned(next))
    BY <1>2, <2>2, <2>3, StartedGood
  <2>5. next.is_sponsor => next.member_id < member_count[Service(m)]
    BY <2>3, RoomKept DEF SameCore, SameKeys
  <2>6. \A msg \in msgs : Truthful(m, next, msg)
    <3>1. CASE h = "info_aborted"
      BY <3>1
    <3>2. CASE h = "info"
      <4>1. msgs = {InfoResponse(m, self)} /\ next.member_id \in MemberIds
        BY <1>1, <2>3, <2>4, <3>2 DEF IsAssigned, MemberIds
      <4>2. Truthful(m, next, InfoResponse(m, self))
        BY <1>1, <2>3, <2>4, <3>2, <4>1 DEF Truthful, InfoResponse, Messages
      <4> HIDE DEF msgs
      <4> QED
        BY <4>1, <4>2
    <3>3. CASE h = "synch_info"
      <4>1. msgs = {SynchResponse(m, self)} /\ next.member_id \in MemberIds
        BY <1>1, <2>3, <2>4, <3>3 DEF IsAssigned, MemberIds
      <4>2. Truthful(m, next, SynchResponse(m, self))
        BY <1>1, <2>3, <2>4, <3>3, <4>1 DEF Truthful, SynchResponse, Messages
      <4> HIDE DEF msgs
      <4> QED
        BY <4>1, <4>2
    <3> QED
      BY <1>6, <3>1, <3>2, <3>3
  <2> HIDE DEF msgs
  <2> QED
    BY <2>1, <2>4, <2>5, <2>6, BecomeGood
<1>7. CASE h \in Cyclic
  <2>1. h \notin Requesting /\ h \notin Answering
    BY <1>7 DEF Cyclic, Requesting, Answering
  <2>2. Good(m, self)
    BY <1>2, <2>1, StartedGood
  <2>3. \/ Become(m, Await(self, h), Repeated(m, self, h))
        \/ Become(m, self, {})
    BY <2>1 DEF RunHandler, AnswerOnce, Requesting, Answering
  <2>4. \A msg \in Repeated(m, self, h) : Truthful(m, self, msg)
    BY <2>2, RepeatedTruthful
  <2>5. h \in Waits \ {"request", "info", "synch_info"}
    BY <1>7 DEF Cyclic, Waits
  <2> QED
    BY <1>1, <2>2, <2>3, <2>4, <2>5, AwaitInv, BecomeGood
<1> QED
  BY <1>5, <1>6, <1>7 DEF RunHandler, AnswerOnce

LEMMA ScatterInv ==
    ASSUME IInv, NEW m \in Members, HandleScatter(m)
    PROVE  IInv' /\ Advances(m)
<1> DEFINE old == member[m]
<1>1. old.status = "running" /\ DOMAIN old = Fields
  BY DEF HandleScatter, IInv, Inv, MemberOK, CoreTypes
<1>2. CASE /\ old.scatter_queue # <<>>
           /\ RunHandler(m, [old EXCEPT !.scatter_queue = Tail(@)], Head(old.scatter_queue))
  <2> DEFINE self == [old EXCEPT !.scatter_queue = Tail(@)]
             h == Head(old.scatter_queue)
  <2>1. RunHandler(m, self, h)
    BY <1>2
  <2> HIDE DEF old
  <2>2. /\ SameCore(old, self)
        /\ Starts(old, h, self)
        /\ self.request_scheduled = old.request_scheduled
        /\ self.response_scheduled = old.response_scheduled
        /\ self.last_member_synch_token_sending_triggered
              = old.last_member_synch_token_sending_triggered
    BY <1>1, <1>2 DEF SameCore, SameKeys, Starts, Fields
  <2> HIDE DEF self, h
  <2> QED
    BY <1>1, <2>1, <2>2, RunInv DEF old
<1>3. CASE /\ old.scatter_queue = <<>>
           /\ RunHandler(m, [old EXCEPT !.scatter_wait = "none"], old.scatter_wait)
  <2> DEFINE self == [old EXCEPT !.scatter_wait = "none"]
             h == old.scatter_wait
  <2>1. RunHandler(m, self, h)
    BY <1>3
  <2> HIDE DEF old
  <2>2. /\ SameCore(old, self)
        /\ Starts(old, h, self)
        /\ self.request_scheduled = old.request_scheduled
        /\ self.response_scheduled = old.response_scheduled
        /\ self.last_member_synch_token_sending_triggered
              = old.last_member_synch_token_sending_triggered
    BY <1>1, <1>3 DEF SameCore, SameKeys, Starts, Fields
  <2> HIDE DEF self, h
  <2> QED
    BY <1>1, <2>1, <2>2, RunInv DEF old
<1> QED
  BY <1>2, <1>3 DEF HandleScatter

-----------------------------------------------------------------------------
(***************************************************************************)
(* The constructor and start().  A founder starts with a request to come,  *)
(* so somebody has to be there for it to admit.                            *)
(***************************************************************************)
SomebodyToAgreeWith == \A s \in Services : member_count[s] >= 2

\* What the founder is before it waits.
Founder(m) ==
    [member[m] EXCEPT
        !.status = "running",
        !.is_sponsor = TRUE,
        !.member_id = INITIAL_SPONSOR_ID,
        !.group_secret = <<m>>,
        !.blinded_group_secret = <<m>>,
        !.keys_computed_count = 1]

LEMMA NobodyBefore ==
    ASSUME IInv, NEW s \in Services, member[founder[s]].status = "down"
    PROVE  /\ \A x \in History(member) : x.service # s
           /\ \A n \in Members : ~ IsSponsor(member, s, n)
<1>1. \A x \in History(member) : x.service # s
  BY DEF IInv, Inv, BatonOK, FounderFirst
<1>2. ASSUME NEW n \in Members, IsSponsor(member, s, n)
      PROVE  FALSE
  <2>1. MemberOK(History(member), n, member[n])
    BY DEF IInv, Inv
  <2>2. IsAssigned(member[n])
    BY <1>2, <2>1 DEF MemberOK, CountOK, IsSponsor
  <2>3. Gives(History(member), Service(n), member[n].member_id, n)
    BY <2>1, <2>2, OwnId
  <2>4. n = founder[s]
    BY <1>1, <1>2, <2>3 DEF Gives, IsSponsor
  <2>5. member[n] = InitialMember
    BY <2>1, <2>4 DEF MemberOK, StoppedOK
  <2> QED
    BY <2>2, <2>5 DEF InitialMember, IsAssigned, DEFAULT_MEMBER_ID
<1> QED
  BY <1>1, <1>2

LEMMA FounderInv ==
    ASSUME IInv, NEW m \in Members, member[m].status = "down", IsFounder(m)
    PROVE  Inv([member EXCEPT ![m] = Founder(m)])
<1> DEFINE H == History(member)
           self == Founder(m)
           next == [member EXCEPT ![m] = self]
           s == Service(m)
<1>1. /\ s \in Services
      /\ m = founder[s]
      /\ Inv(member)
      /\ MemberOK(H, m, member[m])
      /\ HistoryOK(H)
  BY ServiceTypes DEF IsFounder, IInv, Inv
<1>2. member[m] = InitialMember
  BY <1>1 DEF MemberOK, StoppedOK
<1>3. DOMAIN member[m] = Fields
  BY <1>1 DEF MemberOK, CoreTypes
<1>4. /\ DOMAIN self = Fields
      /\ self.status = "running"
      /\ self.is_sponsor = TRUE
      /\ self.member_id = 1
      /\ self.group_secret = <<m>>
      /\ self.blinded_group_secret = <<m>>
      /\ self.keys_computed_count = 1
      /\ self.pending_requests = member[m].pending_requests
      /\ self.assigned_keys = member[m].assigned_keys
      /\ self.assigned_endpoints = member[m].assigned_endpoints
      /\ self.response_message_cache = {}
      /\ member[m].response_message_cache = {}
  <2>1. member[m].response_message_cache = {}
    BY <1>2 DEF InitialMember
  <2> QED
    BY <1>3, <2>1 DEF Founder, Fields, INITIAL_SPONSOR_ID
<1> HIDE DEF self, H, s
<1>5. MemberOK(H, m, self)
  <2>1. CoreTypes(self)
    <3>1. <<m>> \in Seq(Members)
      OBVIOUS
    <3>2. /\ self.group_secret \in Seq(Members)
          /\ self.blinded_group_secret \in Seq(Members)
      BY <1>4, <3>1
    <3>3. self.is_sponsor \in BOOLEAN /\ self.status \in {"down", "running", "stopped", "crashed"}
      BY <1>4
    <3>4. self.member_id \in Nat /\ self.keys_computed_count \in Nat
      BY <1>4
    <3>5. /\ self.pending_requests \subseteq Members
          /\ self.assigned_keys \in [DOMAIN self.assigned_keys -> Members]
          /\ DOMAIN self.assigned_keys \subseteq MemberIds
          /\ self.assigned_endpoints \in [DOMAIN self.assigned_endpoints -> MemberIds]
          /\ DOMAIN self.assigned_endpoints \subseteq Members
      BY <1>1, <1>4 DEF MemberOK, CoreTypes
    <3> QED
      BY <1>4, <3>2, <3>3, <3>4, <3>5 DEF CoreTypes
  <2>2. MapsOK(H, m, self) /\ PendingOK(m, self)
    BY <1>1, <1>4 DEF MemberOK, MapsOK, PendingOK
  <2>3. Backed(H, Service(m), self.group_secret)
    BY <1>1, <1>4 DEF Backed, Gives, INITIAL_SPONSOR_ID, s
  <2>4. CountOK(m, self) /\ SponsorOK(self) /\ StoppedOK(m, self) /\ CacheOK(m, self)
    BY <1>4 DEF CountOK, SponsorOK, StoppedOK, CacheOK, IsAssigned, LastKeyId, DEFAULT_MEMBER_ID
  <2> QED
    BY <2>1, <2>2, <2>3, <2>4 DEF MemberOK
<1>6. /\ next \in [Members -> {next[n] : n \in Members}]
      /\ next[m] = self
      /\ \A n \in Members : n # m => next[n] = member[n]
  BY <1>1, Updated DEF Inv
<1> HIDE DEF next
<1>7. History(next) = H
  <2>1. next[m].response_message_cache = member[m].response_message_cache
    BY <1>4, <1>6
  <2> QED
    BY <1>6, <2>1, HistorySame DEF H
<1>8. \A n \in Members : MemberOK(History(next), n, next[n])
  BY <1>1, <1>5, <1>6, <1>7 DEF Inv, H
<1>9. /\ \A x \in H : x.service # s
      /\ \A n \in Members : ~ IsSponsor(member, s, n)
  BY <1>1, NobodyBefore DEF H
<1>10. /\ FounderFirst(next, s)
       /\ OneSponsor(next, s)
       /\ SponsorHighest(next, s)
       /\ TransitHighest(next, s)
       /\ BatonSomewhere(next, s)
  <2>1. \A n : IsSponsor(next, s, n) => n = m
    BY <1>6, <1>9 DEF IsSponsor
  <2>2. IsSponsor(next, s, m)
    BY <1>4, <1>6 DEF IsSponsor, s
  <2>3. \A x : ~ OnItsWay(next, s, x)
    BY <1>7, <1>9 DEF OnItsWay
  <2>4. FounderFirst(next, s) /\ SponsorHighest(next, s)
    BY <1>7, <1>9 DEF FounderFirst, SponsorHighest
  <2>5. OneSponsor(next, s)
    BY <2>1 DEF OneSponsor
  <2>6. TransitHighest(next, s)
    BY <2>3 DEF TransitHighest
  <2>7. BatonSomewhere(next, s)
    BY <2>2 DEF BatonSomewhere
  <2> QED
    BY <2>4, <2>5, <2>6, <2>7
<1>11. ASSUME NEW t \in Services, t # s
       PROVE  /\ FounderFirst(next, t)
              /\ OneSponsor(next, t)
              /\ SponsorHighest(next, t)
              /\ TransitHighest(next, t)
              /\ BatonSomewhere(next, t)
  <2>1. /\ FounderFirst(member, t)
        /\ OneSponsor(member, t)
        /\ SponsorHighest(member, t)
        /\ TransitHighest(member, t)
        /\ BatonSomewhere(member, t)
    BY <1>1 DEF Inv, BatonOK
  <2>2. \A n : /\ IsSponsor(next, t, n) <=> IsSponsor(member, t, n)
               /\ IsLast(next, t, n) <=> IsLast(member, t, n)
               /\ IsSponsor(next, t, n) => next[n] = member[n]
    BY <1>6, <1>11 DEF IsSponsor, IsLast, s
  <2>3. \A x : OnItsWay(next, t, x) <=> OnItsWay(member, t, x)
    <3>1. \A x \in H : x.service = t => x.new_sponsor \in Members /\ x.new_sponsor # m
      BY <1>1, <1>11 DEF HistoryOK, AssignmentOK, Assignments, s
    <3> QED
      BY <1>6, <1>7, <3>1 DEF OnItsWay, H
  <2>4. next[founder[t]].status = member[founder[t]].status
    BY <1>6, <1>11, ServiceTypes DEF s
  <2>5. FounderFirst(next, t)
    BY <1>7, <2>1, <2>4 DEF FounderFirst, H
  <2>6. OneSponsor(next, t)
    BY <2>1, <2>2 DEF OneSponsor
  <2>7. SponsorHighest(next, t)
    BY <1>7, <2>1, <2>2 DEF SponsorHighest, H
  <2>8. TransitHighest(next, t)
    BY <1>7, <2>1, <2>2, <2>3 DEF TransitHighest, H
  <2>9. BatonSomewhere(next, t)
    BY <1>7, <2>1, <2>2, <2>3, <2>4 DEF BatonSomewhere, H
  <2> QED
    BY <2>5, <2>6, <2>7, <2>8, <2>9
<1>12. BatonOK(next)
  BY <1>10, <1>11 DEF BatonOK
<1>13. Inv(next)
  BY <1>1, <1>6, <1>7, <1>8, <1>12 DEF Inv
<1> QED
  BY <1>13 DEF next, self

LEMMA FounderStable ==
    ASSUME IInv, NEW m \in Members, member[m].status = "down", IsFounder(m)
    PROVE  LET next == Founded(m)
           IN  /\ Inv([member EXCEPT ![m] = next])
               /\ Stable(member[m], next)
               /\ TimersOK(next)
               /\ TriggeredOK(next)
               /\ next.member_id = 1
               /\ next.status = "running"
               /\ next.response_message_cache = {}
<1> DEFINE mid == Founder(m)
           next == Founded(m)
           old == member[m]
<1>1. /\ MemberOK(History(member), m, old)
      /\ TimersOK(old)
  BY DEF IInv, Inv
<1>2. old = InitialMember /\ DOMAIN old = Fields
  BY <1>1 DEF MemberOK, StoppedOK, CoreTypes
<1>3. /\ ~ IsAssigned(old)
      /\ old.group_secret = <<>>
      /\ old.response_message_cache = {}
      /\ ~ old.last_member_synch_token_sending_triggered
  BY <1>2 DEF InitialMember, IsAssigned, DEFAULT_MEMBER_ID
<1>4. next = Await(mid, "offer")
  BY DEF Founded, Founder
<1> HIDE DEF old
<1>5. /\ SameTimers(old, mid)
      /\ mid.status = "running"
      /\ mid.member_id = 1
      /\ mid.group_secret = <<m>>
      /\ mid.response_message_cache = old.response_message_cache
      /\ mid.last_member_synch_token_sending_triggered
            = old.last_member_synch_token_sending_triggered
  BY <1>2 DEF Founder, SameTimers, Fields, INITIAL_SPONSOR_ID, old
<1>6. Inv([member EXCEPT ![m] = mid])
  BY FounderInv
<1> HIDE DEF mid, next
<1>7. Good(m, mid)
  <2>1. Stable(old, mid)
    BY <1>3, <1>5 DEF Stable, Prefix
  <2>2. TimersOK(mid) /\ TriggeredOK(mid)
    BY <1>1, <1>3, <1>5, SameTimersOK DEF TriggeredOK
  <2> QED
    BY <1>5, <1>6, <2>1, <2>2 DEF Good, old
<1>8. Good(m, next) /\ SameCore(mid, next)
  <2>1. "offer" \in Waits \ {"request", "info", "synch_info"}
    BY DEF Waits, Cyclic
  <2> QED
    BY <1>4, <1>7, <2>1, GoodAwait
<1> QED
  BY <1>3, <1>5, <1>8 DEF Good, SameCore, SameKeys, next

LEMMA LaunchInv ==
    ASSUME SomebodyToAgreeWith, IInv, NEW m \in Members, Launch(m)
    PROVE  IInv' /\ Advances(m)
<1> DEFINE old == member[m]
<1>1. old.status = "down"
  BY DEF Launch
<1>2. CASE IsFounder(m)
  <2> DEFINE next == Founded(m)
  <2>1. Become(m, next, {Offer(m)})
    BY <1>2 DEF Launch
  <2>2. /\ Inv([member EXCEPT ![m] = next])
        /\ Stable(old, next)
        /\ TimersOK(next)
        /\ TriggeredOK(next)
        /\ next.member_id = 1
        /\ next.status = "running"
        /\ next.response_message_cache = {}
    BY <1>1, <1>2, FounderStable
  <2> HIDE DEF next
  <2>3. Service(m) \in Services
    BY ServiceTypes
  <2>4. next.member_id < member_count[Service(m)]
    BY <2>2, <2>3, ServiceTypes DEF SomebodyToAgreeWith
  <2>5. \A msg \in {Offer(m)} : Truthful(m, next, msg)
    BY <2>3 DEF Truthful, Offer, Messages
  <2> QED
    BY <1>1, <2>1, <2>2, <2>4, <2>5, BecomeInv
<1>3. CASE ~ IsFounder(m)
  <2> DEFINE next == [old EXCEPT !.status = "running"]
  <2>1. Become(m, next, {})
    BY <1>3 DEF Launch
  <2>2. /\ MemberOK(History(member), m, old)
        /\ TimersOK(old)
        /\ TriggeredOK(old)
        /\ old.group_secret \in Seq(Members)
        /\ DOMAIN old = Fields
    BY DEF IInv, Inv, MemberOK, CoreTypes
  <2> HIDE DEF old
  <2>3. /\ SameKeys(old, next)
        /\ SameTimers(old, next)
        /\ next.status = "running"
        /\ next.is_sponsor = old.is_sponsor
        /\ next.blinded_group_secret = old.blinded_group_secret
        /\ next.pending_requests = old.pending_requests
        /\ next.response_message_cache = old.response_message_cache
        /\ next.last_member_synch_token_sending_triggered
              = old.last_member_synch_token_sending_triggered
    BY <2>2 DEF SameKeys, SameTimers, Fields
  <2> HIDE DEF next
  <2>4. MemberOK(History(member), m, next)
    <3>1. CoreTypes(next)
      BY <2>2, <2>3 DEF SameKeys, MemberOK, CoreTypes
    <3>2. MapsOK(History(member), m, next) /\ PendingOK(m, next)
      BY <2>2, <2>3 DEF SameKeys, MemberOK, MapsOK, PendingOK
    <3>3. Backed(History(member), Service(m), next.group_secret)
      BY <2>2, <2>3 DEF SameKeys, MemberOK
    <3>4. CountOK(m, next) /\ SponsorOK(next) /\ StoppedOK(m, next) /\ CacheOK(m, next)
      BY <2>2, <2>3 DEF SameKeys, MemberOK, CountOK, SponsorOK, StoppedOK, CacheOK, IsAssigned,
                        LastKeyId
    <3> QED
      BY <3>1, <3>2, <3>3, <3>4 DEF MemberOK
  <2>5. Inv([member EXCEPT ![m] = next])
    BY <1>3, <2>3, <2>4, LocalChange DEF IInv, SameKeys, old
  <2>6. Stable(old, next)
    BY <2>2, <2>3, StableSame DEF SameKeys
  <2>7. TimersOK(next) /\ TriggeredOK(next)
    BY <2>2, <2>3, SameTimersOK DEF TriggeredOK, SameKeys, IsAssigned
  <2>8. next.is_sponsor => next.member_id < member_count[Service(m)]
    BY <2>3, RoomKept DEF SameKeys, old
  <2>9. next.response_message_cache = {}
    <3>1. old = InitialMember
      BY <1>1, <2>2 DEF MemberOK, StoppedOK
    <3> QED
      BY <2>3, <3>1 DEF InitialMember
  <2> QED
    BY <1>1, <2>1, <2>3, <2>5, <2>6, <2>7, <2>8, <2>9, BecomeInv DEF old
<1> QED
  BY <1>2, <1>3

-----------------------------------------------------------------------------
(***************************************************************************)
(* The invariant.                                                          *)
(***************************************************************************)
LEMMA InitialOK ==
    ASSUME NEW H, NEW m \in Members
    PROVE  MemberOK(H, m, InitialMember) /\ TimersOK(InitialMember) /\ TriggeredOK(InitialMember)
<1> DEFINE self == InitialMember
<1>1. /\ DOMAIN self = Fields
      /\ self.status = "down"
      /\ self.is_sponsor = FALSE
      /\ self.request_scheduled = FALSE
      /\ self.response_scheduled = FALSE
      /\ self.last_member_synch_token_sending_triggered = FALSE
      /\ self.member_id = 0
      /\ self.group_secret = <<>>
      /\ self.blinded_group_secret = <<>>
      /\ self.keys_computed_count = 0
      /\ self.pending_requests = {}
      /\ self.assigned_keys = <<>>
      /\ self.assigned_endpoints = <<>>
      /\ self.response_message_cache = {}
      /\ self.scatter_wait = "none"
      /\ self.scatter_queue = <<>>
  BY DEF InitialMember, Fields, DEFAULT_MEMBER_ID, DEFAULT_SECRET
<1>2. self.status = "down" => self = InitialMember
  OBVIOUS
<1> HIDE DEF self
<1>3. DOMAIN self.assigned_keys = {} /\ DOMAIN self.assigned_endpoints = {}
  BY <1>1
<1>4. CoreTypes(self)
  <2>1. /\ <<>> \in Seq(Members)
        /\ <<>> \in [{} -> Members]
        /\ <<>> \in [{} -> MemberIds]
    OBVIOUS
  <2>2. /\ self.group_secret \in Seq(Members)
        /\ self.blinded_group_secret \in Seq(Members)
    BY <1>1, <2>1
  <2>3. self.assigned_keys \in [DOMAIN self.assigned_keys -> Members]
    BY <1>1, <1>3, <2>1
  <2>4. self.assigned_endpoints \in [DOMAIN self.assigned_endpoints -> MemberIds]
    BY <1>1, <1>3, <2>1
  <2>5. self.is_sponsor \in BOOLEAN /\ self.status \in {"down", "running", "stopped", "crashed"}
    BY <1>1
  <2>6. /\ self.member_id \in Nat
        /\ self.keys_computed_count \in Nat
        /\ self.pending_requests \subseteq Members
        /\ DOMAIN self.assigned_keys \subseteq MemberIds
        /\ DOMAIN self.assigned_endpoints \subseteq Members
    BY <1>1, <1>3
  <2> QED
    BY <1>1, <2>2, <2>3, <2>4, <2>5, <2>6 DEF CoreTypes
<1>5. MapsOK(H, m, self) /\ PendingOK(m, self) /\ Backed(H, Service(m), self.group_secret)
  BY <1>1, <1>3 DEF MapsOK, PendingOK, Backed
<1>6. CountOK(m, self) /\ SponsorOK(self) /\ StoppedOK(m, self) /\ CacheOK(m, self)
  BY <1>1, <1>2 DEF CountOK, SponsorOK, StoppedOK, CacheOK, IsAssigned, DEFAULT_MEMBER_ID
<1>7. MemberOK(H, m, self)
  BY <1>4, <1>5, <1>6 DEF MemberOK
<1>8. /\ Len(self.scatter_queue) = 0
      /\ \A j \in 0 .. Len(self.scatter_queue) : j = 0 /\ At(self, j) = "none"
  BY <1>1 DEF At
<1>9. TimersOK(self)
  <2>1. TimerTypes(self)
    <3>1. <<>> \in Seq(Handlers)
      OBVIOUS
    <3> QED
      BY <1>1, <3>1 DEF TimerTypes, Waits
  <2>2. \A kinds : "none" \notin kinds => ~ Some(self, kinds) /\ Single(self, kinds)
    BY <1>8 DEF Some, Single
  <2>3. "none" \notin Requesting /\ "none" \notin Answering
    BY DEF Requesting, Answering
  <2> QED
    BY <1>1, <1>8, <2>1, <2>2, <2>3 DEF TimersOK
<1>10. TriggeredOK(self)
  BY <1>1 DEF TriggeredOK
<1> QED
  BY <1>7, <1>9, <1>10 DEF self

LEMMA InitInv == Init => IInv
<1> SUFFICES ASSUME Init
             PROVE  IInv
  OBVIOUS
<1>1. /\ member = [m \in Members |-> InitialMember]
      /\ net = [m \in Members |-> {}]
  BY DEF Init
<1>2. \A m \in Members : member[m] = InitialMember
  BY <1>1
<1>3. \A x : x \notin History(member)
  BY <1>2 DEF History, InitialMember
<1>4. HistoryOK(History(member))
  BY <1>3 DEF HistoryOK, GivenOnce
<1>5. \A m \in Members : /\ MemberOK(History(member), m, member[m])
                         /\ TimersOK(member[m])
                         /\ TriggeredOK(member[m])
  BY <1>2, InitialOK
<1>6. \A m \in Members : ~ member[m].is_sponsor /\ member[m].status = "down"
  BY <1>2 DEF InitialMember
<1>7. BatonOK(member)
  <2> SUFFICES ASSUME NEW s \in Services
               PROVE  /\ FounderFirst(member, s)
                      /\ OneSponsor(member, s)
                      /\ SponsorHighest(member, s)
                      /\ TransitHighest(member, s)
                      /\ BatonSomewhere(member, s)
    BY DEF BatonOK
  <2> QED
    BY <1>3, <1>6, ServiceTypes DEF FounderFirst, OneSponsor, SponsorHighest, TransitHighest,
                                    BatonSomewhere, IsSponsor, OnItsWay
<1>8. member \in [Members -> {member[m] : m \in Members}]
  BY <1>1
<1>9. Inv(member)
  BY <1>4, <1>5, <1>7, <1>8 DEF Inv
<1>10. Room(member)
  BY <1>6 DEF Room
<1>11. NetOK(net, member)
  BY <1>1 DEF NetOK
<1> QED
  BY <1>5, <1>9, <1>10, <1>11 DEF IInv

LEMMA NextInv ==
    ASSUME SomebodyToAgreeWith, IInv, Next
    PROVE  IInv' /\ (UNCHANGED member \/ \E m \in Members : Advances(m))
<1> PICK m \in Members : \/ Launch(m)
                         \/ \E type \in MessageTypes : Receive(m, type)
                         \/ ScatterExpires(m)
                         \/ HandleScatter(m)
                         \/ Timeout(m)
                         \/ Lose(m)
  BY DEF Next
<1> QED
  BY LaunchInv, ReceiveInv, ExpireInv, ScatterInv, TimeoutInv, LoseInv

LEMMA StutterInv ==
    ASSUME IInv, UNCHANGED vars
    PROVE  IInv'
<1>1. net' = net /\ member' = member
  BY DEF vars
<1> QED
  BY <1>1 DEF IInv

(***************************************************************************)
(* The inductive invariant: the assignments that the sponsors keep to      *)
(* repeat them are the one history of the agreement, in which every id is  *)
(* given once; all that a member knows, and all that is on its way,        *)
(* however late or often, is backed by it.                                 *)
(***************************************************************************)
THEOREM Invariant == ASSUME SomebodyToAgreeWith PROVE Spec => []IInv
<1>1. IInv /\ [Next]_vars => IInv'
  BY NextInv, StutterInv
<1> QED
  BY <1>1, InitInv, PTL DEF Spec

-----------------------------------------------------------------------------
(***************************************************************************)
(* What follows from the invariant.                                        *)
(***************************************************************************)

(***************************************************************************)
(* TypeOK: the state of the str_dh objects and of the messages on their    *)
(* way has the types the handlers rely on; a member keeps, to repeat it,   *)
(* only a response.                                                        *)
(***************************************************************************)
THEOREM TypeCorrect == ASSUME SomebodyToAgreeWith PROVE Spec => []TypeOK
<1>1. IInv => TypeOK
  <2> SUFFICES ASSUME IInv, NEW m \in Members
               PROVE  MemberState(member[m])
    BY DEF TypeOK, IInv, NetOK
  <2> DEFINE self == member[m]
  <2>1. MemberOK(History(member), m, self) /\ TimersOK(self) /\ HistoryOK(History(member))
    BY DEF IInv, Inv
  <2>2. self.response_message_cache \subseteq {msg \in Messages : msg.type = "response"}
    <3> SUFFICES ASSUME NEW x \in self.response_message_cache
                 PROVE  x \in Messages /\ x.type = "response"
      OBVIOUS
    <3>1. x \in Assignments
      BY <2>1, HistoryMember DEF HistoryOK, AssignmentOK
    <3> QED
      BY <3>1 DEF Assignments, Messages
  <2>3. self.scatter_wait \in Handlers \cup {"none"} /\ self.scatter_queue \in Seq(Handlers)
    BY <2>1 DEF TimersOK, TimerTypes, Waits, Handlers
  <2> HIDE DEF self
  <2>4. /\ self.member_id \in Nat
        /\ self.group_secret \in Seq(Members)
        /\ self.assigned_keys \in [DOMAIN self.assigned_keys -> Members]
        /\ self.assigned_endpoints \in [DOMAIN self.assigned_endpoints -> MemberIds]
    BY <2>1 DEF MemberOK, CoreTypes
  <2> QED
    BY <2>2, <2>3, <2>4 DEF MemberState, self
<1> QED
  BY <1>1, Invariant, PTL

LEMMA PendingAre ==
    ASSUME NEW self, self.scatter_queue \in Seq(Handlers), NEW kinds
    PROVE  Pending(self) \cap kinds # {} <=> Some(self, kinds)
<1>1. ASSUME Some(self, kinds) PROVE Pending(self) \cap kinds # {}
  <2>1. PICK j \in 0 .. Len(self.scatter_queue) : At(self, j) \in kinds
    BY <1>1 DEF Some
  <2>2. At(self, j) \in Pending(self)
    BY DEF At, Pending
  <2> QED
    BY <2>1, <2>2
<1>2. ASSUME Pending(self) \cap kinds # {} PROVE Some(self, kinds)
  <2>1. PICK h \in Pending(self) : h \in kinds
    BY <1>2
  <2>2. CASE h = self.scatter_wait
    <3>1. 0 \in 0 .. Len(self.scatter_queue) /\ At(self, 0) = h
      BY <2>2 DEF At
    <3> QED
      BY <2>1, <3>1 DEF Some
  <2>3. CASE \E i \in DOMAIN self.scatter_queue : h = self.scatter_queue[i]
    <3>1. PICK i \in DOMAIN self.scatter_queue : h = self.scatter_queue[i]
      BY <2>3
    <3>2. i \in 0 .. Len(self.scatter_queue) /\ i # 0
      OBVIOUS
    <3>3. At(self, i) = h
      BY <3>1, <3>2 DEF At
    <3> QED
      BY <2>1, <3>2, <3>3 DEF Some
  <2> QED
    BY <2>1, <2>2, <2>3 DEF Pending
<1> QED
  BY <1>1, <1>2

(***************************************************************************)
(* ScheduledFlagsRight: request_scheduled and response_scheduled, which    *)
(* the handlers of the timer toggle even when they were cancelled, are set *)
(* exactly while such a handler is pending, so no member is ever barred    *)
(* from asking or answering.                                               *)
(***************************************************************************)
THEOREM FlagsRight == ASSUME SomebodyToAgreeWith PROVE Spec => []ScheduledFlagsRight
<1>1. IInv => ScheduledFlagsRight
  <2> SUFFICES ASSUME IInv, NEW m \in Members
               PROVE  /\ member[m].request_scheduled
                           <=> Pending(member[m]) \cap {"request", "request_aborted"} # {}
                      /\ member[m].response_scheduled
                           <=> Pending(member[m]) \cap {"info", "synch_info", "info_aborted"} # {}
    BY DEF ScheduledFlagsRight
  <2>1. TimersOK(member[m]) /\ member[m].scatter_queue \in Seq(Handlers)
    BY DEF IInv, TimersOK, TimerTypes
  <2> QED
    BY <2>1, PendingAre DEF TimersOK, Requesting, Answering
<1> QED
  BY <1>1, Invariant, PTL

\* The responses of a group, as the members keep them.
GivenIn(mem, s) ==
    UNION {mem[m].response_message_cache : m \in {n \in Members : Service(n) = s}}

LEMMA GivenIs ==
    ASSUME NEW mem, Inv(mem), NEW s
    PROVE  \A x : x \in GivenIn(mem, s) <=> x \in History(mem) /\ x.service = s
<1>1. ASSUME NEW m \in Members, NEW x \in mem[m].response_message_cache
      PROVE  x.from = m /\ x.service = Service(m)
  <2>1. x \in History(mem)
    BY <1>1 DEF History
  <2> QED
    BY <2>1 DEF Inv, MemberOK, CacheOK, HistoryOK, AssignmentOK
<1> QED
  BY <1>1 DEF GivenIn, History

\* Whoever has an id has the founder's first, and was given it.
LEMMA AssignedAre ==
    ASSUME IInv, NEW m \in Members, IsAssigned(member[m])
    PROVE  /\ Gives(History(member), Service(m), member[m].member_id, m)
           /\ member[founder[Service(m)]].status # "down"
           /\ MemberOK(History(member), m, member[m])
<1>1. MemberOK(History(member), m, member[m])
  BY DEF IInv, Inv
<1>2. Gives(History(member), Service(m), member[m].member_id, m)
  BY <1>1, OwnId
<1>3. CASE m = founder[Service(m)]
  <2>1. member[m] # InitialMember
    BY DEF InitialMember, IsAssigned, DEFAULT_MEMBER_ID
  <2> QED
    BY <1>1, <1>2, <1>3, <2>1 DEF MemberOK, StoppedOK
<1>4. CASE m # founder[Service(m)]
  <2>1. \E x \in History(member) : x.service = Service(m)
    BY <1>2, <1>4 DEF Gives
  <2>2. FounderFirst(member, Service(m))
    BY ServiceTypes DEF IInv, Inv, BatonOK
  <2> QED
    BY <1>1, <1>2, <2>1, <2>2 DEF FounderFirst
<1> QED
  BY <1>3, <1>4

\* Once the last id is taken the role is gone.
LEMMA LastHasIt ==
    ASSUME SomebodyToAgreeWith, IInv, NEW s \in Services, NEW m \in LastMembers(s)
    PROVE  /\ \A n \in Members : ~ IsSponsor(member, s, n)
           /\ \A y : ~ OnItsWay(member, s, y)
<1>1. /\ m \in Members
      /\ Service(m) = s
      /\ IsAssigned(member[m])
      /\ member[m].member_id = member_count[s]
      /\ member_count[s] >= 2
      /\ member_count[s] \in Nat
  BY ServiceTypes DEF LastMembers, Assigned, IsLastMember, SomebodyToAgreeWith
<1>2. PICK x \in History(member) :
          x.service = s /\ x.assigned_id = member_count[s] /\ x.new_sponsor = m
  BY <1>1, AssignedAre DEF Gives, INITIAL_SPONSOR_ID
<1>3. /\ SponsorHighest(member, s)
      /\ TransitHighest(member, s)
      /\ HistoryOK(History(member))
  BY DEF IInv, Inv, BatonOK
<1>4. ASSUME NEW n \in Members, IsSponsor(member, s, n) PROVE FALSE
  <2>1. member_count[s] <= member[n].member_id
    BY <1>2, <1>3, <1>4 DEF SponsorHighest
  <2>2. member[n].member_id < member_count[s] /\ member[n].member_id \in Nat
    BY <1>4 DEF IInv, Inv, Room, IsSponsor, MemberOK, CoreTypes
  <2> QED
    BY <1>1, <2>1, <2>2
<1>5. ASSUME NEW y, OnItsWay(member, s, y) PROVE FALSE
  <2>1. y \in History(member) /\ y.service = s /\ ~ IsAssigned(member[y.new_sponsor])
    BY <1>5 DEF OnItsWay
  <2>2. x.assigned_id <= y.assigned_id
    BY <1>2, <1>3, <1>5, <2>1 DEF TransitHighest
  <2>3. y.assigned_id <= member_count[s] /\ y.assigned_id \in Nat
    BY <1>3, <2>1 DEF HistoryOK, AssignmentOK, Assignments, MemberIds
  <2>4. x.assigned_id = y.assigned_id
    BY <1>1, <1>2, <2>2, <2>3
  <2>5. x = y
    BY <1>2, <1>3, <2>1, <2>4 DEF HistoryOK, GivenOnce
  <2> QED
    BY <1>1, <1>2, <2>1, <2>5
<1> QED
  BY <1>4, <1>5

(***************************************************************************)
(* OneBaton: process_pending_request and process_response pass the role of *)
(* the sponsor on so that, whatever is lost, repeated or overtaken, there  *)
(* is, from the founder's launch until the last member has it, one sponsor *)
(* or one response that its addressee has not taken yet, never two.        *)
(***************************************************************************)
THEOREM BatonNeverDoubled == ASSUME SomebodyToAgreeWith PROVE Spec => []OneBaton
<1>1. SomebodyToAgreeWith /\ IInv => OneBaton
  <2> SUFFICES ASSUME SomebodyToAgreeWith, IInv, NEW s \in Services
               PROVE  Cardinality(Sponsors(s) \cup {x.new_sponsor : x \in Unanswered(s)})
                        = IF Assigned(s) = {} \/ LastMembers(s) # {} THEN 0 ELSE 1
    BY DEF OneBaton
  <2> DEFINE Addressees == {x.new_sponsor : x \in Unanswered(s)}
             Holders == Sponsors(s) \cup Addressees
  <2>1. /\ OneSponsor(member, s)
        /\ TransitHighest(member, s)
        /\ BatonSomewhere(member, s)
        /\ Inv(member)
        /\ HistoryOK(History(member))
    BY DEF IInv, Inv, BatonOK
  <2>2. Given(s) = GivenIn(member, s)
    BY DEF Given, GivenIn
  <2>3. \A e : e \in Sponsors(s) <=> IsSponsor(member, s, e)
    BY DEF Sponsors, IsSponsor
  <2>4. \A e : e \in Addressees <=> \E x : OnItsWay(member, s, x) /\ e = x.new_sponsor
    BY <2>1, <2>2, GivenIs DEF Unanswered, OnItsWay
  <2>5. ASSUME NEW x, NEW y, OnItsWay(member, s, x), OnItsWay(member, s, y)
        PROVE  x = y
    <3>1. /\ x \in History(member) /\ x.service = s
          /\ y \in History(member) /\ y.service = s
      BY <2>5 DEF OnItsWay
    <3>2. x.assigned_id <= y.assigned_id /\ y.assigned_id <= x.assigned_id
      BY <2>1, <2>5, <3>1 DEF TransitHighest
    <3>3. x.assigned_id \in Nat /\ y.assigned_id \in Nat
      BY <2>1, <3>1 DEF HistoryOK, AssignmentOK, Assignments, MemberIds
    <3> QED
      BY <2>1, <3>1, <3>2, <3>3 DEF HistoryOK, GivenOnce
  <2>6. ASSUME NEW x, OnItsWay(member, s, x), NEW n, IsSponsor(member, s, n)
        PROVE  FALSE
    BY <2>1, <2>6 DEF TransitHighest, OnItsWay, IsSponsor
  <2>7. \A d, e \in Holders : d = e
    BY <2>1, <2>3, <2>4, <2>5, <2>6 DEF OneSponsor, IsSponsor
  <2>8. CASE Assigned(s) = {}
    <3>1. \A n \in Members : Service(n) = s => ~ IsAssigned(member[n])
      BY <2>8 DEF Assigned
    <3>2. \A n : ~ IsSponsor(member, s, n)
      BY <3>1 DEF IsSponsor, IInv, Inv, MemberOK, CountOK
    <3>3. ASSUME NEW x, OnItsWay(member, s, x) PROVE FALSE
      <4>1. x \in GivenIn(member, s)
        BY <2>1, <3>3, GivenIs DEF OnItsWay
      <4>2. PICK n \in Members : Service(n) = s /\ x \in member[n].response_message_cache
        BY <4>1 DEF GivenIn
      <4> QED
        BY <3>1, <4>2 DEF IInv, Inv, MemberOK, CacheOK
    <3>4. Holders = {}
      BY <2>3, <2>4, <3>2, <3>3
    <3> QED
      BY <2>8, <3>4, FS_EmptySet
  <2>9. CASE LastMembers(s) # {}
    <3>1. Holders = {}
      BY <2>3, <2>4, <2>9, LastHasIt DEF IsSponsor
    <3> QED
      BY <2>9, <3>1, FS_EmptySet
  <2>10. CASE Assigned(s) # {} /\ LastMembers(s) = {}
    <3>1. member[founder[s]].status # "down"
      BY <2>10, AssignedAre DEF Assigned
    <3>2. \A n \in Members : ~ IsLast(member, s, n)
      <4> SUFFICES ASSUME NEW n \in Members, IsLast(member, s, n) PROVE FALSE
        OBVIOUS
      <4>1. IsAssigned(member[n])
        BY ServiceTypes DEF IsLast, IsAssigned, DEFAULT_MEMBER_ID
      <4> QED
        BY <2>10, <4>1 DEF LastMembers, Assigned, IsLastMember, IsLast
    <3>3. \E e : e \in Holders
      BY <2>1, <2>3, <2>4, <3>1, <3>2 DEF BatonSomewhere
    <3> HIDE DEF Holders
    <3>4. PICK e : e \in Holders
      BY <3>3
    <3>5. Holders = {e}
      BY <2>7, <3>4
    <3>6. Cardinality(Holders) = 1
      BY <3>5, FS_Singleton
    <3> QED
      BY <2>10, <3>6 DEF Holders
  <2> QED
    BY <2>8, <2>9, <2>10
<1> QED
  BY <1>1, Invariant, PTL

\* What two members know of the same place of their group is the same.
LEMMA SamePlace ==
    ASSUME IInv, NEW m \in Members, NEW n \in Members, Service(m) = Service(n),
           NEW k \in DOMAIN member[m].group_secret, k \in DOMAIN member[n].group_secret
    PROVE  member[m].group_secret[k] = member[n].group_secret[k]
<1>1. /\ Gives(History(member), Service(m), k, member[m].group_secret[k])
      /\ Gives(History(member), Service(m), k, member[n].group_secret[k])
  BY DEF IInv, Inv, MemberOK, Backed
<1>2. HistoryOK(History(member)) /\ Service(m) \in Services
  BY ServiceTypes DEF IInv, Inv
<1> QED
  BY <1>1, <1>2, GivesUnique

(***************************************************************************)
(* KeyAgreement: with retransmissions too, two members of a group that     *)
(* contribute_statistics ended have computed the same group key.           *)
(***************************************************************************)
THEOREM KeysAgree == ASSUME SomebodyToAgreeWith PROVE Spec => []KeyAgreement
<1>1. IInv => KeyAgreement
  <2> SUFFICES ASSUME IInv, NEW s \in Services, NEW m \in Stopped(s), NEW n \in Stopped(s)
               PROVE  member[m].group_secret = member[n].group_secret
    BY DEF KeyAgreement
  <2>1. \A x \in Stopped(s) : /\ x \in Members
                              /\ Service(x) = s
                              /\ member[x].group_secret \in Seq(Members)
                              /\ Len(member[x].group_secret) = member_count[s]
    BY DEF Stopped, IInv, Inv, MemberOK, CoreTypes, StoppedOK, CountOK
  <2>2. /\ member[m].group_secret \in Seq(Members)
        /\ member[n].group_secret \in Seq(Members)
        /\ Len(member[m].group_secret) = Len(member[n].group_secret)
    BY <2>1
  <2>3. \A k \in 1 .. Len(member[m].group_secret) :
           member[m].group_secret[k] = member[n].group_secret[k]
    BY <2>1, <2>2, SamePlace
  <2> QED
    BY <2>2, <2>3
<1> QED
  BY <1>1, Invariant, PTL

(***************************************************************************)
(* UniqueIds: no two members ever have the same id, however often the      *)
(* responses that assign them are repeated.                                *)
(***************************************************************************)
THEOREM IdsUnique == ASSUME SomebodyToAgreeWith PROVE Spec => []UniqueIds
<1>1. IInv => UniqueIds
  <2> SUFFICES ASSUME IInv, NEW s \in Services, NEW m \in Assigned(s), NEW n \in Assigned(s),
                      member[m].member_id = member[n].member_id
               PROVE  m = n
    BY DEF UniqueIds
  <2>1. /\ Gives(History(member), s, member[m].member_id, m)
        /\ Gives(History(member), s, member[m].member_id, n)
    BY AssignedAre DEF Assigned
  <2>2. HistoryOK(History(member))
    BY DEF IInv, Inv
  <2> QED
    BY <2>1, <2>2, GivesUnique
<1> QED
  BY <1>1, Invariant, PTL

(***************************************************************************)
(* MapsAccurate: assigned_member_key_map and assigned_member_endpoint_map, *)
(* filled from responses and from the answers to info and synch requests   *)
(* in any order, name the same member for an id, and that member has it.   *)
(***************************************************************************)
THEOREM MapsAreAccurate == ASSUME SomebodyToAgreeWith PROVE Spec => []MapsAccurate
<1>1. IInv => MapsAccurate
  <2> SUFFICES ASSUME IInv, NEW s \in Services, NEW m \in Assigned(s), NEW n \in Members,
                      Service(n) = s
               PROVE  /\ m \in DOMAIN member[n].assigned_endpoints =>
                            member[n].assigned_endpoints[m] = member[m].member_id
                      /\ member[m].member_id \in DOMAIN member[n].assigned_keys =>
                            member[n].assigned_keys[member[m].member_id] = m
    BY DEF MapsAccurate
  <2>1. /\ Gives(History(member), s, member[m].member_id, m)
        /\ HistoryOK(History(member))
        /\ MapsOK(History(member), n, member[n])
    BY AssignedAre DEF Assigned, IInv, Inv, MemberOK
  <2>2. ASSUME m \in DOMAIN member[n].assigned_endpoints
        PROVE  member[n].assigned_endpoints[m] = member[m].member_id
    <3>1. Gives(History(member), s, member[n].assigned_endpoints[m], m)
      BY <2>1, <2>2 DEF MapsOK
    <3> QED
      BY <2>1, <3>1, GivesUnique
  <2>3. ASSUME member[m].member_id \in DOMAIN member[n].assigned_keys
        PROVE  member[n].assigned_keys[member[m].member_id] = m
    <3>1. Gives(History(member), s, member[m].member_id,
                member[n].assigned_keys[member[m].member_id])
      BY <2>1, <2>3 DEF MapsOK
    <3> QED
      BY <2>1, <3>1, GivesUnique
  <2> QED
    BY <2>2, <2>3
<1> QED
  BY <1>1, Invariant, PTL

-----------------------------------------------------------------------------
(***************************************************************************)
(* The ids of a group are given without a gap: those of its n responses    *)
(* are 2 .. n + 1.                                                         *)
(***************************************************************************)
Size(mem, s) == Cardinality(GivenIn(mem, s))

NoGap(mem, s) ==
    /\ IsFiniteSet(GivenIn(mem, s))
    /\ \A id : (\E x \in GivenIn(mem, s) : x.assigned_id = id) <=> id \in 2 .. Size(mem, s) + 1

SizeInv == IInv /\ \A s \in Services : NoGap(member, s)

\* All but m are as before.
Others(m) == \A n \in Members \ {m} : member'[n] = member[n]

LEMMA AdvancesIs ==
    ASSUME IInv, NEW m \in Members, Advances(m)
    PROVE  /\ Others(m)
           /\ Stable(member[m], member'[m])
           /\ member[m].status # "stopped"
           /\ member'[m].status # "down"
           /\ member[m].status = "down" => member'[m].response_message_cache = {}
<1>1. PICK next : /\ member' = [member EXCEPT ![m] = next]
                  /\ Stable(member[m], next)
                  /\ next.status # "down"
                  /\ member[m].status = "down" => next.response_message_cache = {}
  BY DEF Advances
<1>2. member'[m] = next /\ \A n \in Members : n # m => member'[n] = member[n]
  BY <1>1, Updated DEF IInv, Inv
<1> QED
  BY <1>1, <1>2 DEF Others, Advances

\* A member at work makes at most one assignment, for its own group.
LEMMA GivenStep ==
    ASSUME IInv, IInv', NEW m \in Members, Others(m), Stable(member[m], member'[m]),
           NEW s \in Services
    PROVE  \/ GivenIn(member', s) = GivenIn(member, s)
           \/ /\ s = Service(m)
              /\ \E x : /\ x \notin GivenIn(member, s)
                        /\ GivenIn(member', s) = GivenIn(member, s) \cup {x}
<1> DEFINE old == member[m].response_message_cache
           new == member'[m].response_message_cache
<1>1. CASE old = new
  <2>1. \A n \in Members : member'[n].response_message_cache = member[n].response_message_cache
    BY <1>1 DEF Others
  <2> QED
    BY <2>1 DEF GivenIn
<1>2. CASE s # Service(m)
  BY <1>2 DEF GivenIn, Others
<1>3. CASE old # new /\ s = Service(m)
  <2>1. old = {}
    BY <1>3 DEF Stable
  <2>2. PICK x : x \in new
    BY <1>3, <2>1
  <2>3. \A y \in new : y = x
    <3> SUFFICES ASSUME NEW y \in new PROVE y = x
      OBVIOUS
    <3>1. /\ y \in History(member') /\ x \in History(member')
      BY <2>2, HistoryMember
    <3>2. /\ y.from = m /\ x.from = m
          /\ y.assigned_id = x.assigned_id
      <4>1. MemberOK(History(member'), m, member'[m])
        BY DEF IInv, Inv
      <4> QED
        BY <2>2, <4>1 DEF MemberOK, CacheOK
    <3>3. y.service = x.service
      BY <3>1, <3>2 DEF IInv, Inv, HistoryOK, AssignmentOK
    <3> QED
      BY <3>1, <3>2, <3>3 DEF IInv, Inv, HistoryOK, GivenOnce
  <2>4. new = {x}
    BY <2>2, <2>3
  <2>5. x \notin GivenIn(member, s)
    <3> SUFFICES ASSUME x \in GivenIn(member, s) PROVE FALSE
      OBVIOUS
    <3>1. PICK n \in Members : x \in member[n].response_message_cache
      BY DEF GivenIn
    <3>2. x.from = n
      BY <3>1 DEF IInv, Inv, MemberOK, CacheOK
    <3>3. x.from = m
      BY <2>2 DEF IInv, Inv, MemberOK, CacheOK
    <3> QED
      BY <2>1, <3>1, <3>2, <3>3
  <2>6. GivenIn(member', s) = GivenIn(member, s) \cup {x}
    BY <1>3, <2>1, <2>4 DEF GivenIn, Others
  <2> QED
    BY <1>3, <2>5, <2>6
<1> QED
  BY <1>1, <1>2, <1>3

\* The id of the newest response is the next one.
LEMMA NextId ==
    ASSUME IInv, IInv', NEW s \in Services, NoGap(member, s),
           NEW x, x \notin GivenIn(member, s),
           GivenIn(member', s) = GivenIn(member, s) \cup {x}
    PROVE  /\ Size(member, s) \in Nat
           /\ Size(member', s) = Size(member, s) + 1
           /\ x.assigned_id = Size(member, s) + 2
           /\ NoGap(member', s)
<1> DEFINE G == GivenIn(member, s)
           K == GivenIn(member', s)
           N == Size(member, s)
<1>1. /\ IsFiniteSet(K)
      /\ Size(member', s) = N + 1
      /\ N \in Nat
  BY FS_AddElement, FS_CardinalityType DEF NoGap, Size
<1>2. \A y : y \in K <=> y \in History(member') /\ y.service = s
  BY GivenIs DEF IInv
<1>3. /\ HistoryOK(History(member'))
      /\ x \in History(member') /\ x.service = s
      /\ x \in K
  BY <1>2 DEF IInv, Inv
<1> HIDE DEF G, K, N
<1>4. /\ x.assigned_id \in Nat
      /\ x.assigned_id >= 2
      /\ Gives(History(member'), s, x.assigned_id - 1, x.from)
  BY <1>3 DEF HistoryOK, AssignmentOK, Assignments, MemberIds
<1>5. \A id : (\E y \in G : y.assigned_id = id) <=> id \in 2 .. N + 1
  BY DEF NoGap, G, N
<1>6. x.assigned_id - 1 \in 1 .. N + 1
  <2>1. CASE x.assigned_id - 1 = 1
    BY <1>1, <1>4, <2>1
  <2>2. CASE x.assigned_id - 1 # 1
    <3>1. PICK y \in History(member') : y.service = s /\ y.assigned_id = x.assigned_id - 1
      BY <1>4, <2>2 DEF Gives, INITIAL_SPONSOR_ID
    <3>2. y # x /\ y \in K
      BY <1>2, <1>4, <3>1
    <3>3. y \in G
      BY <3>2 DEF G, K
    <3>4. x.assigned_id - 1 \in 2 .. N + 1
      BY <1>5, <3>1, <3>3
    <3> QED
      BY <3>4
  <2> QED
    BY <2>1, <2>2
<1>7. x.assigned_id \notin 2 .. N + 1
  <2> SUFFICES ASSUME x.assigned_id \in 2 .. N + 1 PROVE FALSE
    OBVIOUS
  <2>1. PICK y \in G : y.assigned_id = x.assigned_id
    BY <1>5
  <2>2. y \in K /\ y # x
    BY <2>1 DEF G, K
  <2>3. y \in History(member') /\ y.service = s
    BY <1>2, <2>2
  <2> QED
    BY <1>3, <2>1, <2>2, <2>3 DEF HistoryOK, GivenOnce
<1>8. x.assigned_id = N + 2
  BY <1>1, <1>4, <1>6, <1>7
<1>9. \A id : (\E y \in K : y.assigned_id = id) <=> id \in 2 .. Size(member', s) + 1
  <2>1. \A id : (\E y \in K : y.assigned_id = id)
                   <=> (\E y \in G : y.assigned_id = id) \/ id = N + 2
    BY <1>8 DEF G, K
  <2>2. \A id : id \in 2 .. (N + 1) + 1 <=> id \in 2 .. N + 1 \/ id = N + 2
    BY <1>1
  <2> QED
    BY <1>1, <1>5, <2>1, <2>2
<1>10. NoGap(member', s)
  BY <1>1, <1>9 DEF NoGap, K
<1> QED
  BY <1>1, <1>8, <1>10 DEF N

LEMMA SizeNext == ASSUME SomebodyToAgreeWith, SizeInv, [Next]_vars PROVE SizeInv'
<1>1. IInv /\ IInv'
  BY NextInv, StutterInv DEF SizeInv
<1>2. CASE UNCHANGED member
  <2>1. \A s \in Services : NoGap(member', s)
    BY <1>2 DEF SizeInv
  <2> QED
    BY <1>1, <2>1 DEF SizeInv
<1>3. ASSUME NEW m \in Members, Advances(m)
      PROVE  SizeInv'
  <2>1. Others(m) /\ Stable(member[m], member'[m])
    BY <1>1, <1>3, AdvancesIs
  <2>2. ASSUME NEW s \in Services PROVE NoGap(member', s)
    <3>1. NoGap(member, s)
      BY DEF SizeInv
    <3>2. CASE GivenIn(member', s) = GivenIn(member, s)
      BY <3>1, <3>2 DEF NoGap, Size
    <3>3. CASE \E x : /\ x \notin GivenIn(member, s)
                      /\ GivenIn(member', s) = GivenIn(member, s) \cup {x}
      BY <1>1, <3>1, <3>3, NextId
    <3> QED
      BY <1>1, <2>1, <3>2, <3>3, GivenStep
  <2> QED
    BY <1>1, <2>2 DEF SizeInv
<1>4. CASE UNCHANGED vars
  BY <1>2, <1>4 DEF vars
<1>5. CASE Next
  <2>1. UNCHANGED member \/ \E m \in Members : Advances(m)
    BY <1>1, <1>5, NextInv
  <2> QED
    BY <1>2, <1>3, <2>1
<1> QED
  BY <1>4, <1>5

LEMMA SizeInit == Init => SizeInv
<1> SUFFICES ASSUME Init PROVE SizeInv
  OBVIOUS
<1>1. \A m \in Members : member[m].response_message_cache = {}
  BY DEF Init, InitialMember
<1>2. \A s \in Services : GivenIn(member, s) = {}
  BY <1>1 DEF GivenIn
<1>3. \A s \in Services : IsFiniteSet(GivenIn(member, s)) /\ Size(member, s) = 0
  BY <1>2, FS_EmptySet DEF Size
<1>4. \A s \in Services : NoGap(member, s)
  BY <1>2, <1>3 DEF NoGap
<1> QED
  BY <1>4, InitInv DEF SizeInv

-----------------------------------------------------------------------------
(***************************************************************************)
(* StrDhRtx implements GroupKeyAgreement.  The group of s, for the states  *)
(* mem of the members:                                                     *)
(***************************************************************************)
HolderIn(mem, s, id) ==
    IF id = INITIAL_SPONSOR_ID
    THEN founder[s]
    ELSE (CHOOSE msg \in GivenIn(mem, s) : msg.assigned_id = id).new_sponsor

GroupIn(mem, s) ==
    IF mem[founder[s]].status = "down"
    THEN <<>>
    ELSE [id \in 1 .. Size(mem, s) + 1 |-> HolderIn(mem, s, id)]

LEMMA GroupMapped ==
    \A s : /\ Group(s) = GroupIn(member, s)
           /\ Group(s)' = GroupIn(member', s)
BY DEF Group, GroupIn, HolderIn, Size, Given, GivenIn

\* The group is whom the responses give the ids, in their order.
LEMMA GroupShape ==
    ASSUME NEW mem, Inv(mem), NEW s \in Services, NoGap(mem, s),
           mem[founder[s]].status # "down"
    PROVE  LET g == GroupIn(mem, s)
           IN  /\ g \in Seq(Members)
               /\ Len(g) = Size(mem, s) + 1
               /\ \A id \in 1 .. Len(g) : Gives(History(mem), s, id, g[id])
               /\ \A id, e : Gives(History(mem), s, id, e) => id \in 1 .. Len(g) /\ g[id] = e
<1> DEFINE g == GroupIn(mem, s)
           N == Size(mem, s) + 1
           H == History(mem)
<1>1. /\ HistoryOK(H)
      /\ founder[s] \in Members
      /\ N \in Nat \ {0}
      /\ \A x : x \in GivenIn(mem, s) <=> x \in H /\ x.service = s
      /\ \A id : (\E x \in GivenIn(mem, s) : x.assigned_id = id) <=> id \in 2 .. N
  <2>1. Size(mem, s) \in Nat
    BY FS_CardinalityType DEF NoGap, Size
  <2>2. \A id : (\E x \in GivenIn(mem, s) : x.assigned_id = id) <=> id \in 2 .. N
    BY DEF NoGap
  <2> QED
    BY <2>1, <2>2, ServiceTypes, GivenIs DEF Inv
<1>2. g = [id \in 1 .. N |-> HolderIn(mem, s, id)]
  BY DEF GroupIn
<1> HIDE DEF g, N, H
<1>3. ASSUME NEW id \in 1 .. N
      PROVE  Gives(H, s, id, HolderIn(mem, s, id)) /\ HolderIn(mem, s, id) \in Members
  <2>1. CASE id = INITIAL_SPONSOR_ID
    BY <1>1, <2>1 DEF Gives, HolderIn
  <2>2. CASE id # INITIAL_SPONSOR_ID
    <3> DEFINE x == CHOOSE msg \in GivenIn(mem, s) : msg.assigned_id = id
    <3>1. \E msg \in GivenIn(mem, s) : msg.assigned_id = id
      BY <1>1, <2>2 DEF INITIAL_SPONSOR_ID
    <3>2. x \in GivenIn(mem, s) /\ x.assigned_id = id
      BY <3>1
    <3>3. HolderIn(mem, s, id) = x.new_sponsor
      BY <2>2 DEF HolderIn
    <3> HIDE DEF x
    <3>4. x \in H /\ x.service = s /\ x.new_sponsor \in Members
      BY <1>1, <3>2 DEF HistoryOK, AssignmentOK, Assignments
    <3> QED
      BY <3>2, <3>3, <3>4 DEF Gives
  <2> QED
    BY <2>1, <2>2
<1>4. /\ g \in Seq(Members)
      /\ Len(g) = N
      /\ \A id \in 1 .. N : g[id] = HolderIn(mem, s, id)
  BY <1>1, <1>2, <1>3
<1>5. ASSUME NEW id, NEW e, Gives(H, s, id, e) PROVE id \in 1 .. N /\ g[id] = e
  <2>1. id \in 1 .. N
    <3>1. CASE id = INITIAL_SPONSOR_ID
      BY <1>1, <3>1 DEF INITIAL_SPONSOR_ID
    <3>2. CASE \E x \in H : x.service = s /\ x.assigned_id = id
      <4>1. id \in 2 .. N
        BY <1>1, <3>2
      <4> QED
        BY <4>1
    <3> QED
      BY <1>5, <3>1, <3>2 DEF Gives
  <2>2. Gives(H, s, id, g[id])
    BY <1>3, <1>4, <2>1
  <2> QED
    BY <1>1, <1>5, <2>1, <2>2, GivesUnique
<1> QED
  BY <1>3, <1>4, <1>5 DEF g, N, H

LEMMA GroupType ==
    ASSUME NEW mem, Inv(mem), NEW s \in Services, NoGap(mem, s)
    PROVE  GroupIn(mem, s) \in Seq(Members)
<1>1. CASE mem[founder[s]].status = "down"
  BY <1>1 DEF GroupIn
<1> QED
  BY <1>1, GroupShape

\* All a member knows is the group's key up to some place, its own or later.
LEMMA KeyInGroup ==
    ASSUME NEW mem, Inv(mem), NEW m \in Members, NoGap(mem, Service(m)),
           mem[m].status # "down"
    PROVE  LET g == GroupIn(mem, Service(m))
               k == mem[m].group_secret
           IN  /\ k \in Seq(Members)
               /\ Len(k) <= Len(g)
               /\ k = SubSeq(g, 1, Len(k))
               /\ k # <<>> => \E i \in DOMAIN k : k[i] = m
<1> DEFINE s == Service(m)
           g == GroupIn(mem, s)
           k == mem[m].group_secret
<1>1. /\ MemberOK(History(mem), m, mem[m])
      /\ s \in Services
      /\ g \in Seq(Members)
      /\ k \in Seq(Members)
  BY ServiceTypes, GroupType DEF Inv, MemberOK, CoreTypes
<1>2. CASE ~ IsAssigned(mem[m])
  <2>1. k = <<>>
    BY <1>1, <1>2 DEF MemberOK, CountOK
  <2> HIDE DEF g
  <2> QED
    BY <1>1, <2>1
<1>3. CASE IsAssigned(mem[m])
  <2>1. /\ mem[m].member_id \in DOMAIN k
        /\ k[mem[m].member_id] = m
        /\ \A i \in DOMAIN k : Gives(History(mem), s, i, k[i])
    BY <1>1, <1>3, OwnId DEF MemberOK, Backed, CountOK
  <2>2. mem[founder[s]].status # "down"
    <3>1. CASE m = founder[s]
      BY <3>1
    <3>2. CASE m # founder[s]
      <4>1. \E x \in History(mem) : x.service = s
        BY <2>1, <3>2 DEF Gives
      <4> QED
        BY <1>1, <4>1 DEF Inv, BatonOK, FounderFirst
    <3> QED
      BY <3>1, <3>2
  <2>3. \A i \in DOMAIN k : i \in 1 .. Len(g) /\ g[i] = k[i]
    BY <1>1, <2>1, <2>2, GroupShape
  <2> HIDE DEF g, k
  <2>4. Len(k) <= Len(g)
    <3>1. CASE Len(k) = 0
      BY <1>1, <3>1
    <3>2. CASE Len(k) # 0
      <4>1. Len(k) \in DOMAIN k
        BY <1>1, <3>2
      <4> QED
        BY <1>1, <2>3, <4>1
    <3> QED
      BY <3>1, <3>2
  <2>5. k = SubSeq(g, 1, Len(k))
    BY <1>1, <2>3, <2>4
  <2> QED
    BY <1>1, <2>1, <2>4, <2>5 DEF g, k
<1> QED
  BY <1>2, <1>3

\* A response more makes its addressee the last of the group.
LEMMA GroupAdds ==
    ASSUME SizeInv, SizeInv', NEW s \in Services,
           NEW x, x \notin GivenIn(member, s),
           GivenIn(member', s) = GivenIn(member, s) \cup {x},
           member[founder[s]].status # "down",
           member'[founder[s]].status # "down"
    PROVE  LET g == GroupIn(member, s)
               e == x.new_sponsor
           IN  /\ GroupIn(member', s) = Append(g, e)
               /\ g # <<>>
               /\ e \in Members
               /\ Service(e) = s
               /\ e # founder[s]
               /\ \A i \in DOMAIN g : g[i] # e
<1> DEFINE g == GroupIn(member, s)
           h == GroupIn(member', s)
           e == x.new_sponsor
           N == Size(member, s) + 1
           H == History(member)
           K == History(member')
<1>1. /\ IInv /\ IInv'
      /\ Inv(member) /\ Inv(member')
      /\ NoGap(member, s) /\ NoGap(member', s)
      /\ HistoryOK(K)
  BY DEF SizeInv, IInv, Inv
<1>2. /\ g \in Seq(Members)
      /\ Len(g) = N
      /\ \A id \in 1 .. Len(g) : Gives(H, s, id, g[id])
  BY <1>1, GroupShape
<1>3. /\ h \in Seq(Members)
      /\ Len(h) = Size(member', s) + 1
      /\ \A id, d : Gives(K, s, id, d) => id \in 1 .. Len(h) /\ h[id] = d
  BY <1>1, GroupShape
<1>4. /\ N \in Nat \ {0}
      /\ Len(h) = N + 1
      /\ x.assigned_id = N + 1
  <2>1. /\ Size(member, s) \in Nat
        /\ Size(member', s) = Size(member, s) + 1
        /\ x.assigned_id = Size(member, s) + 2
    BY <1>1, NextId
  <2> QED
    BY <1>3, <2>1
<1>5. /\ \A y : y \in GivenIn(member, s) <=> y \in H /\ y.service = s
      /\ \A y : y \in GivenIn(member', s) <=> y \in K /\ y.service = s
  BY <1>1, GivenIs
<1> HIDE DEF g, h, N, H, K
<1>6. /\ x \in K /\ x.service = s
      /\ \A y \in H : y.service = s => y \in K /\ y # x
  BY <1>5
<1>7. /\ e \in Members
      /\ Service(e) = s
      /\ e # founder[s]
  BY <1>1, <1>6 DEF HistoryOK, AssignmentOK, Assignments
<1>8. \A id, d : Gives(H, s, id, d) => Gives(K, s, id, d)
  BY <1>6 DEF Gives
<1>9. h[N + 1] = e /\ \A id \in 1 .. N : h[id] = g[id]
  <2>1. Gives(K, s, N + 1, e)
    BY <1>4, <1>6 DEF Gives
  <2> QED
    BY <1>2, <1>3, <1>8, <2>1
<1>10. h = Append(g, e)
  BY <1>2, <1>3, <1>4, <1>7, <1>9
<1>11. ASSUME NEW i \in DOMAIN g, g[i] = e PROVE FALSE
  <2>1. i \in 1 .. N /\ Gives(H, s, i, e)
    BY <1>2, <1>11
  <2>2. PICK y \in H : y.service = s /\ y.new_sponsor = e
    BY <1>7, <2>1 DEF Gives
  <2> QED
    BY <1>1, <1>6, <2>2 DEF HistoryOK, GivenOnce
<1>12. g # <<>>
  BY <1>2, <1>4
<1> QED
  BY <1>7, <1>10, <1>11, <1>12 DEF g, h

\* A step of m, seen from outside.
Visible(m) ==
    /\ member[m].status # "stopped"
    /\ member'[m].status # "down"
    /\ Others(m)
    /\ Prefix(member[m].group_secret, member'[m].group_secret)

LEMMA MemberSteps ==
    ASSUME SizeInv, SizeInv', NEW m \in Members, Visible(m),
           \A s \in Services \ {Service(m)} : Group(s)' = Group(s),
           Group(Service(m))' \in
               {Group(Service(m))} \cup
               {Append(Group(Service(m)), e) :
                   e \in {n \in Members :
                            /\ Service(n) = Service(m)
                            /\ n \notin Agreement!InGroup(Group(Service(m)))
                            /\ (Group(Service(m)) = <<>>) <=> (n = founder[Service(m)])}}
    PROVE  Agreement!Step(m)
<1> DEFINE S == Service(m)
           old == member[m].group_secret
           key == member'[m].group_secret
           ended == {n \in Members : member[n].status = "stopped"}
           endedNext == {n \in Members : member'[n].status = "stopped"}
<1>1. /\ S \in Services
      /\ Inv(member')
      /\ NoGap(member', S)
      /\ MemberOK(History(member), m, member[m])
      /\ MemberOK(History(member'), m, member'[m])
      /\ old \in Seq(Members)
      /\ key \in Seq(Members)
  <2>1. IInv /\ IInv' /\ S \in Services /\ NoGap(member', S)
    BY ServiceTypes DEF SizeInv
  <2>2. /\ MemberOK(History(member), m, member[m])
        /\ MemberOK(History(member'), m, member'[m])
    BY <2>1 DEF IInv, Inv
  <2> QED
    BY <2>1, <2>2 DEF IInv, MemberOK, CoreTypes
<1>2. [s \in Services |-> Group(s)]' = [[s \in Services |-> Group(s)] EXCEPT ![S] = Group(S)']
  BY <1>1
<1>3. [n \in Members |-> member[n].group_secret]'
        = [[n \in Members |-> member[n].group_secret] EXCEPT ![m] = key]
  BY DEF Visible, Others
<1>4. /\ Len(key) \in Len(old) .. Len(Group(S)')
      /\ key = SubSeq(Group(S)', 1, Len(key))
      /\ key # <<>> => m \in Agreement!InGroup(key)
  <2>1. Group(S)' = GroupIn(member', S)
    BY GroupMapped
  <2>2. GroupIn(member', S) \in Seq(Members)
    BY <1>1, GroupType
  <2>3. /\ Len(key) <= Len(GroupIn(member', S))
        /\ key = SubSeq(GroupIn(member', S), 1, Len(key))
        /\ key # <<>> => \E i \in DOMAIN key : key[i] = m
    BY <1>1, KeyInGroup DEF Visible
  <2>4. Len(old) <= Len(key)
    BY DEF Visible, Prefix
  <2> HIDE DEF key, old
  <2> QED
    BY <1>1, <2>1, <2>2, <2>3, <2>4 DEF Agreement!InGroup
<1>5. m \notin ended
  BY DEF Visible
<1>6. \/ endedNext = ended
      \/ Len(key) = member_count[S] /\ endedNext = ended \cup {m}
  <2>1. \A n \in Members \ {m} : n \in endedNext <=> n \in ended
    BY DEF Visible, Others
  <2>2. CASE member'[m].status # "stopped"
    BY <1>5, <2>1, <2>2
  <2>3. CASE member'[m].status = "stopped"
    <3>1. Len(key) = member_count[S]
      BY <1>1, <2>3 DEF MemberOK, StoppedOK, CountOK
    <3> QED
      BY <2>1, <2>3, <3>1
  <2> QED
    BY <2>2, <2>3
<1> HIDE DEF ended, endedNext, key, old
<1>7. key \in {k \in {SubSeq(Group(S)', 1, n) : n \in Len(old) .. Len(Group(S)')} :
                  k # <<>> => m \in Agreement!InGroup(k)}
  BY <1>4
<1>8. /\ Agreement!Service(m) = S
      /\ [s \in Services |-> Group(s)][S] = Group(S)
      /\ [n \in Members |-> member[n].group_secret][m] = old
  BY <1>1 DEF Agreement!Service, Service, old
<1>9. /\ Agreement!Service(m) = S
      /\ Group(S)' \in Agreement!Grown(S)
  BY <1>8 DEF Agreement!Grown, Agreement!Service, Service
<1>10. key \in Agreement!Learnable(m, Group(S)')
  BY <1>7, <1>8 DEF Agreement!Learnable
<1>11. ended' = endedNext
  BY DEF ended, endedNext
<1>12. \/ ended' = ended
       \/ /\ Len(key) = member_count[S]
          /\ ended' = ended \cup {m}
  BY <1>6, <1>11
<1> QED
  BY <1>2, <1>3, <1>5, <1>9, <1>10, <1>12 DEF Agreement!Step, ended

\* Without a new response the group is the same, unless it is founded.
LEMMA GroupKept ==
    ASSUME NEW s \in Services,
           GivenIn(member', s) = GivenIn(member, s),
           member[founder[s]].status = "down" <=> member'[founder[s]].status = "down"
    PROVE  Group(s)' = Group(s)
<1>1. GroupIn(member', s) = GroupIn(member, s)
  BY DEF GroupIn, HolderIn, Size
<1> QED
  BY <1>1, GroupMapped

\* A founder's first step makes it the first of its group.
LEMMA GroupFounded ==
    ASSUME SizeInv, SizeInv', NEW s \in Services, Others(founder[s]),
           member[founder[s]].status = "down",
           member'[founder[s]].status # "down",
           member'[founder[s]].response_message_cache = {}
    PROVE  /\ Group(s) = <<>>
           /\ Group(s)' = Append(<<>>, founder[s])
<1> DEFINE g == GroupIn(member', s)
           f == founder[s]
<1>1. /\ Inv(member) /\ Inv(member')
      /\ NoGap(member', s)
      /\ f \in Members
  BY ServiceTypes DEF SizeInv, IInv
<1>2. GivenIn(member, s) = {}
  BY <1>1, GivenIs DEF Inv, BatonOK, FounderFirst
<1>3. GivenIn(member', s) = {}
  <2>1. ASSUME NEW n \in Members, Service(n) = s
        PROVE  member'[n].response_message_cache = {}
    <3>1. CASE n = f
      BY <3>1
    <3>2. CASE n # f
      <4>1. member'[n] = member[n]
        BY <3>2 DEF Others
      <4>2. member[n].response_message_cache = {}
        BY <1>2, <2>1 DEF GivenIn
      <4> QED
        BY <4>1, <4>2
    <3> QED
      BY <3>1, <3>2
  <2> QED
    BY <2>1 DEF GivenIn
<1>4. Size(member', s) = 0
  BY <1>3, FS_EmptySet DEF Size
<1>5. /\ g \in Seq(Members)
      /\ Len(g) = 1
      /\ \A id, e : Gives(History(member'), s, id, e) => id \in 1 .. Len(g) /\ g[id] = e
  <2>1. /\ g \in Seq(Members)
        /\ Len(g) = Size(member', s) + 1
        /\ \A id, e : Gives(History(member'), s, id, e) => id \in 1 .. Len(g) /\ g[id] = e
    BY <1>1, GroupShape
  <2> HIDE DEF g
  <2> QED
    BY <1>4, <2>1
<1>6. Gives(History(member'), s, 1, f)
  BY DEF Gives, INITIAL_SPONSOR_ID
<1>7. Group(s) = <<>> /\ Group(s)' = g
  <2>1. Group(s) = <<>>
    BY DEF Group
  <2> QED
    BY <2>1, GroupMapped
<1> HIDE DEF g, f
<1>8. g[1] = f
  BY <1>5, <1>6
<1>9. g = Append(<<>>, f)
  BY <1>1, <1>5, <1>8
<1> QED
  BY <1>7, <1>9 DEF f

\* What a step of m makes of the groups.
LEMMA GroupSteps ==
    ASSUME SizeInv, SizeInv', NEW m \in Members, Others(m),
           Stable(member[m], member'[m]),
           member'[m].status # "down",
           member[m].status = "down" => member'[m].response_message_cache = {},
           NEW s \in Services
    PROVE  \/ Group(s)' = Group(s)
           \/ /\ s = Service(m)
              /\ \E e \in Members :
                    /\ Group(s)' = Append(Group(s), e)
                    /\ Service(e) = s
                    /\ (Group(s) = <<>>) <=> (e = founder[s])
                    /\ \A i \in DOMAIN Group(s) : Group(s)[i] # e
<1>1. /\ IInv /\ IInv'
      /\ Inv(member) /\ Inv(member')
      /\ founder[s] \in Members
      /\ Service(founder[s]) = s
  BY ServiceTypes DEF SizeInv, IInv
<1>2. Group(s) = GroupIn(member, s) /\ Group(s)' = GroupIn(member', s)
  BY GroupMapped
<1>3. CASE m = founder[s] /\ member[m].status = "down"
  <2>1. Group(s) = <<>> /\ Group(s)' = Append(<<>>, m)
    BY <1>3, GroupFounded
  <2> QED
    BY <1>1, <1>3, <2>1
<1>4. CASE ~ (m = founder[s] /\ member[m].status = "down")
  <2>1. member[founder[s]].status = "down" <=> member'[founder[s]].status = "down"
    <3>1. CASE founder[s] = m
      BY <1>4, <3>1
    <3>2. CASE founder[s] # m
      <4>1. member'[founder[s]] = member[founder[s]]
        BY <1>1, <3>2 DEF Others
      <4> QED
        BY <4>1
    <3> QED
      BY <3>1, <3>2
  <2>2. CASE GivenIn(member', s) = GivenIn(member, s)
    BY <2>1, <2>2, GroupKept
  <2>3. ASSUME NEW x, s = Service(m), x \notin GivenIn(member, s),
               GivenIn(member', s) = GivenIn(member, s) \cup {x}
        PROVE  /\ s = Service(m)
               /\ \E e \in Members :
                    /\ Group(s)' = Append(Group(s), e)
                    /\ Service(e) = s
                    /\ (Group(s) = <<>>) <=> (e = founder[s])
                    /\ \A i \in DOMAIN Group(s) : Group(s)[i] # e
    <3>1. x \in History(member') /\ x.service = s
      BY <1>1, <2>3, GivenIs
    <3>2. member'[founder[s]].status # "down"
      BY <1>1, <3>1 DEF Inv, BatonOK, FounderFirst
    <3>3. member[founder[s]].status # "down"
      BY <2>1, <3>2
    <3> DEFINE e == x.new_sponsor
    <3>4. /\ GroupIn(member', s) = Append(GroupIn(member, s), e)
          /\ GroupIn(member, s) # <<>>
          /\ e \in Members
          /\ Service(e) = s
          /\ e # founder[s]
          /\ \A i \in DOMAIN GroupIn(member, s) : GroupIn(member, s)[i] # e
      BY <2>3, <3>2, <3>3, GroupAdds
    <3> HIDE DEF e
    <3>5. /\ Group(s)' = Append(Group(s), e)
          /\ Group(s) # <<>>
          /\ \A i \in DOMAIN Group(s) : Group(s)[i] # e
      BY <1>2, <3>4
    <3> QED
      BY <2>3, <3>4, <3>5
  <2> QED
    BY <1>1, <2>2, <2>3, GivenStep
<1> QED
  BY <1>3, <1>4

\* Every step of a member is a step of GroupKeyAgreement.
LEMMA AdvancesImplements ==
    ASSUME SizeInv, SizeInv', NEW m \in Members, Advances(m)
    PROVE  Agreement!Step(m)
<1>1. /\ Others(m)
      /\ Stable(member[m], member'[m])
      /\ member[m].status # "stopped"
      /\ member'[m].status # "down"
      /\ member[m].status = "down" => member'[m].response_message_cache = {}
  BY AdvancesIs DEF SizeInv
<1>2. Visible(m)
  BY <1>1 DEF Visible, Stable
<1>3. \A s \in Services \ {Service(m)} : Group(s)' = Group(s)
  BY <1>1, GroupSteps
<1>4. Service(m) \in Services
  BY ServiceTypes
<1>5. CASE Group(Service(m))' = Group(Service(m))
  BY <1>2, <1>3, <1>5, MemberSteps
<1>6. CASE Group(Service(m))' # Group(Service(m))
  <2> DEFINE g == Group(Service(m))
  <2>1. \E e \in Members :
           /\ Group(Service(m))' = Append(g, e)
           /\ Service(e) = Service(m)
           /\ (g = <<>>) <=> (e = founder[Service(m)])
           /\ \A i \in DOMAIN g : g[i] # e
    BY <1>1, <1>4, <1>6, GroupSteps
  <2> HIDE DEF g
  <2>2. PICK e \in Members :
           /\ Group(Service(m))' = Append(g, e)
           /\ Service(e) = Service(m)
           /\ (g = <<>>) <=> (e = founder[Service(m)])
           /\ \A i \in DOMAIN g : g[i] # e
    BY <2>1
  <2>3. e \notin Agreement!InGroup(g)
    BY <2>2 DEF Agreement!InGroup
  <2>4. e \in {n \in Members :
                 /\ Service(n) = Service(m)
                 /\ n \notin Agreement!InGroup(g)
                 /\ (g = <<>>) <=> (n = founder[Service(m)])}
    BY <2>2, <2>3
  <2> QED
    BY <1>2, <1>3, <2>2, <2>4, MemberSteps DEF g
<1> QED
  BY <1>5, <1>6

LEMMA InitImplements == Init => Agreement!Init
<1> SUFFICES ASSUME Init PROVE Agreement!Init
  OBVIOUS
<1>1. \A m \in Members : /\ member[m].status = "down"
                         /\ member[m].group_secret = <<>>
  BY DEF Init, InitialMember
<1>2. \A s \in Services : Group(s) = <<>>
  BY <1>1, ServiceTypes DEF Group
<1> QED
  BY <1>1, <1>2 DEF Agreement!Init

(***************************************************************************)
(* ImplementsGroupKeyAgreement: whatever the network loses, repeats or     *)
(* reorders, and whenever the timers expire, the protocol is one of        *)
(* members that admit one after the other to a group whose key they learn  *)
(* up to some place, and stop only with the whole of it.                   *)
(***************************************************************************)
THEOREM StrDhRtxImplementsGroupKeyAgreement ==
    ASSUME SomebodyToAgreeWith PROVE Spec => ImplementsGroupKeyAgreement
<1> DEFINE visible == <<[s \in Services |-> Group(s)],
                        [m \in Members |-> member[m].group_secret],
                        {m \in Members : member[m].status = "stopped"}>>
<1>1. SizeInv /\ [Next]_vars => SizeInv'
  BY SizeNext
<1>2. ASSUME SizeInv, SizeInv', [Next]_vars
      PROVE  [Agreement!Next]_visible
  <2>1. CASE UNCHANGED member
    BY <2>1 DEF Group, Given
  <2>2. ASSUME NEW m \in Members, Advances(m) PROVE Agreement!Next
    <3>1. Agreement!Step(m)
      BY <1>2, <2>2, AdvancesImplements
    <3> QED
      BY <3>1 DEF Agreement!Next
  <2>3. UNCHANGED member \/ \E m \in Members : Advances(m)
    <3>1. CASE UNCHANGED vars
      BY <3>1 DEF vars
    <3>2. CASE Next
      BY <1>2, <3>2, NextInv DEF SizeInv
    <3> QED
      BY <1>2, <3>1, <3>2
  <2> QED
    BY <2>1, <2>2, <2>3
<1> QED
  BY <1>1, <1>2, InitImplements, SizeInit, PTL
     DEF Spec, ImplementsGroupKeyAgreement, Agreement!Spec, Agreement!vars
=============================================================================
