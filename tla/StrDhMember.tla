---------------------------- MODULE StrDhMember ----------------------------
(***************************************************************************)
(* The str_dh object of src/str_dh/str_dh.cpp: what its two builds, without *)
(* RETRANSMISSIONS (StrDh) and with it (StrDhRtx), have in common.          *)
(*                                                                         *)
(* A secret is known by its owner: blinding and storing the secret of m is *)
(* to know m.  A group secret is the sequence of the members whose secrets *)
(* are agreed in it, innermost first: Diffie-Hellman of the group secret   *)
(* of members 1..k with the blinded secret of member k+1, and of the       *)
(* secret of member k+1 with the blinded group secret of 1..k, are both    *)
(* the sequence of 1..k+1.  Blinding a group secret keeps the sequence.    *)
(***************************************************************************)
EXTENDS Integers, Sequences, FiniteSets

CONSTANTS
    Members,                \* the processes; a member stands for its endpoint too
    Services,               \* the services offered on the multicast address
    service_of_interest,    \* service_of_interest[m]: the service m was started for
    founder,                \* founder[s]: the one member of s started as sponsor
    member_count            \* member_count[s]: the group size all of s were given

ASSUME ConfigurationAssumption ==
    /\ service_of_interest \in [Members -> Services]
    /\ founder \in [Services -> Members]
    /\ \A s \in Services : service_of_interest[founder[s]] = s
    /\ member_count \in [Services -> Nat \ {0}]

VARIABLE member             \* member[m]: the state of the str_dh object of m

DEFAULT_MEMBER_ID == 0
InitialSponsorIdZero == 0    \* mutant of INITIAL_SPONSOR_ID: the unassigned id
INITIAL_SPONSOR_ID == 1
DEFAULT_SECRET == <<>>

Service(m) == service_of_interest[m]
IsFounder(m) == m = founder[Service(m)]

(***************************************************************************)
(* Messages.  A blinded secret is named by its owner, and a member only    *)
(* ever sends its own and, in new_sponsor, the one the new sponsor sent in *)
(* its request, so "from" and "new_sponsor" stand for them.                *)
(***************************************************************************)
Offer(m) == [type |-> "offer", from |-> m, service |-> Service(m)]

Request(m) == [type |-> "request", from |-> m, service |-> Service(m)]

Response(m, self, e) ==
    [type |-> "response", from |-> m, service |-> Service(m),
     blinded_group_secret |-> self.blinded_group_secret,
     new_sponsor |-> e,
     assigned_id |-> self.member_id + 1]

(***************************************************************************)
(* Helpers on the state of one member, called self.                        *)
(***************************************************************************)
IsAssigned(self) == self.member_id # DEFAULT_MEMBER_ID

NobodyIsLast(m, self) == FALSE    \* mutant of IsLastMember

IsLastMember(m, self) ==
    IsAssigned(self) /\ self.member_id = member_count[Service(m)]

\* The map f with the key x bound to y (operator[] and assignment).
Put(f, x, y) == [z \in DOMAIN f \cup {x} |-> IF z = x THEN y ELSE f[z]]

\* The requesters the sponsor may choose from: the code takes the first in
\* the order of an unordered_map.
Unassigned(self) == self.pending_requests \ DOMAIN self.assigned_endpoints

(***************************************************************************)
(* contribute_statistics: the member ends when it knows everybody and has  *)
(* computed all the keys.  It is the last call of the handlers.            *)
(***************************************************************************)
KeyComplete(m, self) ==
    /\ Cardinality(DOMAIN self.assigned_endpoints)
         + (IF IsAssigned(self) THEN 1 ELSE 0) = member_count[Service(m)]
    /\ member_count[Service(m)] - self.member_id + 1 = self.keys_computed_count
    /\ Cardinality(DOMAIN self.assigned_keys)
         = Cardinality(DOMAIN self.assigned_endpoints)

ContributeStatistics(m, self) ==
    IF KeyComplete(m, self) THEN [self EXCEPT !.status = "stopped"] ELSE self

(***************************************************************************)
(* process_pending_request makes the unassigned requester e the next       *)
(* sponsor, and forgets all the requests.                                  *)
(***************************************************************************)
\* Mutants of HandOver: the sponsor keeps the role; it adds its own key
\* instead of e's.
HandOverKept(self, e) ==
    [self EXCEPT
        !.pending_requests = {},
        !.assigned_keys = Put(self.assigned_keys, self.member_id + 1, e),
        !.assigned_endpoints = Put(self.assigned_endpoints, e, self.member_id + 1)]
HandOverOwnKey(self, e) ==
    [HandOverKept(self, e) EXCEPT
        !.is_sponsor = FALSE,
        !.group_secret = Append(self.group_secret, self.group_secret[self.member_id]),
        !.blinded_group_secret = DEFAULT_SECRET,
        !.keys_computed_count = self.keys_computed_count + 1]

HandOver(self, e) ==
    [self EXCEPT
        !.is_sponsor = FALSE,
        !.pending_requests = {},
        !.group_secret = Append(self.group_secret, e),
        !.blinded_group_secret = DEFAULT_SECRET,
        !.assigned_keys = Put(self.assigned_keys, self.member_id + 1, e),
        !.assigned_endpoints = Put(self.assigned_endpoints, e, self.member_id + 1),
        !.keys_computed_count = self.keys_computed_count + 1]

(***************************************************************************)
(* The parts of process_response, in their order: what the message tells   *)
(* of the two members, the sponsor role, the keys that can now be added.   *)
(***************************************************************************)
Note(m, self, e, id) ==
    IF e = m \/ e \in DOMAIN self.assigned_endpoints
    THEN self
    ELSE [self EXCEPT
            !.assigned_keys = Put(self.assigned_keys, id, e),
            !.assigned_endpoints = Put(self.assigned_endpoints, e, id)]

\* Mutant of Learn: the ids of the old and the new sponsor are swapped.
LearnSwapped(m, self, msg) ==
    LET new == Note(m, self, msg.new_sponsor, msg.assigned_id - 1)
        old == Note(m, new, msg.from, msg.assigned_id)
    IN  [old EXCEPT !.pending_requests = @ \ {msg.new_sponsor, msg.from}]

\* Mutant of Learn: the old sponsor is not noted.
LearnNewSponsor(m, self, msg) ==
    [Note(m, self, msg.new_sponsor, msg.assigned_id) EXCEPT
        !.pending_requests = @ \ {msg.new_sponsor, msg.from}]

Learn(m, self, msg) ==
    LET new == Note(m, self, msg.new_sponsor, msg.assigned_id)
        old == Note(m, new, msg.from, msg.assigned_id - 1)
    IN  [old EXCEPT !.pending_requests = @ \ {msg.new_sponsor, msg.from}]

TakeOver(m, self, msg) ==
    [self EXCEPT
        !.is_sponsor = TRUE,
        !.member_id = msg.assigned_id,
        !.group_secret = Append(msg.blinded_group_secret, m),
        !.blinded_group_secret = Append(msg.blinded_group_secret, m),
        !.keys_computed_count = self.keys_computed_count + 1]

Addressed(m, self, msg) == msg.new_sponsor = m /\ ~ IsAssigned(self)

\* Mutants of BecomeSponsor: whoever has no id takes the role; a member with
\* an id takes it again; it keeps the blinded group secret of its predecessor.
BecomeSponsorUnaddressed(m, self, msg) ==
    IF IsAssigned(self) THEN self ELSE TakeOver(m, self, msg)
BecomeSponsorAgain(m, self, msg) ==
    IF msg.new_sponsor = m THEN TakeOver(m, self, msg) ELSE self
BecomeSponsorUnblinded(m, self, msg) ==
    IF Addressed(m, self, msg)
    THEN [TakeOver(m, self, msg) EXCEPT !.blinded_group_secret = msg.blinded_group_secret]
    ELSE self

BecomeSponsor(m, self, msg) ==
    IF Addressed(m, self, msg) THEN TakeOver(m, self, msg) ELSE self

\* Mutant of AfterResponse: nothing is learnt of other members.
AfterResponseForgetful(m, self, msg) ==
    IF msg.service = Service(m) THEN BecomeSponsor(m, self, msg) ELSE self

\* The messages of other services are kept in maps of their own, which no
\* code reads.
AfterResponse(m, self, msg) ==
    IF msg.service = Service(m)
    THEN BecomeSponsor(m, Learn(m, self, msg), msg)
    ELSE self

(***************************************************************************)
(* check_and_add_next_blinded_key_to_group_secret: the loop adds the keys  *)
(* of the ids that follow the last one in the group secret while they are  *)
(* known.  LastAdded is the set of the one id at which it ends.            *)
(***************************************************************************)
LastKeyId(self) == self.keys_computed_count + self.member_id - 1

LastAdded(self) ==
    {top \in LastKeyId(self) .. LastKeyId(self) + Cardinality(DOMAIN self.assigned_keys) :
        /\ \A id \in LastKeyId(self) + 1 .. top : id \in DOMAIN self.assigned_keys
        /\ top + 1 \notin DOMAIN self.assigned_keys}

AddKeys(self, top) ==
    [self EXCEPT
        !.group_secret = [i \in 1 .. top |-> IF i <= LastKeyId(self)
                                             THEN self.group_secret[i]
                                             ELSE self.assigned_keys[i]],
        !.blinded_group_secret = IF top = LastKeyId(self) THEN @ ELSE DEFAULT_SECRET,
        !.keys_computed_count = top - self.member_id + 1]

CheckAndAddNextBlindedKeys(self) ==
    IF ~ self.is_sponsor /\ IsAssigned(self)
    THEN {AddKeys(self, top) : top \in LastAdded(self)}
    ELSE {self}

\* Mutant of NoteRequest: the service is not looked at.
NoteAnyRequest(m, self, msg) ==
    IF msg.from \notin DOMAIN self.assigned_endpoints
    THEN [self EXCEPT !.pending_requests = @ \cup {msg.from}]
    ELSE self

\* A request is pending as long as its sender is not known to have an id.
NoteRequest(m, self, msg) ==
    IF /\ msg.service = Service(m)
       /\ msg.from \notin DOMAIN self.assigned_endpoints
    THEN [self EXCEPT !.pending_requests = @ \cup {msg.from}]
    ELSE self

-----------------------------------------------------------------------------
(***************************************************************************)
(* Properties of the members of both builds.                               *)
(***************************************************************************)
MemberIds == Nat \ {DEFAULT_MEMBER_ID}

Sponsors(s) == {m \in Members : Service(m) = s /\ member[m].is_sponsor}

Assigned(s) == {m \in Members : Service(m) = s /\ IsAssigned(member[m])}

\* No two members ever hold the same id: ids are handed on one by one, and
\* the code nowhere compares them.
UniqueIds ==
    \A s \in Services : \A m, n \in Assigned(s) :
        member[m].member_id = member[n].member_id => m = n

(***************************************************************************)
(* What a member believes about the others is right, even what it inferred *)
(* (the sender of a response has the id before the one it assigns): its    *)
(* maps name the same member for an id, and a member with an id has it.    *)
(***************************************************************************)
MapsAccurate ==
    \A s \in Services : \A m \in Assigned(s), n \in Members :
        LET known == member[n].assigned_endpoints
        IN  Service(n) = s =>
              /\ m \in DOMAIN known => known[m] = member[m].member_id
              /\ member[m].member_id \in DOMAIN member[n].assigned_keys =>
                    member[n].assigned_keys[member[m].member_id] = m

(***************************************************************************)
(* Members of a group compute their keys from different ends (a member     *)
(* starts with the blinded key of its predecessors, then adds the blinded  *)
(* keys of its successors, some of them guessed from later responses); yet *)
(* of any two of them one's secret always extends the other's.             *)
(***************************************************************************)
Prefix(a, b) == Len(a) <= Len(b) /\ \A i \in DOMAIN a : a[i] = b[i]

KeysCompatible ==
    \A s \in Services : \A m, n \in Assigned(s) :
        \/ Prefix(member[m].group_secret, member[n].group_secret)
        \/ Prefix(member[n].group_secret, member[m].group_secret)

\* The members that finished with the key agreement have the same group key.
Stopped(s) == {m \in Members : Service(m) = s /\ member[m].status = "stopped"}

KeyAgreement ==
    \A s \in Services : \A m, n \in Stopped(s) :
        member[m].group_secret = member[n].group_secret

(***************************************************************************)
(* Every group secret is contributory and counted right: a member's own    *)
(* secret is in it at the place of its id, and keys_computed_count, which  *)
(* decides which key is added next and when the member is finished, is the *)
(* number of keys from that place on.                                      *)
(***************************************************************************)
KeyCountRight ==
    \A m \in Members :
        LET self == member[m]
        IN  IF IsAssigned(self)
            THEN /\ Len(self.group_secret) = LastKeyId(self)
                 /\ self.member_id \in DOMAIN self.group_secret
                 /\ self.group_secret[self.member_id] = m
            ELSE self.group_secret = <<>>

(***************************************************************************)
(* The sponsor can always hand over: its blinded group secret is computed  *)
(* and blinds its whole group secret (adding keys resets it to             *)
(* DEFAULT_SECRET and only becoming the sponsor computes it again).        *)
(***************************************************************************)
SponsorKeyBlinded ==
    \A s \in Services : \A m \in Sponsors(s) :
        /\ Len(member[m].group_secret) = member[m].member_id
        /\ member[m].blinded_group_secret = member[m].group_secret

(***************************************************************************)
(* Groups that share the multicast address stay apart: no secret of a      *)
(* member of another service gets into a group secret.                     *)
(***************************************************************************)
NoForeignKeys ==
    \A m \in Members : \A i \in DOMAIN member[m].group_secret :
        Service(member[m].group_secret[i]) = Service(m)

(***************************************************************************)
(* record_timestamp takes a second timestamp for the same metric for an    *)
(* error of its caller and throws ("There is already a timestamp for the   *)
(* key"): no member ever makes it.                                         *)
(***************************************************************************)
TimestampsRecordedOnce == \A m \in Members : member[m].status # "crashed"
=============================================================================
