# Verification of the standalone group key agreement

TLA+ models of the two group key agreement protocols of this repository, the
TLC runs that check them on small groups, and TLAPS proofs about them for
groups of every size. Paths below are relative to the repository's root
(`src/` in `PROJECT.json`); *id*, *key* and *response* are short for
`member_id_`, the blinded secret of a member, and `response_message`.

Run everything from this directory:

    tlc -workers 2 -config StrDh_lossy.cfg MCStrDh.tla
    tlapm StrDhProofs.tla
    tlapm StrDhOrderProofs.tla
    tlapm StrDhRtxProofs.tla
    tlapm StrDhRtxTokenProofs.tla
    tlapm StrDhRtxDutyProofs.tla
    tlapm DistributedDhProofs.tla
    tlapm StartupProofs.tla
    tlapm StatisticsProofs.tla

## 1. Inventory of the system

An evaluation starts one *statistics writer*, `member_count - 1` subscribers
and, last, one founding sponsor (`eval_automization_scripts/start_evaluation.bash`).
Each of the members is a process `multicast-dh-example` with one object of
class `str_dh` **or** `distributed_dh` (a compile definition chooses), an
`io_service` run by a single thread, and two UDP sockets. When a member has the
group key it adds its statistics to shared memory and ends.

| Component | State | Operations | Interacts with |
|---|---|---|---|
| `str_dh` (contributory, STR) | role, id, key tree, pending requests, the maps id→key and endpoint→id, count of keys computed | constructor, handlers of offer, request, response; with `RETRANSMISSIONS` also of member info, synch token, finish, finish_ack, and the handlers of two timers | sends and receives by the multicast channel; records statistics; stops the `io_service` |
| `distributed_dh` | role, group secret, responses not acknowledged, endpoints that acknowledged | constructor, handlers of offer, request, distributed response, finish, finish_ack, two timers | the same; also sends to one endpoint |
| `key_agreement_protocol` | none (an interface) | one `process_…` per message type | called by the message handler |
| `message_handler`, `message.hpp` | none | serialize; read the type byte, deserialize, call back | between channel and protocol |
| `multicast_channel`, `multicast_application_impl` | two sockets, two receive buffers | bind a port of its own, send to the group or to one endpoint, receive, start, stop | calls `received_data` of the protocol on the `io_service` thread |
| `statistics_recorder` | counts and timestamps of one process | `record_count`, `record_timestamp` (throws on a second one), `contribute_statistics` | named mutex, condition and maps in shared memory |
| `statistics_writer` | the composite maps in shared memory | create them, wait for `member_count` contributions, write the file | the recorders of all processes |
| evaluation scripts, `multicast-dh-example.cpp` | none | launch, count processes and ports, parse parameters | launch everything |
| cryptography | keys | agree, blind, encrypt (Crypto++) | called by the protocols |
| `sender`, `receiver`, `testframe`, `multicast-app-*` | none | manual experiments | — |

### Hard behaviours, and what makes each component correct

* **The sponsor role travels** (`str_dh.cpp:128-149`, `307-363`). One member at
  a time may admit the next one; the role is in a member or in a response on
  its way. Correct: never two sponsors, no id twice, whatever the network does.
* **Keys are computed from different ends** (`str_dh.cpp:365-404`). A member
  starts from the blinded key of its predecessors and adds the keys of its
  successors in the order of their ids, found by `keys_computed_count_ +
  member_id_`. Some ids it never saw assigned but inferred from a later
  response. Correct: two keys of a group never diverge; members that finished
  have the same key.
* **Finishing by counters** (`str_dh.cpp:572-573`, `distributed_dh.cpp:240`).
  Equalities between counters, tested only when a message happens to arrive.
  Correct: whoever finishes has the whole key, and everybody finishes when
  nothing is lost.
* **Late and repeated requests** (`str_dh.cpp:100`, `distributed_dh.cpp:88`).
  They put a member back on a list it had left.
* **Several groups on one address.** Every handler sees the messages of all
  the services; some look at the service, some do not.
* **Timers** (`RETRANSMISSIONS`). One `scatter_timer_` is shared by every
  retransmission; arming it cancels what it was armed for, except a handler
  that is queued already.
* **Processes that start together** (port binding, counting of processes as
  strings, shared memory not created yet).

`PROJECT.json` lists these as hazards, each at its line, with the properties
that would show it going wrong, or why none does.

## 2. Modules

| Module | What it is |
|---|---|
| `GroupKeyAgreement` | what a contributory key agreement promises, without messages: groups that grow at the end, keys that are initial parts of the group, done only with the whole key |
| `StrDhMember` | what `str_dh.cpp` does in both builds: the helpers, the keys, the effect of a request and of a response on the member, and the properties of both |
| `StrDh` | `str_dh.cpp` as built by default (`CMakeLists.txt`: `ECC_DH PROTO_STR_DH`); implements `GroupKeyAgreement` |
| `StrDhProofs`, `StrDhOrderProofs` | the theorems about `StrDh`: on any network, and where all messages are received in one order |
| `StrDhRtx` | `str_dh.cpp` built with `RETRANSMISSIONS`; implements `GroupKeyAgreement` |
| `StrDhRtxProofs`, `StrDhRtxTokenProofs`, `StrDhRtxDutyProofs` | the theorems about `StrDhRtx`: the keys and the role; what the synch token and finish say; who has to go on |
| `DistributedDh` | `distributed_dh.cpp`, without and with `RETRANSMISSIONS` (a constant) |
| `DistributedDhProofs` | the theorems about `DistributedDh` |
| `PortChoice` | what `multicast_channel` promises of ports: a process tries any, and goes on with one that nobody has who went on before |
| `PortBinding` | the constructor of `multicast_channel`: bind, look with `ss`, close and try again; implements `PortChoice` |
| `Startup` | how `start_evaluation.bash` launches a group; extends `PortBinding` with the script, and each process searches its port when it was launched |
| `StartupProofs` | the theorems about `PortBinding` and `Startup` |
| `Statistics` | `statistics_recorder::contribute_statistics` and `statistics_writer` on the named shared objects, over several evaluations |
| `StatisticsProofs` | the theorems about `Statistics` |
| `MC...` | the instances for TLC |

### StrDh

| Variable | Code |
|---|---|
| `member[m]` | the `str_dh` object of process `m`; `status` adds whether the process is not launched, running, stopped by `contribute_statistics` or ended by an exception |
| `member[m].group_secret`, `.blinded_group_secret` | the root node of `str_key_tree_map_[service_of_interest_]` |
| `member[m].assigned_keys`, `.assigned_endpoints`, `.pending_requests` | the maps of the same names at the member's own service; nothing reads the entries of other services |
| `member[m].key_agreement_start` | whether `KEY_AGREEMENT_START_` is in `time_statistics_` |
| `log`, `taken[m]` | the multicast messages in the order of sending, and those `m` has taken from its socket |
| `duplicates` | counts the copies the network made, up to the bound `MaxDuplicates` |

One action is one handler with all it calls: `Launch` (constructor and
`start`), and `Receive`, which is `ProcessOffer`, `ProcessRequest` or
`ProcessResponse`. `process_pending_request`, the loop of
`check_and_add_next_blinded_key_to_group_secret` and `contribute_statistics`
are operators that the handlers compose in the order of the code. The handlers
run on one thread under `receive_mutex_`, so a handler is atomic to the others.

Abstractions:
* A secret stands for its owner. Diffie-Hellman makes the secret of members
  1..k+1 either from the group secret of 1..k and the blinded secret of k+1, or
  from the blinded group secret of 1..k and the secret of k+1; both are the
  *sequence* of the members 1..k+1. Two keys are equal exactly when their
  sequences are.
* `get_unassigned_member` takes the first of an `unordered_map`: any one.
* A lost message is one that is never taken, so loss needs no action. With
  `InOrder` every member takes all messages in the order of sending, which is
  what the loopback of one host with buffers that are large enough does
  (`README.md`, *Large Send and Receive Buffers*).
* Ids are natural numbers (`member_id_t` is 16 bits wide: groups of up to 65534).

### DistributedDh

`net` has the messages on their way, each to one receiver (a multicast is one
per receiver; a copy sent before the first is received is the same element).
`member[m]` is the object; `scatter_wait` is what `scatter_timer_` is armed
with, `scatter_queue` the handlers that expired and are queued. Arming again
cancels the first only. Actions: `Launch`, the five `process_…` handlers
(inside `Receive`), `ScatterExpires`, `SendCyclicMessages`, `SendFinish`,
`Timeout`, and `Lose` and `ReceiveCopy` of the network. Timers have no
duration: an armed timer may expire at any moment, so the properties hold for
every scatter delay and every `TIMEOUT`.
What is on its way to a process that is not running is gone, since it has no socket.

### StrDhRtx

| Variable | Code |
|---|---|
| `net[m]` | the messages of `m` that may still be received, by anybody and any number of times |
| `member[m]` | the `str_dh` object as in `StrDh`, and its flags `request_scheduled_` ... `finish_message_rcvd_` under their names |
| `.response_message_cache` | `response_message_cache_`, which is also what the member assigned: the log that `OneBaton` and `Group` read |
| `.scatter_wait` | what `scatter_timer_` is armed with: the kind of handler, or none |
| `.scatter_queue` | the handlers of expired or cancelled waits that `io_service` has still to run |
| `.timeout_wait` | whether `timeout_timer_` is armed |

The handlers compose as in the code: `ProcessResponse` is the common effect,
then `StartSynchToken` for the last member and `ProcessPendingRequest` for the
others, which admits a member, asks the predecessors or offers, and arms the
timer (`Await`). `ScatterExpires` and `HandleScatter` are the two halves of a
timer: it expires, which cannot be cancelled any more, and its handler runs,
possibly after other handlers. A cancelled wait runs its handler with an error,
which is kept where it matters: the handlers that toggle `request_scheduled_`
and `response_scheduled_`. Timers have no duration, so what is shown holds for
every scatter delay and every `TIMEOUT`.

The network has two strengths. `"any"`: whatever was sent may be received at
any time, in any order, again and again. `"ordered"`: a message may be received,
repeatedly or by some and not by others, until its sender sends again. A message
that nobody receives in time is lost, so loss needs no action; `Vanish` adds loss
at any moment, which only matters for liveness.

`OneBaton` counts a sponsor, or a response whose addressee has no id yet, whether or
not that response can still be received: it says that the role is never doubled.
That it is not lost is `RoleGoesOn`: a sponsor goes on to offer or to ask its
predecessors, and the sender of an unanswered response goes on to repeat it. This, and
`SilentOnlyWhenTokenStuck`, hold in one group as long as no member receives an offer, an
information request or a synch request that its sender would not make any more
(`Stale`). `FreshSpec` is `Spec` without such receptions, on any network and with
any handlers queued; where messages are `"ordered"`, there are none. Deviations 4
and 10 are what happens otherwise.

### PortBinding and Startup

`phase[p]` is the place of process `p` in the constructor, `port[p]` the port of
`unicast_socket_`, `seen[p]` and `found[p]` what the `ss` it runs has come to.
`ss` is *not* atomic: `See` takes one socket at a time, while others bind and
close theirs. `Reject` may happen at any time, which covers what
`is_port_bound_once` gets wrong on the safe side (`popen` fails, `grep` finds the
digits of the port inside another number). `Startup` adds `script`, the place of
the script, and the processes it has `launched`; one look of the script at the
ports (`get_members_up_...`) is taken to be atomic, which is safe: `ss -p` names the
processes of sockets that were open before it looked, so it counts no more than there were. Numbers become their decimal
digits where the script compares strings (`Digits`, `StringLess`).

### Statistics

`named[x]` is the shared object that has the name of `x`, known by the evaluation
that created it; `handle[m][x]` the one member `m` has opened, which it keeps when
the name is removed. `segment[e]` has the maps of one evaluation, where a count
is the *set* of those who added to it, so a lost update and a contribution
counted twice or in the wrong evaluation all show. `owner` and `waiting` are the
mutex and the condition; each operation on a shared object, each read and each
write of a count is a step. `StartEvaluation` is the script, also after
`on_exit` killed all processes at any step: objects and locked mutexes stay.

## 3. Runs

| Run | Instance | What it shows |
|---|---|---|
| `StrDh_in_order` | 5 processes for one group of 4, any launch order, one order of messages | `NoReassignment`: the role is never given to a member that has an id. `MapsAccurate`: what members infer about each other is right. `GroupNotOverfull`: no id beyond `member_count`. `ImplementsGroupKeyAgreement`: refinement |
| `StrDh_live` | one group of 4, one order, founder last, fairness | `AllContribute`: every member finishes with the key of all |
| `StrDh_lossy` | one group of 4, loss and any reordering | `OneBaton`, `KeysCompatible`, `KeyAgreement`, `SponsorKeyBlinded`, `TimestampsRecordedOnce`, `KeysGrow` |
| `StrDh_two_groups` | two groups of 2, loss, reordering, one copy | `NoForeignKeys` |
| `DistributedDh_basic` | groups of 3 and of 2 on one address, no loss, founders last, fairness | `AllStop`: everybody ends |
| `DistributedDh_rtx` | one group of 4, loss, copies, reordering, timers at any moment | `AcknowledgedHold`, `HoldersKnown`: the sponsor's two lists are right. `FinishedMeansAgreed`, `SponsorStopsAgreed`: it does not end early. `TimestampsRecordedOnce`, `AgreementFinal` |
| `DistributedDh_rtx_live` | one group of 3, loss, copies, fairness | `AllAgree`, `SponsorsStop`: everybody gets the key and the sponsor ends in spite of loss |
| `StrDhRtx_lossy` | one group of 4, network `"ordered"`, no handler queued | `KnownCountsRight`: members know whom they should. `TokenMeansSynched`, `FinishMeansKeyed`: nobody is stopped without the key. `RoleGoesOn`: whoever has the sponsor role, or gave it to a member without an id, goes on to send. `SilentOnlyWhenTokenStuck`: the only way to fall silent, where no late request is received, is deviation 3. `FinishShutsDown`: the only member that a finish it receives does not stop is that of deviation 5 |
| `StrDhRtx_overtaking` | one group of 3, network `"any"`, one handler queued | `OneBaton`: the role is never doubled. `ScheduledFlagsRight`, `ImplementsGroupKeyAgreement` whatever messages and timers do |
| `StrDhRtx_live` | one group of 3, network `"ordered"`, loss at any moment, fairness | `TokenReturns`: everybody becomes a member, and the founder ends or the token rests as in deviation 3 |
| `Startup` | a group of 3, 2 ports | `PortsDistinct`: no two processes go on with one port. `FounderLast`: no subscriber misses the founder's offer. `ImplementsPortChoice`: refinement |
| `Statistics` | 2 members, no `RETRANSMISSIONS`, two evaluations, the first killed at any step, fairness | `TotalsExact`: the file has each member once and the last end. `NothingOld`: nothing of the killed evaluation is written by the next. `StatisticsWritten`: no notification is lost, also when members come before the objects |

### Bounds

A group of four is the smallest in which a member (the second) infers the id of
one whose assignment it missed and later adds several keys in one loop, while
the role moves on between two others. In the run with one order, whose state
space is smaller, a surplus process makes the last sponsor choose between ending
and admitting; any three of the four subscribers may become members. Two groups of two make each handler meet foreign
messages of each type, in each state of a member. In `StrDhRtx` four members are
needed for a token that passes two members between the first and the last, and
for a member that lacks two predecessors; three suffice for every pair of roles
under the weaker network, where four are out of reach. `MaxQueued = 1` lets a
handler that expired meet every re-arming of the timer; with 0 the handler runs
as soon as it expires, which keeps the run with four members within reach (none of its
properties needs it: section 4). Three processes with two ports let two of them look at
each other while a third disturbs both; that it holds for any number is proved.
The script can only be misled by subscribers that bind, share and give up ports
while it counts, which two subscribers do; `FounderLast` is claimed below ten
subscribers, where the comparison of strings is that of numbers. Two evaluations
(`MaxEvaluations`) are an aborted and a later one; of two members one waits for
the maps or the mutex while the other adds. A member never waits beside the writer, which
makes the maps before the condition (`statistics_writer.cpp:42-47`). The messages in `StrDh` are
bounded by the protocol (one offer per founder, one request per offer and member, and a
response needs a sponsor that was made by another response); there `MaxDuplicates` is the one
bound that is set. `DistributedDh` has no bound: `net` is a set over a
finite set of messages. The members that are subscribers of one group are
interchangeable, nothing else is, and the runs of liveness use no symmetry.
Deadlock is not checked in any run, since the system ends: a final state is one
where every process stopped or waits for messages that do not come.

### Fairness

`StrDh!Fairness`: every process is launched (the script does), and a process
that runs takes the next message (`io_service::run` calls the handler of each
datagram). It is used in order and without loss only; the default build claims
no more.

`DistributedDh!Fairness`: the launch and the expiring timers of the sponsor are
weakly fair (`io_service::run`). Receiving is strongly fair per member and type
of message: a message that is sent over and over is received at last, the
assumption under which retransmitting makes sense. It is assumed for offers and
responses at a subscriber and for requests and acknowledgements at a sponsor,
the messages that are repeated until answered. It is **not** assumed for
`finish`, which is repeated for `TIMEOUT` seconds only, so nothing is claimed
about subscribers ending when messages are lost.

`StrDhRtx!Fairness`: launches, expiring timers and their handlers are weakly
fair (`io_service::run`). Receiving is strongly fair per *type* of message over
the whole group: when messages of a type are sent again and again, some member
receives one. That is weaker than fairness per member, and enough for the
retransmissions, as each is repeated until the one who needs it got it. It is not
assumed for `finish` at subscribers and for `finish_ack`, which are not repeated
for ever; of `finish` only that the founder receives one, since the last member
repeats it until then.

`Statistics!Fairness`: the evaluations are started and every process runs. That a
mutex is granted to one who waits is covered by the weak fairness of each
process, since it is held for a bounded time. No fairness and no liveness is
stated of the ports: the kernel may give out the same port for ever.

What `TotalsExact` and `StatisticsWritten` claim has one exception: a member of
the second evaluation that has opened an object of the killed one (`OpenedOld`).
The script does not prevent it (it waits for the writer's process, not for its
constructor); see deviation 8. `NothingOld` has no exception.

## 4. Known deviations

Met while the models were written. No run expects a violation; instead the
property that the code would break states the exception, or its instance leaves
the case out, as said below. Giving TLC the property without the exception, or
the larger instance, produces the behaviour.

1. *The start of the key agreement is recorded for foreign requests*
   (`str_dh.cpp:105`). While the founder is the sponsor, every request of any
   service records `KEY_AGREEMENT_START_`; only one of its own service makes it
   hand the role on. Two requests of another group on the address throw
   (`statistics_recorder.cpp:26`), `start` catches outside the loop, and the
   founder ends. With one group it cannot happen: the first request makes the
   founder give up the role, unless its sender has an id, and none has
   (`StrDh_lossy` checks it). Reproduce: `TimestampsRecordedOnce` with the
   constants of `StrDh_two_groups.cfg`.
2. *The finish of one group stops the sponsor of another*
   (`distributed_dh.cpp:221-222`, `RETRANSMISSIONS`). `finish_message` has no
   service and a sponsor has its group secret from the start, so it stops
   before its own subscribers have a key. Reproduce: `SponsorStopsAgreed` with
   `RETRANSMISSIONS`, `Services = {s, t}`, `Members = {f, a, g, b}` and
   `MembersOfS = {f, a}`.
3. *The synch token comes to rest* (`str_dh.cpp:214`, `RETRANSMISSIONS`). Who
   asks its successors stops when it knows them (`:465`) but passes the token on
   only when an *answer* told it the last one. Learnt from a repeated response
   instead, and the answer lost, no timer is armed in the group and nobody ever
   stops. `SilentOnlyWhenTokenStuck` shows that, as long as no late request is received
   (`FreshSpec`, section 2), there is no other way to fall silent
   (proved: `SilentOnlyWhenStuck`); `TokenReturns` has the
   same exception. With a late request deviation 10 is a second way.
4. *An offer of another group stops a response* (`str_dh.cpp:553`, called at
   `:75` before the service is looked at). It counts as the sign of a later
   member, so the response is not repeated; if it was lost, so is the role. The
   runs of `StrDhRtx` have one group.
5. *The last member may never shut down* (`str_dh.cpp:151-158`). It is the only
   member that never asks for what it missed, so after one lost response
   `contribute_statistics` fails at every finish, and the writer waits for ever.
   `FinishShutsDown` shows that no finish leaves anybody else running.
6. *Ports are counted as strings* (`start_evaluation.bash:56`). With eleven
   members (ten subscribers) two bound ports are enough, and the founder may make
   its only offer before the others listen. `FounderLast` is claimed for less
   than ten subscribers.
7. *The service id is cut to 16 bits* (`multicast-dh-example.cpp:40`): 65536
   passes "must be greater than 0" and is `DEFAULT_SERVICE_ID`. Not modelled.
8. *A member opens what a killed evaluation left* (`statistics_recorder.cpp:39`):
   it retries while objects are absent, not while they are old, and an old
   mutex may be locked for ever. What is written is right all the same
   (`NothingOld`), but nothing may ever be written (`StatisticsWritten`).
9. *An answer that was queued comes after finish* (`str_dh.cpp:226-236`,
   `RETRANSMISSIONS`). Arming `scatter_timer_` for the token does not cancel an answer
   whose handler is queued already. If the founder's is queued while the token makes
   its round, the last member sends and receives finish, cannot stop for want of the
   founder's key (deviation 5), and then gets it: it has the whole key and still
   goes on, as nothing calls `contribute_statistics` but the next finish, and the founder
   repeats that for `TIMEOUT` seconds only. `FinishShutsDown` is about each finish that
   is received, and does not deny this.
10. *A late request stops a retransmission that is needed* (`str_dh.cpp:75`, `:226`,
   `RETRANSMISSIONS`). With members f, a, b, c: the founder's cyclic offer is delayed on
   its way to b, which never receives f's response to a; a hands the role to b, and now
   b receives the offer, from a member it does not know. `check_if_higher_member_id_assigned`
   (`:552-557`) takes it for the sign of a later member. b asks for its predecessors and
   admits c; that response is lost and is not repeated (`:437`), no timer is armed in the
   group, and there is no token yet. In the same way a late information or synch request
   makes a member answer with the timer that it needs for its token or its own request
   (`:226`). Reproduce: `SilentOnlyWhenTokenStuck` with the constants
   of `StrDhRtx_overtaking.cfg`; `RoleGoesOn` with those of `StrDhRtx_lossy.cfg`,
   `Network = "any"` and no symmetry, by `tlc -simulate`.

Limits of the default build that are not deviations, as it makes no promise about
loss: when messages are lost or overtake each other, the last
member (which stays a sponsor, `str_dh.cpp:161`) or a sponsor that missed
responses may answer a late request of a member that has an id, with an id
beyond `member_count` or with the role lost to a member that ignores it.
`NoReassignment`, `MapsAccurate` and `GroupNotOverfull` are therefore claimed
for one order (`InOrder`) and say so. That keys and ids stay consistent all
the same is proved.

With `RETRANSMISSIONS`, `RoleGoesOn` and `SilentOnlyWhenTokenStuck` are claimed where
no late request is received (`FreshSpec`), because of deviations 4 and 10. The run has them on
`"ordered"`, where a message is gone once its sender sends again: there no request is ever
late. That is more than UDP promises (it does not even keep messages of one sender in
order), so the condition itself is stated, and not the network that ensures it. Neither
needs handlers that run at once. The other properties of `StrDhRtx_lossy` are proved for
both networks and any queue of handlers.

## 5. Proofs

What the modules prove, with what each theorem assumes beyond the assumptions
on the constants that the modelled module itself states.

### `StrDhProofs`: loss, reordering and duplication at will

| Theorem | |
|---|---|
| `Invariant` | `Spec => []IInv` |
| `TypeCorrect` | `TypeOK` |
| `KeysAgree` | `KeyAgreement`: members that finished have the same key |
| `KeysAreCompatible` | `KeysCompatible` |
| `IdsUnique` | `UniqueIds` (proved only, no run checks it) |
| `BatonUnique` | `OneBaton` |
| `CountsRight`, `SponsorsBlinded` | `KeyCountRight` (proved only), `SponsorKeyBlinded` |
| `GroupsApart` | `NoForeignKeys` |
| `KeysOnlyGrow` | `KeysGrow`, an action property |
| `TimestampsOnce` | `TimestampsRecordedOnce`, if one group uses the address (`OneService`) |

**The argument.** None of the properties is inductive. What a member infers is
about messages it never took, and whether a second sponsor can appear depends
on old responses still on their way. The invariant `IInv` therefore reads `log`
as the history of the agreement: `Gives(log, s, id, e)` says that the founder
was given the first id, or some response gave `id` to `e`. Then

* every secret at place `k` of a key, in a member or in a message, and every entry
  of `assigned_keys`, is *backed*: that id was given to that member (`KeysOK`, `MessageOK`);
* an id is given once (`GivenOnce`), hence all that is backed agrees;
* the sponsor has the highest id given, and the addressee of a response that is
  still unassigned waits for the highest id, with no sponsor beside it
  (`BatonOK`), hence the next id given is new;
* the counters fit the key (`CountOK`, `SponsorOK`, `StoppedOK`).

`assigned_endpoints` is typed but not backed: with reordering it may be wrong,
and the keys do not depend on it. The invariant is stated over any log and any
states, so that each *part* of a handler (`Learn`, `TakeOver`, `AddKeys`,
`HandOver`, `ContributeStatistics`) is shown to keep it in a lemma, and the
lemmas compose along the handler (`LaunchInv`, `OfferInv`, `RequestInv`,
`ResponseInv`, then `NextInv`). The properties follow by backing and
`GivesUnique`; `KeysGrow` by the same walk through the handlers, a part at a
time (`...Effect`, `Grows...`).

`TimestampsOnce` is the one that needs an assumption: with two groups on one
address the exception is thrown (section 4). With one, a sponsor with the first
id has met no response (`FounderUnanswered`, by `BatonOK`), so it knows nobody with
an id, and the first request it takes makes it hand over (`FreshInv`).

### `StrDhOrderProofs`: all messages received in one order

`Orderly` is `InOrder` and no duplicates, the guarantee of the run `StrDh_in_order`.

| Theorem | |
|---|---|
| `OrderedInvariant` | `Spec => []OrderedInv` |
| `NobodyReassigned` | `NoReassignment` |
| `MapsAreAccurate` | `MapsAccurate` |
| `GroupNeverOverfull` | `GroupNotOverfull`, if groups have two members or more (`SomebodyToAgreeWith`; `multicast-dh-example.cpp` refuses less) |
| `StrDhImplementsGroupKeyAgreement` | the refinement of `GroupKeyAgreement` |

**The argument.** What a member took is an initial part of the log (`TakenFirst`),
and only who took an offer requests, which is before every response
(`OfferFirst`). So a member that requested knows both members of every response of its group that it took or sent
(`RequesterInformed`), and, since only requesters are admitted, a sponsor took
the response that made it one and knows all that were given an id
(`SponsorInformed`): who is not in its map has none (`OncePerMember`). The ids are
given without a gap (`IdsConsecutive`), so the member with the last id knows
all others and stops in the handler that made it the sponsor (`LastComplete`).
For the refinement, `Group(s)` grows by one member with every response: it is the
founder and the members the responses name, by their ids.

### `StrDhRtxProofs`: retransmissions; loss, repetition, reordering and late timers

Every theorem assumes that groups have two members or more
(`SomebodyToAgreeWith`; `multicast-dh-example.cpp` refuses less): a founder starts as
a sponsor, and without a second member nobody would be there to be admitted.
`Network`, `Vanish` and `MaxQueued` are arbitrary.

| Theorem | |
|---|---|
| `Invariant` | `Spec => []IInv` |
| `TypeCorrect` | `TypeOK` |
| `FlagsRight` | `ScheduledFlagsRight` |
| `BatonNeverDoubled` | `OneBaton` |
| `KeysAgree`, `IdsUnique`, `MapsAreAccurate` | `KeyAgreement`, `UniqueIds`, `MapsAccurate`, which no run of `StrDhRtx` checks |
| `StrDhRtxImplementsGroupKeyAgreement` | the refinement of `GroupKeyAgreement` |

**The argument.** There is no log of messages here, but a sponsor keeps the response
that it sent in order to repeat it, and never another one: `History(member)`, the
union of these caches, is the history of the agreement, and it only grows. As in
`StrDhProofs`, ids are given once in it (`HistoryOK`), keys and maps are backed by
it (`MemberOK`), and the sponsor or the addressee of the last response has
the highest id (`BatonOK`): one of the two is there until the last id is given, though
nothing is said here of whether such a response is still repeated. Messages on their way say what their sender is, or was and
stays (`NetOK`), so a message that is late or repeated is as good as a new one:
this is what makes the network irrelevant. `TimersOK` ties
each flag to at most one handler that waits, is queued or was aborted (`Single`).

A handler here does several things one after the other. `Good(m, self)` says
that the states of the members with `self` for `m` satisfy the invariant and that
nothing `m` has was lost (`Stable`); each part of a handler takes a good `self` to
a good one (`Good...`), and the handlers compose them (`...Inv`). Two things hold
only of complete handlers: `Room`, since the member that takes the last id
becomes the sponsor and stops being it in the same handler, and what the net says, since
a handler decides what to send before its effect is complete. For the refinement
`NextInv` gives every step as `UNCHANGED member` or `Advances(m)`; the ids of
the history have no gap (`SizeInv`), and `Group(s)` gains a member exactly when the
history gains a response (`GroupSteps`).

### `StrDhRtxTokenProofs`: what the synch token and finish say, in any order of messages

| Theorem | Assuming, besides `SomebodyToAgreeWith` | |
|---|---|---|
| `CountsRight` | | `KnownCountsRight` |
| `KeysNeverLeftOut` | | `NoKeyLeftOut` (proved only): a member that is not the sponsor has added every key it can |
| `TokenMeans` | `OneService` | `TokenMeansSynched` |
| `FinishMeans` | `OneService`, `NoSurplusMember` | `FinishMeansKeyed` |
| `FinishEnds` | `OneService`, `NoSurplusMember` | `FinishShutsDown`, an action property |

The token and finish do not name the service, so what they say holds where one group
uses the address (`OneService`, as in the runs of `StrDhRtx`). A process that is one
too many for its group never gets an id, hence no key either; `NoSurplusMember`
says that there is none (`start_evaluation.bash` starts as many as it tells the founder).

**The argument.** `KnowInv` adds to `IInv` what a member makes of its own state:
whoever admitted somebody, so everybody with an id but the sponsor and the last
member, knows all before it (`PredecessorsKnown`); who is not the sponsor has
added what it can (`Settled`); and the handlers that repeat the token and finish
run for members that sent them (`TimersTell`). Who then knows everybody has the
group key (`Complete`). `TokenInv` says what the token means where it is,
in the net or at a member: `Reached(member, k)`, there is a last member and those with
an id before `k` know everybody; and that finish means that the last member has the
token (`LastHasToken`). Both stay true since nobody forgets anything, which is why a token
that is late, repeated or overtaken says nothing wrong. The group secret of the
last member has a place for each id, and every response in the history was sent by
a member with the id before the one it assigns: so all ids are held
(`LastMeansAll`) and, by counting, nobody is left out (`NobodyLeft`).
`NextTold` gives every step as `Lose` or as `Told(m)`, all that these invariants
need of the handlers. `FinishEnds` follows from the invariant alone: a finish that can be
received means that the last member has the token, so everybody else knows all and has the
key before the step (`FinishEndsMember`); of the last member, that it counts all the keys
unless one of a predecessor is missing.

### `StrDhRtxDutyProofs`: who has to go on, where no late request is received

| Theorem | |
|---|---|
| `RoleIsKept` | `FreshSpec => []RoleGoesOn` |
| `SilentOnlyWhenStuck` | `FreshSpec => []SilentOnlyWhenTokenStuck` |

Both assume `SomebodyToAgreeWith` and `OneService`, and nothing about the network, the
queue of handlers or the number of processes. `FreshSpec` is the one restriction, and it is
needed: deviation 10 is a behaviour of `Spec` that violates either. `OneService` excludes
deviation 4.

**The argument.** What a member repeats shares one timer, so arming it for one thing
gives up another; the proof shows that the other was not needed any more. `DutyInv` adds to
`TokenInv`, for each member, that what it still has to get across is what its timer is
armed for, or what a queued handler will go on with (`GoesOn`): the role, a response without
an answer, the question to the successors, the token nobody received, the finish the founder
did not receive. A handler stops on signs, and `SignsRight` says that they are right:
`higher_member_id_assigned` means that there is a member with a higher id or a last one,
`higher_member_id_synching` that the token was received. For this `SaysNow` ties each
message to its sender however late it comes; that its sender is still the sponsor, or
still holds the token, an offer or a request cannot say, and that is what `Stale` is about. A fresh one comes from the sponsor, or from the holder of the token.
While there is a sponsor nobody else needs its timer (`FreeWhileSponsor`), and neither does
anybody after the holder of the token (`FreeInSynch`), so answering
costs nothing. `TokenAt` says where the token is, once there is a last member. If no
timer is armed although the founder runs, nobody has anything to repeat (`SilentFree`);
then the role came to a last member, the token was received wherever it was sent, and the
founder has not received finish, or it would wait for its timeout: what is left is a member
that holds the token and knows all its successors, `TokenStuck`. An expired handler may be
queued and run after any other one, so each part of the argument is about `Asks`, armed
or queued, and not about the timer alone.

### `DistributedDhProofs`: both builds, loss, reordering and duplication at will

| Theorem | |
|---|---|
| `DistributedInvariant` | `Spec => []IInv` |
| `TypesRight` | `TypeOK` |
| `AcknowledgementsRight`, `HoldersAnswered` | `AcknowledgedHold`, `HoldersKnown` |
| `TimestampsOnce` | `TimestampsRecordedOnce` |
| `FinishedAgreed` | `FinishedMeansAgreed` |
| `FinalAgreement` | `AgreementFinal`, if no group has more members than its founder was told (`NoSurplusMember`) |
| `NothingTakenBack` | `[][Kept]_vars` (proved only): no step takes back an answer or a secret |
| `SponsorStopsLast` | `SponsorStopsAgreed`, if one group uses the address (`OneService`) |

**The argument.** `IInv` adds to the properties what the messages in `net` say: a
response on its way is of a sponsor that has its receiver on a list, an
acknowledgement of a member that has the secret. A sponsor therefore only counts
holders, and by cardinality the lists are complete when it finishes. Both
assumptions exclude configurations in which the property is false (section 4
for two groups; a surplus subscriber may become a holder late).

### `StartupProofs`: any processes and ports

| Theorem | |
|---|---|
| `PortBindingInvariant` | `Spec => []IInv` |
| `PortsAreDistinct`, `StartupKeepsPortsDistinct` | `PortsDistinct`: no two processes go on with one port |
| `PortBindingImplementsPortChoice`, `StartupImplementsPortChoice` | `ImplementsPortChoice`: refinement |
| `FounderLaunchedLast` | `FounderLast`, for less than ten subscribers (the property's own condition) |

**The argument.** Each process looks at the others one by one, so none ever knows
all the ports at one moment. But a process that looks keeps its port, so of two
with the same port that have looked at each other the one that looked last found
the other (`OneNoticed`); a process that goes on found exactly one socket, its own
(`OwnFound`), so two that both went on would contradict `OneNoticed`. Each step of
`Startup` is one of `PortBinding` or none. The founder is last because a
subscriber that has not joined has no port, so the script counts too few; strings
of one digit compare as their numbers do.

### `StatisticsProofs`: any number of members, evaluations aborted at any step

| Theorem | |
|---|---|
| `NothingOldWritten` | `NothingOld` |
| `TotalsAreExact` | `TotalsExact`, if with `RETRANSMISSIONS` at most one member records `DURATION_END` (`OneRecords`) |

**The argument.** `OldInv`: no step touches the objects of an evaluation that is
still to come (`Untouched`), so the segment of the running one holds contributions
of its own members only (`OwnCounts`), whatever a member still has open. `ExactInv`
is about evaluations in which every member opened the three objects of its own
(`Clean`; the property asks no more): the mutex then excludes the members that add
(`Exclusive`), and `Counted` says where the contribution of each has come to, in the
segment or on its way there. `OneRecords` is how the protocols record it: the founder alone
(`str_dh.cpp:250-251`, `:575`, `distributed_dh.cpp:243`); without it the recorder,
which keeps the first end it finds, would not write the last one.

**Only model-checked:** liveness (`AllContribute`, `TokenReturns`, `AllStop`,
`AllAgree`, `SponsorsStop`, `StatisticsWritten`), which cannot be proved by TLAPS
since it has no `ENABLED`. Every invariant and action property that a run checks, and
every refinement, is proved, under the assumptions named above; `RoleGoesOn` and
`SilentOnlyWhenTokenStuck` of `FreshSpec`.

## 6. Not modelled, and why

* The byte format of messages and the cryptography: libraries (boost archives,
  Crypto++).
* `process_find` of both protocols: nobody sends `FIND` (the code that did is
  commented out, `str_dh.cpp:46-48`, `distributed_dh.cpp:48-50`).
* Message counts: they influence nothing but the result file.
* The checks of the parameters in `start_evaluation.bash` and `main`; the name
  and the text of the result file; the loop of `start_runs.bash`,
  which starts one evaluation after the other; compiling.
* The lifetime of the buffer passed to `async_send_to` (`multicast_channel.cpp:94`):
  sending is taken to complete in the call, as it does on an idle UDP socket.
* The stand-alone experiments (`sender.cpp`, `receiver.cpp`, …), evaluation
  data, plotting, logging: no behaviour of the protocols.

## 7. Plan

Done, in this order: `GroupKeyAgreement`, `StrDh` with its runs, `StrDhProofs`,
`DistributedDh` with its runs; `StrDhMember` and `StrDhRtx`, `PortChoice`,
`PortBinding` and its proofs, `Startup`, `Statistics`; `DistributedDhProofs`,
`StrDhOrderProofs`, `StartupProofs`, `StatisticsProofs`, `StrDhRtxProofs`,
`StrDhRtxTokenProofs`, `StrDhRtxDutyProofs`. Nothing of the plan is left to prove; liveness
is out of reach of the prover; and of the code, section 6.
