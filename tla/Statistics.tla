----------------------------- MODULE Statistics -----------------------------
(***************************************************************************)
(* How the members of a group hand their statistics to the writer: the     *)
(* shared memory of src/statistics/statistics_recorder.cpp and             *)
(* src/statistics/statistics_writer.cpp.                                   *)
(*                                                                         *)
(* The writer removes what an earlier evaluation left, creates a segment   *)
(* with two maps, a condition and a mutex, and waits until the maps count  *)
(* as many members as the group has; then it writes its file.  Each member *)
(* opens the three objects, adds to the maps under the mutex and notifies. *)
(*                                                                         *)
(* An evaluation may be aborted (on_exit of start_evaluation.bash kills    *)
(* all processes) and another one started.  The shared objects survive,    *)
(* a locked mutex stays locked.  An object is known by the evaluation that *)
(* created it; who has opened it keeps it when its name is removed.        *)
(***************************************************************************)
EXTENDS Integers, FiniteSets, FiniteSetsExt

CONSTANTS
    Members,            \* the processes that contribute
    EndTime,            \* EndTime[m]: the DURATION_END that m recorded, or None
    Retransmissions,    \* TRUE: the build with RETRANSMISSIONS
    MaxEvaluations      \* bound: evaluations that are started

None == 0

Writer == "writer"
Nobody == "nobody"

ASSUME StatisticsAssumption ==
    /\ IsFiniteSet(Members)
    /\ Members # {}
    /\ Writer \notin Members
    /\ Nobody \notin Members
    /\ EndTime \in [Members -> Nat]
    /\ Retransmissions \in BOOLEAN
    /\ MaxEvaluations \in Nat \ {0}

member_count == Cardinality(Members)
Evaluations == 1 .. MaxEvaluations

\* What is summed up: the members, and all that is counted beside them.
count_metric == {"MEMBER_COUNT_", "CRYPTO_OPERATIONS_COUNT_"}

Objects == {"segment", "condition", "mutex"}

VARIABLES
    evaluation,     \* the number of the evaluation that runs
    pc,             \* pc[p]: where the writer and the members are
    named,          \* named[x]: the object x that has the name of x, or None
    handle,         \* handle[m][x]: the object x that m has opened
    segment,        \* segment[e]: the maps of segment e
    owner,          \* owner[e]: who has locked mutex e
    waiting,        \* waiting[e]: who waits for condition e
    adding,         \* adding[m]: what m has left to add, and the value it read
    file            \* file[e]: what the writer of evaluation e has written

vars == <<evaluation, pc, named, handle, segment, owner, waiting, adding, file>>

\* A count is the set of those who added to it.
NoMaps == [made |-> FALSE, end |-> None, count |-> [x \in count_metric |-> {}]]
EmptyMaps == [NoMaps EXCEPT !.made = TRUE]

NoAddition == [left |-> count_metric, metric |-> "", value |-> {}]

Goto(p, place) == pc' = [pc EXCEPT ![p] = place]

-----------------------------------------------------------------------------
(***************************************************************************)
(* Mutex and condition e.  Who is woken goes back to where it locks.       *)
(***************************************************************************)
Free(e) == owner[e] = Nobody

\* Mutant of Lock: a locked mutex can be locked.
LockAnyway(p, e) == owner' = [owner EXCEPT ![e] = p]

Lock(p, e) == Free(e) /\ owner' = [owner EXCEPT ![e] = p]

Unlock(e) == owner' = [owner EXCEPT ![e] = Nobody]

\* p goes on to place, after it has called notify_one.
NotifyOne(e, p, place) ==
    \/ /\ waiting[e] = {}
       /\ Goto(p, place)
       /\ UNCHANGED waiting
    \/ \E q \in waiting[e] :
          /\ pc' = [pc EXCEPT ![p] = place, ![q] = "lock"]
          /\ waiting' = [waiting EXCEPT ![e] = @ \ {q}]

-----------------------------------------------------------------------------
(***************************************************************************)
(* The script: it kills what runs, or everything has ended, and starts the *)
(* writer and, when that runs, the members.                                *)
(***************************************************************************)
StartEvaluation ==
    /\ evaluation < MaxEvaluations
    /\ evaluation' = evaluation + 1
    /\ pc' = [p \in Members \cup {Writer} |->
                IF p = Writer THEN "remove_segment" ELSE "working"]
    /\ handle' = [m \in Members |-> [x \in Objects |-> None]]
    /\ adding' = [m \in Members |-> NoAddition]
    /\ waiting' = [e \in Evaluations |-> {}]
    /\ UNCHANGED <<named, segment, owner, file>>

(***************************************************************************)
(* The writer, which uses the objects of its own evaluation.               *)
(***************************************************************************)
Remove(x, from, to) ==
    /\ pc[Writer] = from
    /\ named' = [named EXCEPT ![x] = None]
    /\ Goto(Writer, to)
    /\ UNCHANGED <<evaluation, handle, segment, owner, waiting, adding, file>>

\* create_only: the name must not be there.
Create(x, from, to) ==
    /\ pc[Writer] = from
    /\ named[x] = None
    /\ named' = [named EXCEPT ![x] = evaluation]
    /\ Goto(Writer, to)
    /\ UNCHANGED <<evaluation, handle, segment, owner, waiting, adding, file>>

\* Mutant of SetMaps: maps that an earlier evaluation left are used.
SetMapsFound(maps, from, to) ==
    /\ pc[Writer] = from
    /\ segment' = [segment EXCEPT ![evaluation] =
                      IF maps.made /\ evaluation > 1 /\ segment[evaluation - 1].made
                      THEN segment[evaluation - 1]
                      ELSE maps]
    /\ Goto(Writer, to)
    /\ UNCHANGED <<evaluation, named, handle, owner, waiting, adding, file>>

\* Both maps at once.
SetMaps(maps, from, to) ==
    /\ pc[Writer] = from
    /\ segment' = [segment EXCEPT ![evaluation] = maps]
    /\ Goto(Writer, to)
    /\ UNCHANGED <<evaluation, named, handle, owner, waiting, adding, file>>

Construct ==
    \/ Remove("segment", "remove_segment", "remove_mutex")
    \/ Remove("mutex", "remove_mutex", "remove_condition")
    \/ Remove("condition", "remove_condition", "create_segment")
    \/ Create("segment", "create_segment", "construct_maps")
    \/ SetMaps(EmptyMaps, "construct_maps", "create_condition")
    \/ Create("condition", "create_condition", "create_mutex")
    \/ Create("mutex", "create_mutex", "lock")

LockToWrite ==
    /\ pc[Writer] = "lock"
    /\ Lock(Writer, evaluation)
    /\ Goto(Writer, "check")
    /\ UNCHANGED <<evaluation, named, handle, segment, waiting, adding, file>>

AllContributed ==
    Cardinality(segment[evaluation].count["MEMBER_COUNT_"]) = member_count

\* Its notify_one finds nobody: a member that opened this condition finds the
\* maps, which were made before it, and does not wait.
AwaitMembers ==
    /\ pc[Writer] = "check"
    /\ ~ AllContributed
    /\ waiting' = [waiting EXCEPT ![evaluation] = @ \cup {Writer}]
    /\ Unlock(evaluation)
    /\ Goto(Writer, "wait")
    /\ UNCHANGED <<evaluation, named, handle, segment, adding, file>>

WriteFile ==
    /\ pc[Writer] = "check"
    /\ AllContributed
    /\ file' = [file EXCEPT ![evaluation] = segment[evaluation]]
    /\ Unlock(evaluation)
    /\ Goto(Writer, "destroy_maps")
    /\ UNCHANGED <<evaluation, named, handle, segment, waiting, adding>>

Destroy ==
    \/ SetMaps(NoMaps, "destroy_maps", "unname_condition")
    \/ Remove("condition", "unname_condition", "unname_mutex")
    \/ Remove("mutex", "unname_mutex", "unname_segment")
    \/ Remove("segment", "unname_segment", "done")

WriterStep ==
    Construct \/ LockToWrite \/ AwaitMembers \/ WriteFile \/ Destroy

(***************************************************************************)
(* contribute_statistics of member m.                                      *)
(***************************************************************************)
\* The script waits until the writer's process exists, not its objects.
Contribute(m) ==
    /\ pc[m] = "working"
    /\ Goto(m, "open_condition")
    /\ UNCHANGED <<evaluation, named, handle, segment, owner, waiting, adding, file>>

\* Without the object an exception is thrown and the member starts over.
Open(m, x, from, to) ==
    /\ pc[m] = from
    /\ IF named[x] = None
       THEN Goto(m, "open_condition") /\ UNCHANGED handle
       ELSE Goto(m, to) /\ handle' = [handle EXCEPT ![m][x] = named[x]]
    /\ UNCHANGED <<evaluation, named, segment, owner, waiting, adding, file>>

OpenObjects(m) ==
    \/ Open(m, "condition", "open_condition", "open_mutex")
    \/ Open(m, "mutex", "open_mutex", "open_segment")
    \/ Open(m, "segment", "open_segment", "lock")

LockToAdd(m) ==
    /\ pc[m] = "lock"
    /\ Lock(m, handle[m]["mutex"])
    /\ Goto(m, "find")
    /\ UNCHANGED <<evaluation, named, handle, segment, waiting, adding, file>>

Maps(m) == segment[handle[m]["segment"]]

AwaitMaps(m) ==
    /\ pc[m] = "find"
    /\ ~ Maps(m).made
    /\ waiting' = [waiting EXCEPT ![handle[m]["condition"]] = @ \cup {m}]
    /\ Unlock(handle[m]["mutex"])
    /\ Goto(m, "wait")
    /\ UNCHANGED <<evaluation, named, handle, segment, adding, file>>

FindMaps(m) ==
    /\ pc[m] = "find"
    /\ Maps(m).made
    /\ Goto(m, "add")
    /\ UNCHANGED <<evaluation, named, handle, segment, owner, waiting, adding, file>>

ReadCount(m) ==
    /\ pc[m] = "add"
    /\ \E x \in adding[m].left :
          adding' = [adding EXCEPT ![m] = [left |-> @.left \ {x}, metric |-> x,
                                           value |-> Maps(m).count[x]]]
    /\ Goto(m, "add_up")
    /\ UNCHANGED <<evaluation, named, handle, segment, owner, waiting, file>>

WriteCount(m) ==
    /\ pc[m] = "add_up"
    /\ segment' = [segment EXCEPT ![handle[m]["segment"]].count[adding[m].metric] =
                      adding[m].value \cup {<<evaluation, m>>}]
    /\ Goto(m, "add")
    /\ UNCHANGED <<evaluation, named, handle, owner, waiting, adding, file>>

Later(old, new) ==
    IF old = None THEN new
    ELSE IF Retransmissions \/ new = None THEN old
    ELSE IF old < new THEN new ELSE old

\* Mutant of AddTimes: nobody is notified.
AddTimesSilently(m) ==
    /\ pc[m] = "add"
    /\ adding[m].left = {}
    /\ segment' = [segment EXCEPT ![handle[m]["segment"]].end = Later(@, EndTime[m])]
    /\ Goto(m, "done")
    /\ Unlock(handle[m]["mutex"])
    /\ UNCHANGED <<evaluation, named, handle, waiting, adding, file>>

AddTimes(m) ==
    /\ pc[m] = "add"
    /\ adding[m].left = {}
    /\ segment' = [segment EXCEPT ![handle[m]["segment"]].end = Later(@, EndTime[m])]
    /\ NotifyOne(handle[m]["condition"], m, "done")
    /\ Unlock(handle[m]["mutex"])
    /\ UNCHANGED <<evaluation, named, handle, adding, file>>

MemberStep(m) ==
    \/ Contribute(m)
    \/ OpenObjects(m)
    \/ LockToAdd(m)
    \/ AwaitMaps(m)
    \/ FindMaps(m)
    \/ ReadCount(m)
    \/ WriteCount(m)
    \/ AddTimes(m)

-----------------------------------------------------------------------------
Init ==
    /\ evaluation = 0
    /\ pc = [p \in Members \cup {Writer} |-> "down"]
    /\ named = [x \in Objects |-> None]
    /\ handle = [m \in Members |-> [x \in Objects |-> None]]
    /\ segment = [e \in Evaluations |-> NoMaps]
    /\ owner = [e \in Evaluations |-> Nobody]
    /\ waiting = [e \in Evaluations |-> {}]
    /\ adding = [m \in Members |-> NoAddition]
    /\ file = [e \in Evaluations |-> NoMaps]

Next ==
    \/ StartEvaluation
    \/ WriterStep
    \/ \E m \in Members : MemberStep(m)

Spec == Init /\ [][Next]_vars

(***************************************************************************)
(* The evaluations are started, and every process runs.                    *)
(***************************************************************************)
Fairness ==
    /\ WF_vars(StartEvaluation)
    /\ WF_vars(WriterStep)
    /\ \A m \in Members : WF_vars(MemberStep(m))

FairSpec == Spec /\ Fairness

-----------------------------------------------------------------------------
\* m has opened an object that a killed evaluation left.
OpenedOld(m) == \E x \in Objects : handle[m][x] \notin {None, evaluation}

NobodyOpenedOld == \A m \in Members : ~ OpenedOld(m)

(***************************************************************************)
(* What is written is the sum over all members of the evaluation, each     *)
(* counted once, and the time when the last of them was finished, whenever *)
(* the members come and whoever was killed before, unless they opened what *)
(* the killed evaluation left.                                             *)
(***************************************************************************)
TotalsExact ==
    LET written == file[evaluation]
    IN  evaluation # 0 /\ NobodyOpenedOld /\ written.made =>
            /\ \A x \in count_metric : written.count[x] = {evaluation} \X Members
            /\ written.end = Max({EndTime[m] : m \in Members})

(***************************************************************************)
(* A contribution to an aborted evaluation never gets into the file of a   *)
(* later one, even if members of the later one open what was left behind.  *)
(***************************************************************************)
NothingOld ==
    \A e \in Evaluations : \A x \in count_metric :
        file[e].count[x] \subseteq {e} \X Members

(***************************************************************************)
(* No notification is lost and nobody waits for a killed process: the last *)
(* evaluation ends with the statistics of all its members written, unless  *)
(* one of them opened what the killed evaluation left.                     *)
(***************************************************************************)
StatisticsWritten ==
    <>[](/\ evaluation = MaxEvaluations
         /\ \/ \A p \in Members \cup {Writer} : pc[p] = "done"
            \/ ~ NobodyOpenedOld)
=============================================================================
