-------------------------- MODULE StatisticsProofs --------------------------
(***************************************************************************)
(* Proofs about Statistics, for any number of members and of evaluations   *)
(* killed at any moment: nothing of a killed evaluation gets into a file,  *)
(* and the totals are exact unless a member opened what was left behind.   *)
(***************************************************************************)
EXTENDS Statistics, FiniteSetTheorems, TLAPS

Places ==
    {"down", "working", "open_condition", "open_mutex", "open_segment",
     "remove_segment", "remove_mutex", "remove_condition", "create_segment",
     "construct_maps", "create_condition", "create_mutex",
     "lock", "check", "wait", "find", "add", "add_up",
     "destroy_maps", "unname_condition", "unname_mutex", "unname_segment", "done"}

Contributions == Evaluations \X Members

TwoMaps ==
    [made : BOOLEAN, end : Nat, count : [count_metric -> SUBSET Contributions]]

TypeOK ==
    /\ evaluation \in 0 .. MaxEvaluations
    /\ pc \in [Members \cup {Writer} -> Places]
    /\ named \in [Objects -> 0 .. evaluation]
    /\ handle \in [Members -> [Objects -> 0 .. evaluation]]
    /\ segment \in [Evaluations -> TwoMaps]
    /\ owner \in [Evaluations -> Members \cup {Writer, Nobody}]
    /\ waiting \in [Evaluations -> SUBSET (Members \cup {Writer})]
    /\ adding \in [Members -> [left : SUBSET count_metric,
                               metric : count_metric \cup {""},
                               value : SUBSET Contributions]]
    /\ file \in [Evaluations -> TwoMaps]

\* Nobody runs before the first evaluation, which has the number 1.
NotStarted == evaluation = 0 => \A p \in Members \cup {Writer} : pc[p] = "down"

\* Nothing has touched what a later evaluation will use.
Untouched ==
    \A e \in Evaluations : e > evaluation =>
        segment[e] = NoMaps /\ file[e] = NoMaps /\ Free(e)

\* The counts of this evaluation, and the files, hold no earlier contribution.
Own(e, set) == set \subseteq {e} \X Members

OwnCounts ==
    /\ \A e \in Evaluations : \A x \in count_metric :
          e >= evaluation => Own(e, segment[e].count[x])
    /\ \A m \in Members :
          pc[m] = "add_up" /\ handle[m]["segment"] = evaluation
          => Own(evaluation, adding[m].value)
    /\ NothingOld

-----------------------------------------------------------------------------
\* Who waits is at one condition: the one that it has opened.
Waits ==
    \A e \in Evaluations : \A q \in waiting[e] :
        /\ pc[q] = "wait"
        /\ e = IF q = Writer THEN evaluation ELSE handle[q]["condition"]

Opened(m) ==
    pc[m] \notin {"down", "working", "open_condition", "open_mutex", "open_segment"}

Opens ==
    \A m \in Members :
        /\ pc[m] \in {"open_mutex", "open_segment"} => handle[m]["condition"] # None
        /\ pc[m] = "open_segment" => handle[m]["mutex"] # None
        /\ Opened(m) => \A x \in Objects : handle[m][x] # None

OldInv == TypeOK /\ NotStarted /\ Untouched /\ Waits /\ Opens /\ OwnCounts

\* Whoever has opened the three objects has those of this evaluation.
Clean == \A m \in Members : Opened(m) => \A x \in Objects : handle[m][x] = evaluation

\* The mutex is created last.
ConstructPlaces ==
    {"remove_segment", "remove_mutex", "remove_condition", "create_segment",
     "construct_maps", "create_condition", "create_mutex"}

MutexLast ==
    pc[Writer] \in ConstructPlaces =>
        /\ named["mutex"] # evaluation
        /\ \A m \in Members : handle[m]["mutex"] # evaluation

\* Who is between lock and unlock has the mutex.
Exclusive ==
    Clean =>
        /\ \A m \in Members : pc[m] \in {"find", "add", "add_up"} => owner[evaluation] = m
        /\ pc[Writer] = "check" => owner[evaluation] = Writer

\* What a member has added so far.
Started(m) == pc[m] \in {"add", "add_up", "done"}

AddedSoFar(m, maps) ==
    /\ \A x \in count_metric : <<evaluation, m>> \in maps.count[x] => Started(m)
    /\ ~ Started(m) => adding[m].left = count_metric
    /\ pc[m] = "add" =>
          \A x \in count_metric \ adding[m].left : <<evaluation, m>> \in maps.count[x]
    /\ pc[m] = "add_up" =>
          /\ adding[m].metric \in count_metric
          /\ adding[m].value = maps.count[adding[m].metric]
          /\ \A x \in count_metric \ (adding[m].left \cup {adding[m].metric}) :
                <<evaluation, m>> \in maps.count[x]
    /\ pc[m] = "done" =>
          /\ \A x \in count_metric : <<evaluation, m>> \in maps.count[x]
          /\ EndTime[m] <= maps.end

EndRecorded(maps) ==
    maps.end # None => \E m \in Members : pc[m] = "done" /\ EndTime[m] = maps.end

DestroyPlaces == {"unname_condition", "unname_mutex", "unname_segment", "done"}

Destroyed == pc[Writer] \in DestroyPlaces

Counted ==
    evaluation # 0 /\ Clean /\ ~ Destroyed =>
        /\ \A m \in Members : AddedSoFar(m, segment[evaluation])
        /\ EndRecorded(segment[evaluation])

\* The writer has written its file, when all the members were done.
Written == Destroyed \/ pc[Writer] = "destroy_maps"

Exact(maps) ==
    /\ \A x \in count_metric : maps.count[x] = {evaluation} \X Members
    /\ maps.end = Max({EndTime[m] : m \in Members})

FileExact ==
    evaluation # 0 =>
        /\ Written /\ Clean => \A m \in Members : pc[m] = "done"
        /\ file[evaluation].made => Written
        /\ Clean /\ file[evaluation].made => Exact(file[evaluation])

ExactInv ==
    /\ OldInv
    /\ MutexLast
    /\ Exclusive
    /\ Counted
    /\ FileExact

-----------------------------------------------------------------------------
(***************************************************************************)
(* The steps of the writer that only rename an object, as these proofs see *)
(* them.                                                                   *)
(***************************************************************************)
Passes(from, to) ==
    /\ from \in Places \ {"down", "wait"}
    /\ to \in Places \ {"down", "check", "wait", "destroy_maps"}
    /\ to \in ConstructPlaces => from \in ConstructPlaces
    /\ from \in DestroyPlaces <=> to \in DestroyPlaces
    /\ from # "destroy_maps"

LEMMA WriterMoves ==
    ASSUME WriterStep
    PROVE  \/ \E x \in Objects, from, to \in Places :
                 Passes(from, to) /\ Remove(x, from, to)
           \/ \E x \in Objects, from, to \in Places :
                 /\ Passes(from, to)
                 /\ x = "mutex" => to \notin ConstructPlaces
                 /\ Create(x, from, to)
           \/ SetMaps(EmptyMaps, "construct_maps", "create_condition")
           \/ LockToWrite
           \/ AwaitMembers
           \/ WriteFile
           \/ SetMaps(NoMaps, "destroy_maps", "unname_condition")
<1>1. /\ Passes("remove_segment", "remove_mutex")
      /\ Passes("remove_mutex", "remove_condition")
      /\ Passes("remove_condition", "create_segment")
      /\ Passes("create_segment", "construct_maps")
      /\ Passes("create_condition", "create_mutex")
      /\ Passes("create_mutex", "lock")
      /\ Passes("unname_condition", "unname_mutex")
      /\ Passes("unname_mutex", "unname_segment")
      /\ Passes("unname_segment", "done")
  BY DEF Passes, Places, ConstructPlaces, DestroyPlaces
<1>2. \A from, to : Passes(from, to) => from \in Places /\ to \in Places
  BY DEF Passes
<1>3. "lock" \notin ConstructPlaces
  BY DEF ConstructPlaces
<1>4. {"segment", "condition", "mutex"} = Objects
  BY DEF Objects
<1>5. CASE Construct
  BY <1>1, <1>2, <1>3, <1>4, <1>5 DEF Construct
<1>6. CASE Destroy
  BY <1>1, <1>2, <1>4, <1>6 DEF Destroy
<1> QED
  BY <1>5, <1>6 DEF WriterStep

-----------------------------------------------------------------------------
(***************************************************************************)
(* The types.                                                              *)
(***************************************************************************)
LEMMA Maps0 ==
    /\ NoMaps \in TwoMaps
    /\ EmptyMaps \in TwoMaps
    /\ NoAddition \in [left : SUBSET count_metric, metric : count_metric \cup {""},
                       value : SUBSET Contributions]
    /\ ~ NoMaps.made
    /\ NoMaps.end = None /\ EmptyMaps.end = None
    /\ \A x \in count_metric : NoMaps.count[x] = {} /\ EmptyMaps.count[x] = {}
    /\ NoAddition.left = count_metric
BY DEF NoMaps, EmptyMaps, TwoMaps, NoAddition, Contributions, None

LEMMA InitType == Init => TypeOK /\ NotStarted /\ Untouched
<1> SUFFICES ASSUME Init PROVE TypeOK /\ NotStarted /\ Untouched
  OBVIOUS
<1>1. TypeOK
  <2>1. "down" \in Places /\ MaxEvaluations \in Nat /\ None \in 0 .. 0
    BY StatisticsAssumption DEF Places, None
  <2>2. /\ pc \in [Members \cup {Writer} -> Places]
        /\ owner \in [Evaluations -> Members \cup {Writer, Nobody}]
        /\ waiting \in [Evaluations -> SUBSET (Members \cup {Writer})]
    BY <2>1 DEF Init
  <2>6. evaluation \in 0 .. MaxEvaluations
    BY <2>1 DEF Init
  <2>7. segment \in [Evaluations -> TwoMaps]
    BY Maps0 DEF Init
  <2>8. file \in [Evaluations -> TwoMaps]
    BY Maps0 DEF Init
  <2>3. named \in [Objects -> 0 .. evaluation]
    BY <2>1 DEF Init
  <2>4. handle \in [Members -> [Objects -> 0 .. evaluation]]
    <3>1. [x \in Objects |-> None] \in [Objects -> 0 .. evaluation]
      BY <2>1 DEF Init
    <3> QED
      BY <3>1, Zenon DEF Init
  <2>5. adding \in [Members -> [left : SUBSET count_metric,
                               metric : count_metric \cup {""},
                               value : SUBSET Contributions]]
    BY Maps0 DEF Init
  <2> QED
    BY <2>2, <2>3, <2>4, <2>5, <2>6, <2>7, <2>8 DEF TypeOK
<1> QED
  BY <1>1 DEF Init, NotStarted, Untouched, Free

LEMMA RunsNow ==
    ASSUME TypeOK, NotStarted, NEW p \in Members \cup {Writer}, pc[p] # "down"
    PROVE  evaluation \in Evaluations
<1>1. MaxEvaluations \in Nat /\ evaluation \in 0 .. MaxEvaluations /\ evaluation # 0
  BY StatisticsAssumption DEF TypeOK, NotStarted
<1> QED
  BY <1>1 DEF Evaluations

LEMMA WriterType ==
    ASSUME TypeOK, NotStarted, WriterStep
    PROVE  TypeOK' /\ evaluation' = evaluation /\ evaluation \in Evaluations
<1>0. MaxEvaluations \in Nat \ {0} /\ None = 0
  BY StatisticsAssumption DEF None
<1>1. ASSUME pc[Writer] # "down"
      PROVE  evaluation \in Evaluations /\ evaluation \in 0 .. evaluation /\ 0 \in 0 .. evaluation
  BY <1>0, <1>1, RunsNow DEF Evaluations
<1> USE DEF TypeOK
<1>2. ASSUME NEW x \in Objects, NEW from \in Places, NEW to \in Places,
             Passes(from, to), Remove(x, from, to)
      PROVE  TypeOK' /\ evaluation' = evaluation /\ evaluation \in Evaluations
  <2>1. pc[Writer] # "down"
    BY <1>2 DEF Remove, Passes
  <2> QED
    BY <1>0, <1>1, <1>2, <2>1 DEF Remove, Goto
<1>3. ASSUME NEW x \in Objects, NEW from \in Places, NEW to \in Places,
             Passes(from, to), Create(x, from, to)
      PROVE  TypeOK' /\ evaluation' = evaluation /\ evaluation \in Evaluations
  <2>1. pc[Writer] # "down"
    BY <1>3 DEF Create, Passes
  <2> QED
    BY <1>1, <1>3, <2>1 DEF Create, Goto
<1>4. ASSUME NEW maps \in TwoMaps, NEW from \in Places, NEW to \in Places,
             from # "down", SetMaps(maps, from, to)
      PROVE  TypeOK' /\ evaluation' = evaluation /\ evaluation \in Evaluations
  <2>1. evaluation \in Evaluations
    BY <1>1, <1>4 DEF SetMaps
  <2> QED
    BY <1>4, <2>1 DEF SetMaps, Goto
<1>5. CASE LockToWrite
  <2>1. evaluation \in Evaluations /\ "check" \in Places
    BY <1>1, <1>5 DEF LockToWrite, Places
  <2> QED
    BY <1>5, <2>1 DEF LockToWrite, Lock, Goto
<1>6. CASE AwaitMembers
  <2>1. evaluation \in Evaluations /\ "wait" \in Places /\ "lock" \in Places
    BY <1>1, <1>6 DEF AwaitMembers, Places
  <2>2. evaluation' = evaluation /\ owner' = [owner EXCEPT ![evaluation] = Nobody]
        /\ UNCHANGED <<named, handle, segment, adding, file>>
    BY <1>6 DEF AwaitMembers, Unlock
  <2>3. /\ pc' \in [Members \cup {Writer} -> Places]
        /\ waiting' \in [Evaluations -> SUBSET (Members \cup {Writer})]
    BY <1>6, <2>1 DEF AwaitMembers, Goto
  <2> QED
    BY <2>1, <2>2, <2>3
<1>7. CASE WriteFile
  <2>1. evaluation \in Evaluations /\ "destroy_maps" \in Places
    BY <1>1, <1>7 DEF WriteFile, Places
  <2> QED
    BY <1>7, <2>1 DEF WriteFile, Unlock, Goto
<1>8. {"construct_maps", "create_condition", "destroy_maps", "unname_condition"} \subseteq Places
  BY DEF Places
<1> QED
  BY <1>2, <1>3, <1>4, <1>5, <1>6, <1>7, <1>8, Maps0, WriterMoves

LEMMA NotifyType ==
    ASSUME TypeOK, NEW e \in Evaluations, NEW p \in Members, NEW place \in Places,
           NotifyOne(e, p, place)
    PROVE  /\ pc' \in [Members \cup {Writer} -> Places]
           /\ waiting' \in [Evaluations -> SUBSET (Members \cup {Writer})]
<1> USE DEF TypeOK
<1>1. CASE Goto(p, place) /\ UNCHANGED waiting
  BY <1>1 DEF Goto
<1>2. ASSUME NEW q \in waiting[e],
             pc' = [pc EXCEPT ![p] = place, ![q] = "lock"],
             waiting' = [waiting EXCEPT ![e] = @ \ {q}]
      PROVE  /\ pc' \in [Members \cup {Writer} -> Places]
             /\ waiting' \in [Evaluations -> SUBSET (Members \cup {Writer})]
  <2>1. "lock" \in Places
    BY DEF Places
  <2> QED
    BY <1>2, <2>1
<1> QED
  BY <1>1, <1>2 DEF NotifyOne

\* The objects that a member has opened are there.
LEMMA OpenedObjects ==
    ASSUME TypeOK, Opens, NEW m \in Members, Opened(m), NEW x \in Objects
    PROVE  handle[m][x] \in Evaluations /\ handle[m][x] <= evaluation
<1>1. handle[m][x] \in 0 .. evaluation /\ handle[m][x] # 0
  BY DEF TypeOK, Opens, None
<1>2. evaluation \in 0 .. MaxEvaluations /\ MaxEvaluations \in Nat
  BY StatisticsAssumption DEF TypeOK
<1> QED
  BY <1>1, <1>2 DEF Evaluations

LEMMA LaterType ==
    ASSUME NEW a \in Nat, NEW b \in Nat
    PROVE  Later(a, b) \in Nat
BY DEF Later

\* An addition to maps leaves maps.
LEMMA MapsAdded ==
    ASSUME NEW maps \in TwoMaps, NEW x \in count_metric \cup {""},
           NEW v \in SUBSET Contributions, NEW n \in Nat
    PROVE  LET more == [maps EXCEPT !.count = [@ EXCEPT ![x] = v]]
               later == [maps EXCEPT !.end = n]
           IN  /\ more \in TwoMaps
               /\ more.made = maps.made
               /\ more.end = maps.end
               /\ \A y \in count_metric :
                     more.count[y] = IF y = x THEN v ELSE maps.count[y]
               /\ later \in TwoMaps
               /\ later.made = maps.made
               /\ later.end = n
               /\ later.count = maps.count
<1>1. maps.count \in [count_metric -> SUBSET Contributions]
  BY DEF TwoMaps
<1>2. [maps.count EXCEPT ![x] = v] \in [count_metric -> SUBSET Contributions]
  BY <1>1
<1> QED
  BY <1>1, <1>2 DEF TwoMaps

LEMMA MemberType ==
    ASSUME TypeOK, NotStarted, Opens, NEW m \in Members, MemberStep(m)
    PROVE  TypeOK' /\ evaluation' = evaluation /\ evaluation \in Evaluations
<1>1. evaluation \in Evaluations
  <2>1. pc[m] # "down"
    BY DEF MemberStep, Contribute, OpenObjects, Open, LockToAdd, AwaitMaps, FindMaps,
           ReadCount, WriteCount, AddTimes
  <2> QED
    BY <2>1, RunsNow
<1>2. {"open_condition", "open_mutex", "open_segment", "lock", "find", "wait", "add",
       "add_up", "done"} \subseteq Places
  BY DEF Places
<1>3. Objects = {"segment", "condition", "mutex"}
  BY DEF Objects
<1>4. ASSUME Opened(m)
      PROVE  /\ handle[m]["segment"] \in Evaluations
             /\ handle[m]["condition"] \in Evaluations
             /\ handle[m]["mutex"] \in Evaluations
  BY <1>3, <1>4, OpenedObjects
<1> USE DEF TypeOK
<1>5. CASE Contribute(m)
  BY <1>1, <1>2, <1>5 DEF Contribute, Goto
<1>6. ASSUME NEW x \in Objects, NEW from \in Places, NEW to \in Places, Open(m, x, from, to)
      PROVE  TypeOK' /\ evaluation' = evaluation
  <2>1. pc' \in [Members \cup {Writer} -> Places]
    BY <1>2, <1>6 DEF Open, Goto
  <2>2. handle' \in [Members -> [Objects -> 0 .. evaluation]]
    <3>1. CASE handle' = handle
      BY <3>1
    <3>2. CASE handle' = [handle EXCEPT ![m] = [@ EXCEPT ![x] = named[x]]]
      <4>1. handle[m] \in [Objects -> 0 .. evaluation] /\ named[x] \in 0 .. evaluation
        OBVIOUS
      <4>2. [handle[m] EXCEPT ![x] = named[x]] \in [Objects -> 0 .. evaluation]
        BY <4>1
      <4> QED
        BY <3>2, <4>2
    <3> QED
      BY <1>6, <3>1, <3>2 DEF Open
  <2> QED
    BY <1>6, <2>1, <2>2 DEF Open
<1>7. CASE LockToAdd(m)
  BY <1>1, <1>2, <1>7 DEF LockToAdd, Lock, Goto
<1>8. CASE AwaitMaps(m)
  <2>1. Opened(m)
    BY <1>8 DEF AwaitMaps, Opened
  <2> QED
    BY <1>1, <1>2, <1>4, <1>8, <2>1 DEF AwaitMaps, Unlock, Goto
<1>9. CASE FindMaps(m)
  BY <1>1, <1>2, <1>9 DEF FindMaps, Goto
<1>10. CASE ReadCount(m)
  <2>1. Opened(m)
    BY <1>10 DEF ReadCount, Opened
  <2>2. PICK x \in adding[m].left :
           adding' = [adding EXCEPT ![m] = [left |-> @.left \ {x}, metric |-> x,
                                            value |-> Maps(m).count[x]]]
    BY <1>10 DEF ReadCount
  <2>3. x \in count_metric /\ Maps(m).count[x] \in SUBSET Contributions
    <3>1. segment[handle[m]["segment"]] \in TwoMaps
      BY <1>4, <2>1
    <3>2. adding[m].left \in SUBSET count_metric
      OBVIOUS
    <3> QED
      BY <3>1, <3>2 DEF Maps, TwoMaps
  <2>4. [left |-> adding[m].left \ {x}, metric |-> x, value |-> Maps(m).count[x]]
          \in [left : SUBSET count_metric, metric : count_metric \cup {""},
               value : SUBSET Contributions]
    BY <2>3
  <2>5. adding' \in [Members -> [left : SUBSET count_metric, metric : count_metric \cup {""},
                                 value : SUBSET Contributions]]
    BY <2>2, <2>4
  <2> QED
    BY <1>1, <1>2, <1>10, <2>5 DEF ReadCount, Goto
<1>11. CASE WriteCount(m)
  <2> DEFINE h == handle[m]["segment"]
             new == adding[m].value \cup {<<evaluation, m>>}
  <2>1. Opened(m)
    BY <1>11 DEF WriteCount, Opened
  <2>2. h \in Evaluations /\ new \in SUBSET Contributions
    <3>1. <<evaluation, m>> \in Contributions
      BY <1>1 DEF Contributions
    <3>2. adding[m].value \in SUBSET Contributions
      OBVIOUS
    <3> QED
      BY <1>4, <2>1, <3>1, <3>2
  <2>3. segment' = [segment EXCEPT ![h].count[adding[m].metric] = new]
    BY <1>11 DEF WriteCount
  <2> HIDE DEF h, new
  <2>4. segment' \in [Evaluations -> TwoMaps]
    <3>1. adding[m].metric \in count_metric \cup {""}
      OBVIOUS
    <3>2. segment[h] \in TwoMaps
      BY <2>2
    <3>3. [segment[h] EXCEPT !.count = [@ EXCEPT ![adding[m].metric] = new]] \in TwoMaps
      BY <2>2, <3>1, <3>2, MapsAdded
    <3>4. segment' = [segment EXCEPT ![h] =
                         [segment[h] EXCEPT !.count = [@ EXCEPT ![adding[m].metric] = new]]]
      BY <2>2, <2>3, <3>2
    <3> QED
      BY <2>2, <3>3, <3>4
  <2> QED
    BY <1>1, <1>2, <1>11, <2>4 DEF WriteCount, Goto
<1>12. CASE AddTimes(m)
  <2> DEFINE h == handle[m]["segment"]
             new == Later(segment[h].end, EndTime[m])
  <2>1. Opened(m)
    BY <1>12 DEF AddTimes, Opened
  <2>2. h \in Evaluations /\ new \in Nat
    BY <1>4, <2>1, LaterType, StatisticsAssumption DEF TwoMaps
  <2>3. segment' = [segment EXCEPT ![h] = [@ EXCEPT !.end = new]]
    BY <1>12 DEF AddTimes
  <2> HIDE DEF h, new
  <2>4. segment' \in [Evaluations -> TwoMaps]
    BY <2>2, <2>3 DEF TwoMaps
  <2>5. /\ pc' \in [Members \cup {Writer} -> Places]
        /\ waiting' \in [Evaluations -> SUBSET (Members \cup {Writer})]
    BY <1>2, <1>4, <1>12, <2>1, NotifyType DEF AddTimes
  <2>6. owner' \in [Evaluations -> Members \cup {Writer, Nobody}]
    BY <1>12 DEF AddTimes, Unlock
  <2> QED
    BY <1>1, <1>12, <2>4, <2>5, <2>6 DEF AddTimes
<1> QED
  BY <1>1, <1>2, <1>3, <1>5, <1>6, <1>7, <1>8, <1>9, <1>10, <1>11, <1>12
     DEF MemberStep, OpenObjects

LEMMA StartType ==
    ASSUME TypeOK, NotStarted, StartEvaluation
    PROVE  TypeOK' /\ evaluation' = evaluation + 1 /\ evaluation' \in Evaluations
<1>1. evaluation' = evaluation + 1 /\ evaluation' \in Evaluations /\ evaluation \in Nat
      /\ evaluation' \in 0 .. MaxEvaluations
  <2>1. MaxEvaluations \in Nat /\ evaluation \in 0 .. MaxEvaluations
    BY StatisticsAssumption DEF TypeOK
  <2>2. evaluation < MaxEvaluations /\ evaluation' = evaluation + 1
    BY DEF StartEvaluation
  <2> QED
    BY <2>1, <2>2 DEF Evaluations
<1>0. 0 .. evaluation \subseteq 0 .. evaluation' /\ None \in 0 .. evaluation'
  BY <1>1 DEF None
<1> USE DEF TypeOK
<1>2. pc' \in [Members \cup {Writer} -> Places]
  <2>1. {"remove_segment", "working"} \subseteq Places
    BY DEF Places
  <2> QED
    BY <2>1 DEF StartEvaluation
<1>3. named' \in [Objects -> 0 .. evaluation']
  <2>1. named' = named /\ named \in [Objects -> 0 .. evaluation]
    BY DEF StartEvaluation
  <2> HIDE DEF TypeOK
  <2> QED
    BY <1>0, <2>1
<1>4. handle' \in [Members -> [Objects -> 0 .. evaluation']]
  <2>1. [x \in Objects |-> None] \in [Objects -> 0 .. evaluation']
    BY <1>0
  <2> QED
    BY <2>1 DEF StartEvaluation
<1>5. adding' \in [Members -> [left : SUBSET count_metric, metric : count_metric \cup {""},
                               value : SUBSET Contributions]]
  BY Maps0 DEF StartEvaluation
<1>6. waiting' \in [Evaluations -> SUBSET (Members \cup {Writer})]
  BY DEF StartEvaluation
<1> QED
  BY <1>1, <1>2, <1>3, <1>4, <1>5, <1>6 DEF StartEvaluation

-----------------------------------------------------------------------------
(***************************************************************************)
(* How a step moves the processes.  Besides the one that takes the step,   *)
(* at most one that waits is woken.                                        *)
(***************************************************************************)
Stays(p) == pc'[p] = pc[p] \/ (pc[p] = "wait" /\ pc'[p] = "lock")

LEMMA NotifyMoves ==
    ASSUME TypeOK, Waits, NEW e \in Evaluations, NEW m \in Members, pc[m] # "wait",
           NEW place \in Places, NotifyOne(e, m, place)
    PROVE  /\ pc'[m] = place
           /\ \A p \in Members \cup {Writer} : p # m => Stays(p)
           /\ \A d \in Evaluations : \A q \in waiting'[d] :
                 q # m /\ q \in waiting[d] /\ pc'[q] = pc[q]
<1> USE DEF TypeOK
<1>1. CASE Goto(m, place) /\ UNCHANGED waiting
  BY <1>1 DEF Goto, Stays, Waits
<1>2. ASSUME NEW q \in waiting[e],
             pc' = [pc EXCEPT ![m] = place, ![q] = "lock"],
             waiting' = [waiting EXCEPT ![e] = @ \ {q}]
      PROVE  /\ pc'[m] = place
             /\ \A p \in Members \cup {Writer} : p # m => Stays(p)
             /\ \A d \in Evaluations : \A r \in waiting'[d] :
                   r # m /\ r \in waiting[d] /\ pc'[r] = pc[r]
  <2>1. pc[q] = "wait" /\ q # m /\ q \in Members \cup {Writer}
    BY <1>2 DEF Waits
  <2>2. \A d \in Evaluations : q \in waiting[d] => d = e
    <3>1. e = IF q = Writer THEN evaluation ELSE handle[q]["condition"]
      BY <1>2 DEF Waits
    <3>2. ASSUME NEW d \in Evaluations, q \in waiting[d]
          PROVE  d = IF q = Writer THEN evaluation ELSE handle[q]["condition"]
      BY <3>2 DEF Waits
    <3> QED
      BY <3>1, <3>2
  <2>3. \A d \in Evaluations :
           waiting'[d] = IF d = e THEN waiting[d] \ {q} ELSE waiting[d]
    BY <1>2
  <2>5. \A d \in Evaluations : waiting[d] \subseteq Members \cup {Writer}
    OBVIOUS
  <2>6. \A d \in Evaluations : m \notin waiting[d]
    BY DEF Waits
  <2>4. \A d \in Evaluations : \A r \in waiting'[d] :
            r # m /\ r # q /\ r \in waiting[d] /\ r \in Members \cup {Writer}
    BY <2>2, <2>3, <2>5, <2>6, Zenon
  <2> QED
    BY <1>2, <2>1, <2>4 DEF Stays
<1> QED
  BY <1>1, <1>2 DEF NotifyOne

LEMMA MemberMoves ==
    ASSUME TypeOK, NotStarted, Waits, Opens, NEW m \in Members, MemberStep(m)
    PROVE  /\ pc[m] \notin {"down", "wait", "done"}
           /\ Opened(m) => pc[m] \in {"lock", "find", "add", "add_up"} /\ Opened(m)'
           /\ \A p \in Members \cup {Writer} : p # m => Stays(p)
           /\ \A n \in Members : Opened(n) \/ n # m => handle'[n] = handle[n]
           /\ \A e \in Evaluations : \A q \in waiting'[e] :
                 IF q = m THEN pc'[m] = "wait" /\ Opened(m) /\ e = handle[m]["condition"]
                          ELSE q \in waiting[e] /\ pc'[q] = pc[q]
           /\ UNCHANGED <<evaluation, named, file>>
<1> USE DEF TypeOK
<1>1. \A e \in Evaluations : \A q \in waiting[e] : pc[q] = "wait" /\ q \in Members \cup {Writer}
  BY DEF Waits
<1>2. ASSUME NEW to, pc[m] \notin {"down", "wait", "done"}, Goto(m, to), UNCHANGED waiting
      PROVE  /\ pc'[m] = to
             /\ \A p \in Members \cup {Writer} : p # m => Stays(p)
             /\ \A e \in Evaluations : \A q \in waiting'[e] :
                   q # m /\ q \in waiting[e] /\ pc'[q] = pc[q]
  BY <1>1, <1>2 DEF Goto, Stays
<1>3. CASE Contribute(m)
  BY <1>2, <1>3 DEF Contribute, Opened
<1>4. ASSUME NEW x \in Objects, NEW from \in {"open_condition", "open_mutex", "open_segment"},
             NEW to, Open(m, x, from, to)
      PROVE  /\ ~ Opened(m)
             /\ \A p \in Members \cup {Writer} : p # m => Stays(p)
             /\ \A n \in Members : n # m => handle'[n] = handle[n]
             /\ \A e \in Evaluations : \A q \in waiting'[e] :
                   q # m /\ q \in waiting[e] /\ pc'[q] = pc[q]
             /\ UNCHANGED <<evaluation, named, file>>
  <2>1. /\ pc[m] = from
        /\ Goto(m, "open_condition") \/ Goto(m, to)
        /\ UNCHANGED <<evaluation, named, file, waiting>>
    BY <1>4 DEF Open
  <2>2. \A n \in Members : n # m => handle'[n] = handle[n]
    BY <1>4 DEF Open
  <2>3. pc[m] \notin {"down", "wait", "done"} /\ ~ Opened(m)
    BY <2>1 DEF Opened
  <2>4. /\ \A p \in Members \cup {Writer} : p # m => Stays(p)
        /\ \A e \in Evaluations : \A q \in waiting'[e] :
              q # m /\ q \in waiting[e] /\ pc'[q] = pc[q]
    BY <1>2, <2>1, <2>3, Zenon
  <2> QED
    BY <2>1, <2>2, <2>3, <2>4
<1>5. CASE LockToAdd(m)
  <2>1. /\ pc[m] = "lock" /\ Goto(m, "find")
        /\ UNCHANGED <<evaluation, named, handle, waiting, file>>
    BY <1>5 DEF LockToAdd
  <2>2. /\ pc'[m] = "find"
        /\ \A p \in Members \cup {Writer} : p # m => Stays(p)
        /\ \A e \in Evaluations : \A q \in waiting'[e] :
              q # m /\ q \in waiting[e] /\ pc'[q] = pc[q]
    BY <1>2, <2>1, Zenon
  <2> QED
    BY <2>1, <2>2 DEF Opened
<1>6. CASE AwaitMaps(m)
  <2>1. \A p \in Members \cup {Writer} : p # m => pc'[p] = pc[p]
    BY <1>6 DEF AwaitMaps, Goto
  <2>2. pc[m] = "find" /\ pc'[m] = "wait"
    BY <1>6 DEF AwaitMaps, Goto
  <2>3. \A e \in Evaluations : \A q \in waiting'[e] :
           q \in waiting[e] \/ (q = m /\ e = handle[m]["condition"])
    BY <1>6 DEF AwaitMaps
  <2>4. \A e \in Evaluations : m \notin waiting[e]
    BY <1>1, <2>2
  <2>5. Opened(m) /\ Opened(m)' /\ UNCHANGED <<evaluation, named, handle, file>>
    BY <1>6, <2>2 DEF AwaitMaps, Opened
  <2>6. \A e \in Evaluations : \A q \in waiting'[e] :
           IF q = m THEN pc'[m] = "wait" /\ Opened(m) /\ e = handle[m]["condition"]
                    ELSE q \in waiting[e] /\ pc'[q] = pc[q]
    BY <1>1, <2>1, <2>2, <2>3, <2>4, <2>5
  <2> QED
    BY <2>1, <2>2, <2>5, <2>6 DEF Stays
<1>7. CASE FindMaps(m)
  <2>1. /\ pc[m] = "find" /\ Goto(m, "add")
        /\ UNCHANGED <<evaluation, named, handle, waiting, file>>
    BY <1>7 DEF FindMaps
  <2>2. /\ pc'[m] = "add"
        /\ \A p \in Members \cup {Writer} : p # m => Stays(p)
        /\ \A e \in Evaluations : \A q \in waiting'[e] :
              q # m /\ q \in waiting[e] /\ pc'[q] = pc[q]
    BY <1>2, <2>1, Zenon
  <2> QED
    BY <2>1, <2>2 DEF Opened
<1>8. CASE ReadCount(m)
  <2>1. /\ pc[m] = "add" /\ Goto(m, "add_up")
        /\ UNCHANGED <<evaluation, named, handle, waiting, file>>
    BY <1>8 DEF ReadCount
  <2>2. /\ pc'[m] = "add_up"
        /\ \A p \in Members \cup {Writer} : p # m => Stays(p)
        /\ \A e \in Evaluations : \A q \in waiting'[e] :
              q # m /\ q \in waiting[e] /\ pc'[q] = pc[q]
    BY <1>2, <2>1, Zenon
  <2> QED
    BY <2>1, <2>2 DEF Opened
<1>9. CASE WriteCount(m)
  <2>1. /\ pc[m] = "add_up" /\ Goto(m, "add")
        /\ UNCHANGED <<evaluation, named, handle, waiting, file>>
    BY <1>9 DEF WriteCount
  <2>2. /\ pc'[m] = "add"
        /\ \A p \in Members \cup {Writer} : p # m => Stays(p)
        /\ \A e \in Evaluations : \A q \in waiting'[e] :
              q # m /\ q \in waiting[e] /\ pc'[q] = pc[q]
    BY <1>2, <2>1, Zenon
  <2> QED
    BY <2>1, <2>2 DEF Opened
<1>10. CASE AddTimes(m)
  <2>1. pc[m] = "add" /\ Opened(m) /\ "done" \in Places /\ "condition" \in Objects
    BY <1>10 DEF AddTimes, Opened, Places, Objects
  <2>2. handle[m]["condition"] \in Evaluations
    BY <2>1, OpenedObjects
  <2>3. NotifyOne(handle[m]["condition"], m, "done")
    BY <1>10 DEF AddTimes
  <2>4. /\ pc'[m] = "done"
        /\ \A p \in Members \cup {Writer} : p # m => Stays(p)
        /\ \A d \in Evaluations : \A q \in waiting'[d] :
              q # m /\ q \in waiting[d] /\ pc'[q] = pc[q]
    BY <2>1, <2>2, <2>3, NotifyMoves
  <2> QED
    BY <1>10, <2>1, <2>4 DEF AddTimes, Opened
<1>11. CASE OpenObjects(m)
  <2>1. pc[m] \in {"open_condition", "open_mutex", "open_segment"}
    BY <1>11 DEF OpenObjects, Open
  <2>2. {"condition", "mutex", "segment"} = Objects
    BY DEF Objects
  <2> QED
    BY <1>4, <1>11, <2>1, <2>2 DEF OpenObjects
<1> QED
  BY <1>3, <1>5, <1>6, <1>7, <1>8, <1>9, <1>10, <1>11 DEF MemberStep

LEMMA WriterStays ==
    ASSUME TypeOK, NotStarted, Waits, WriterStep
    PROVE  /\ pc[Writer] \notin {"down", "wait"}
           /\ \A m \in Members : Stays(m)
           /\ \A e \in Evaluations : \A q \in waiting'[e] :
                 IF q = Writer THEN pc'[Writer] = "wait" /\ e = evaluation
                               ELSE q \in waiting[e] /\ pc'[q] = pc[q]
           /\ UNCHANGED <<handle, adding>>
<1>0. Writer \notin Members /\ evaluation \in Evaluations
  BY WriterType, StatisticsAssumption
<1> USE DEF TypeOK
<1>1. \A e \in Evaluations : \A q \in waiting[e] : pc[q] = "wait" /\ q \in Members \cup {Writer}
  BY DEF Waits
<1>2. ASSUME NEW to, pc[Writer] \notin {"down", "wait"}, Goto(Writer, to), UNCHANGED waiting
      PROVE  /\ \A m \in Members : Stays(m)
             /\ \A e \in Evaluations : \A q \in waiting'[e] :
                   q # Writer /\ q \in waiting[e] /\ pc'[q] = pc[q]
  BY <1>0, <1>1, <1>2 DEF Goto, Stays
<1>3. ASSUME NEW from, NEW to, from \notin {"down", "wait"}, pc[Writer] = from,
             Goto(Writer, to), UNCHANGED <<waiting, handle, adding>>
      PROVE  /\ pc[Writer] \notin {"down", "wait"}
             /\ \A m \in Members : Stays(m)
             /\ \A e \in Evaluations : \A q \in waiting'[e] :
                   q # Writer /\ q \in waiting[e] /\ pc'[q] = pc[q]
             /\ UNCHANGED <<handle, adding>>
  <2>1. pc[Writer] \notin {"down", "wait"} /\ UNCHANGED waiting /\ UNCHANGED <<handle, adding>>
    BY <1>3
  <2>2. /\ \A m \in Members : Stays(m)
        /\ \A e \in Evaluations : \A q \in waiting'[e] :
              q # Writer /\ q \in waiting[e] /\ pc'[q] = pc[q]
    BY <1>2, <1>3, <2>1
  <2> QED
    BY <2>1, <2>2
<1>4. CASE AwaitMembers
  <2>1. UNCHANGED <<handle, adding>> /\ pc[Writer] = "check"
    BY <1>4 DEF AwaitMembers
  <2>2. \A d \in Evaluations : Writer \notin waiting[d]
    BY <1>1, <2>1
  <2>3. /\ pc'[Writer] = "wait"
        /\ \A m \in Members : pc'[m] = pc[m]
        /\ \A d \in Evaluations :
              waiting'[d] = IF d = evaluation THEN waiting[d] \cup {Writer} ELSE waiting[d]
    BY <1>0, <1>4 DEF AwaitMembers, Goto
  <2>4. \A d \in Evaluations : \A q \in waiting'[d] :
           IF q = Writer THEN d = evaluation ELSE q \in waiting[d] /\ q \in Members
    <3> TAKE d \in Evaluations
    <3> TAKE q \in waiting'[d]
    <3>1. q \in waiting[d] \/ (q = Writer /\ d = evaluation)
      BY <2>3
    <3>2. CASE q \in waiting[d]
      <4>1. q # Writer /\ q \in Members \cup {Writer}
        BY <1>1, <2>2, <3>2, Zenon
      <4> QED
        BY <3>2, <4>1
    <3> QED
      BY <3>1, <3>2
  <2> QED
    BY <2>1, <2>3, <2>4 DEF Stays
<1>5. ASSUME NEW x \in Objects, NEW from \in Places, NEW to \in Places, Passes(from, to),
             Remove(x, from, to) \/ Create(x, from, to)
      PROVE  from \notin {"down", "wait"} /\ pc[Writer] = from
             /\ Goto(Writer, to) /\ UNCHANGED <<waiting, handle, adding>>
  BY <1>5 DEF Remove, Create, Passes
<1>6. ASSUME NEW maps, NEW from, NEW to, SetMaps(maps, from, to)
      PROVE  pc[Writer] = from /\ Goto(Writer, to) /\ UNCHANGED <<waiting, handle, adding>>
  BY <1>6 DEF SetMaps
<1>7. CASE LockToWrite
  BY <1>3, <1>7 DEF LockToWrite
<1>8. CASE WriteFile
  <2>1. /\ pc[Writer] = "check" /\ Goto(Writer, "destroy_maps")
        /\ UNCHANGED <<waiting, handle, adding>>
    BY <1>8 DEF WriteFile
  <2> QED
    BY <1>3, <2>1
<1>9. CASE SetMaps(EmptyMaps, "construct_maps", "create_condition")
  <2>1. /\ pc[Writer] = "construct_maps" /\ Goto(Writer, "create_condition")
        /\ UNCHANGED <<waiting, handle, adding>>
    BY <1>6, <1>9
  <2> QED
    BY <1>3, <2>1
<1>10. CASE SetMaps(NoMaps, "destroy_maps", "unname_condition")
  <2>1. /\ pc[Writer] = "destroy_maps" /\ Goto(Writer, "unname_condition")
        /\ UNCHANGED <<waiting, handle, adding>>
    BY <1>6, <1>10
  <2> QED
    BY <1>3, <2>1
<1>11. ASSUME NEW x \in Objects, NEW from \in Places, NEW to \in Places, Passes(from, to),
              Remove(x, from, to) \/ Create(x, from, to)
       PROVE  /\ pc[Writer] \notin {"down", "wait"}
              /\ \A m \in Members : Stays(m)
              /\ \A e \in Evaluations : \A q \in waiting'[e] :
                    q # Writer /\ q \in waiting[e] /\ pc'[q] = pc[q]
              /\ UNCHANGED <<handle, adding>>
  BY <1>3, <1>5, <1>11
<1>12. pc[Writer] \notin {"down", "wait"}
  BY <1>4, <1>7, <1>8, <1>9, <1>10, <1>11, WriterMoves DEF AwaitMembers, LockToWrite, WriteFile, SetMaps
<1> QED
  BY <1>4, <1>7, <1>8, <1>9, <1>10, <1>11, <1>12, WriterMoves

-----------------------------------------------------------------------------
(***************************************************************************)
(* Who waits is woken, what is opened stays open, and a later evaluation   *)
(* finds everything untouched.                                             *)
(***************************************************************************)
LEMMA OpenedStays ==
    ASSUME NEW m \in Members, Stays(m)
    PROVE  /\ Opened(m)' <=> Opened(m)
           /\ pc'[m] \in {"open_mutex", "open_segment"} => pc'[m] = pc[m]
BY DEF Stays, Opened

LEMMA MemberKeeps ==
    ASSUME TypeOK, NotStarted, Untouched, Waits, Opens, NEW m \in Members, MemberStep(m)
    PROVE  NotStarted' /\ Untouched' /\ Waits' /\ Opens'
<1>0. /\ evaluation' = evaluation /\ evaluation \in Evaluations
      /\ MaxEvaluations \in Nat /\ m # Writer
  BY MemberType, StatisticsAssumption
<1>1. NotStarted'
  BY <1>0 DEF NotStarted, Evaluations
<1>2. Waits'
  <2> SUFFICES ASSUME NEW e \in Evaluations, NEW q \in waiting'[e]
               PROVE  /\ pc'[q] = "wait"
                      /\ e = IF q = Writer THEN evaluation ELSE handle'[q]["condition"]
    BY <1>0 DEF Waits
  <2>1. CASE q = m
    BY <1>0, <2>1, MemberMoves
  <2>2. CASE q # m
    <3>1. q \in waiting[e] /\ pc'[q] = pc[q]
      BY <2>2, MemberMoves
    <3>2. /\ pc[q] = "wait"
          /\ e = IF q = Writer THEN evaluation ELSE handle[q]["condition"]
      BY <3>1 DEF Waits
    <3>3. q \in Members \cup {Writer}
      BY <3>1 DEF TypeOK
    <3> QED
      BY <2>2, <3>1, <3>2, <3>3, MemberMoves
  <2> QED
    BY <2>1, <2>2
<1>3. Opens'
  <2>1. ASSUME NEW n \in Members, n # m
        PROVE  /\ pc'[n] \in {"open_mutex", "open_segment"} => handle'[n]["condition"] # None
               /\ pc'[n] = "open_segment" => handle'[n]["mutex"] # None
               /\ Opened(n)' => \A x \in Objects : handle'[n][x] # None
    <3>1. Stays(n) /\ handle'[n] = handle[n]
      BY <2>1, MemberMoves
    <3> QED
      BY <3>1, OpenedStays DEF Opens
  <2>2. CASE Opened(m)
    <3>1. Opened(m)' /\ handle'[m] = handle[m]
      BY <2>2, MemberMoves
    <3>2. pc'[m] \notin {"open_mutex", "open_segment"}
      BY <3>1 DEF Opened
    <3> QED
      BY <2>1, <2>2, <3>1, <3>2 DEF Opens
  <2>3. CASE Contribute(m)
    <3>1. pc'[m] = "open_condition"
      BY <2>3 DEF Contribute, Goto, TypeOK
    <3> QED
      BY <2>1, <3>1 DEF Opens, Opened
  <2>4. ASSUME NEW x \in Objects, NEW from, NEW to, Open(m, x, from, to)
        PROVE  /\ pc[m] = from
               /\ \/ pc'[m] = "open_condition"
                  \/ /\ pc'[m] = to
                     /\ handle'[m][x] # None
                     /\ \A y \in Objects : y # x => handle'[m][y] = handle[m][y]
    <3>1. handle[m] \in [Objects -> 0 .. evaluation]
      BY DEF TypeOK
    <3>2. CASE Goto(m, "open_condition")
      BY <2>4, <3>2 DEF Goto, TypeOK, Open
    <3>3. CASE named[x] # None /\ Goto(m, to) /\ handle' = [handle EXCEPT ![m][x] = named[x]]
      <4>1. pc[m] = from /\ pc'[m] = to
        BY <2>4, <3>3 DEF Goto, TypeOK, Open
      <4>2. handle'[m] = [handle[m] EXCEPT ![x] = named[x]]
        BY <3>3 DEF TypeOK
      <4> QED
        BY <3>1, <3>3, <4>1, <4>2
    <3> QED
      BY <2>4, <3>2, <3>3 DEF Open
  <2>5. CASE Open(m, "condition", "open_condition", "open_mutex")
    <3>1. pc'[m] = "open_condition" \/ (pc'[m] = "open_mutex" /\ handle'[m]["condition"] # None)
      BY <2>4, <2>5 DEF Objects
    <3> QED
      BY <2>1, <3>1 DEF Opens, Opened
  <2>6. CASE Open(m, "mutex", "open_mutex", "open_segment")
    <3>1. /\ pc[m] = "open_mutex"
          /\ \/ pc'[m] = "open_condition"
             \/ /\ pc'[m] = "open_segment"
                /\ handle'[m]["mutex"] # None
                /\ handle'[m]["condition"] = handle[m]["condition"]
      BY <2>4, <2>6 DEF Objects
    <3> QED
      BY <2>1, <3>1 DEF Opens, Opened
  <2>7. CASE Open(m, "segment", "open_segment", "lock")
    <3>1. /\ pc[m] = "open_segment"
          /\ \/ pc'[m] = "open_condition"
             \/ /\ pc'[m] = "lock"
                /\ \A x \in Objects : handle'[m][x] # None
      <4>1. /\ pc[m] = "open_segment"
            /\ \/ pc'[m] = "open_condition"
               \/ /\ pc'[m] = "lock"
                  /\ handle'[m]["segment"] # None
                  /\ handle'[m]["mutex"] = handle[m]["mutex"]
                  /\ handle'[m]["condition"] = handle[m]["condition"]
        BY <2>4, <2>7 DEF Objects
      <4> QED
        BY <4>1 DEF Opens, Objects
    <3> QED
      BY <2>1, <3>1 DEF Opens, Opened
  <2>8. ~ Opened(m) => Contribute(m) \/ OpenObjects(m)
    BY DEF MemberStep, Opened, LockToAdd, AwaitMaps, FindMaps, ReadCount, WriteCount, AddTimes
  <2> QED
    BY <2>2, <2>3, <2>5, <2>6, <2>7, <2>8 DEF OpenObjects
<1>4. Untouched'
  <2> SUFFICES ASSUME NEW e \in Evaluations, e > evaluation
               PROVE  segment'[e] = segment[e] /\ owner'[e] = owner[e]
    BY <1>0, MemberMoves DEF Untouched, Free
  <2>1. ASSUME Opened(m)
        PROVE  handle[m]["segment"] # e /\ handle[m]["mutex"] # e
    <3>1. handle[m]["segment"] <= evaluation /\ handle[m]["mutex"] <= evaluation
      BY <2>1, OpenedObjects DEF Objects
    <3>2. handle[m]["segment"] \in Nat /\ handle[m]["mutex"] \in Nat
      BY <2>1, OpenedObjects DEF Objects, Evaluations
    <3> QED
      BY <1>0, <3>1, <3>2 DEF Evaluations
  <2>2. \/ UNCHANGED segment
        \/ /\ Opened(m)
           /\ \E maps : segment' = [segment EXCEPT ![handle[m]["segment"]] = maps]
    BY DEF MemberStep, Contribute, OpenObjects, Open, LockToAdd, AwaitMaps, FindMaps,
           ReadCount, WriteCount, AddTimes, Opened
  <2>3. \/ UNCHANGED owner
        \/ /\ Opened(m)
           /\ \E p : owner' = [owner EXCEPT ![handle[m]["mutex"]] = p]
    BY DEF MemberStep, Contribute, OpenObjects, Open, LockToAdd, AwaitMaps, FindMaps,
           ReadCount, WriteCount, AddTimes, Opened, Lock, Unlock
  <2> QED
    BY <2>1, <2>2, <2>3 DEF TypeOK
<1> QED
  BY <1>1, <1>2, <1>3, <1>4

LEMMA WriterKeeps ==
    ASSUME TypeOK, NotStarted, Untouched, Waits, Opens, WriterStep
    PROVE  NotStarted' /\ Untouched' /\ Waits' /\ Opens'
<1>0. /\ evaluation' = evaluation /\ evaluation \in Evaluations
      /\ MaxEvaluations \in Nat /\ Writer \notin Members
  BY WriterType, StatisticsAssumption
<1>1. NotStarted'
  BY <1>0 DEF NotStarted, Evaluations
<1>2. Waits'
  <2> SUFFICES ASSUME NEW e \in Evaluations, NEW q \in waiting'[e]
               PROVE  /\ pc'[q] = "wait"
                      /\ e = IF q = Writer THEN evaluation ELSE handle[q]["condition"]
    BY <1>0, WriterStays DEF Waits
  <2>1. CASE q = Writer
    BY <2>1, WriterStays
  <2>2. CASE q # Writer
    <3>1. q \in waiting[e] /\ pc'[q] = pc[q]
      BY <2>2, WriterStays
    <3> QED
      BY <3>1 DEF Waits
  <2> QED
    BY <2>1, <2>2
<1>3. Opens'
  <2>1. \A m \in Members : Stays(m) /\ handle'[m] = handle[m]
    BY WriterStays
  <2> QED
    BY <2>1, OpenedStays DEF Opens
<1>4. Untouched'
  <2> SUFFICES ASSUME NEW e \in Evaluations, e > evaluation
               PROVE  segment'[e] = segment[e] /\ file'[e] = file[e] /\ owner'[e] = owner[e]
    BY <1>0 DEF Untouched, Free
  <2>1. e # evaluation
    BY <1>0 DEF Evaluations
  <2>2. ASSUME NEW maps, NEW from, NEW to, SetMaps(maps, from, to)
        PROVE  segment'[e] = segment[e] /\ file' = file /\ owner' = owner
    BY <2>1, <2>2 DEF SetMaps, TypeOK
  <2>3. CASE LockToWrite
    BY <2>1, <2>3 DEF LockToWrite, Lock, TypeOK
  <2>4. CASE AwaitMembers
    BY <2>1, <2>4 DEF AwaitMembers, Unlock, TypeOK
  <2>5. CASE WriteFile
    BY <2>1, <2>5 DEF WriteFile, Unlock, TypeOK
  <2>6. ASSUME NEW x \in Objects, NEW from, NEW to, Remove(x, from, to) \/ Create(x, from, to)
        PROVE  UNCHANGED <<segment, file, owner>>
    BY <2>6 DEF Remove, Create
  <2> QED
    BY <2>2, <2>3, <2>4, <2>5, <2>6, WriterMoves
<1> QED
  BY <1>1, <1>2, <1>3, <1>4

LEMMA StartKeeps ==
    ASSUME TypeOK, NotStarted, Untouched, StartEvaluation
    PROVE  NotStarted' /\ Untouched' /\ Waits' /\ Opens'
<1>1. evaluation' = evaluation + 1 /\ evaluation' \in Evaluations /\ evaluation \in Nat
      /\ MaxEvaluations \in Nat
  <2>1. evaluation \in 0 .. MaxEvaluations /\ MaxEvaluations \in Nat
    BY StatisticsAssumption DEF TypeOK
  <2> QED
    BY <2>1, StartType
<1>2. NotStarted'
  BY <1>1 DEF NotStarted, Evaluations
<1>3. Untouched'
  BY <1>1 DEF Untouched, StartEvaluation, Evaluations, Free
<1>4. Waits'
  BY DEF Waits, StartEvaluation
<1>5. Opens'
  BY StatisticsAssumption DEF Opens, StartEvaluation, Opened
<1> QED
  BY <1>2, <1>3, <1>4, <1>5

-----------------------------------------------------------------------------
(***************************************************************************)
(* Nobody adds to the counts of this evaluation what is not of it: a       *)
(* member of it adds only itself, and a killed one had read the counts of  *)
(* another segment.                                                        *)
(***************************************************************************)
LEMMA MemberOwn ==
    ASSUME OldInv, NEW m \in Members, MemberStep(m)
    PROVE  OwnCounts'
<1> USE DEF OldInv
<1>0. /\ evaluation' = evaluation /\ evaluation \in Evaluations /\ file' = file
      /\ MaxEvaluations \in Nat
  BY MemberType, MemberMoves, StatisticsAssumption
<1>1. NothingOld'
  BY <1>0 DEF OwnCounts, NothingOld
<1>h. ASSUME Opened(m)
      PROVE  /\ handle[m]["segment"] \in Evaluations
             /\ handle[m]["segment"] <= evaluation
             /\ segment[handle[m]["segment"]] \in TwoMaps
  BY <1>h, OpenedObjects DEF Objects, TypeOK
<1>2. \A e \in Evaluations : \A x \in count_metric :
         e >= evaluation => Own(e, segment'[e].count[x])
  <2>0. ASSUME UNCHANGED segment
        PROVE  \A e \in Evaluations : \A x \in count_metric :
                  e >= evaluation => Own(e, segment'[e].count[x])
    BY <2>0 DEF OwnCounts
  <2>1. CASE WriteCount(m)
    <3> DEFINE h == handle[m]["segment"]
               new == adding[m].value \cup {<<evaluation, m>>}
               x0 == adding[m].metric
    <3>1. Opened(m)
      BY <2>1 DEF WriteCount, Opened
    <3>2. segment' = [segment EXCEPT ![h].count[x0] = new]
      BY <2>1 DEF WriteCount
    <3>3. \A e \in Evaluations : \A x \in count_metric :
             segment'[e].count[x] = IF e = h /\ x = x0 THEN new ELSE segment[e].count[x]
      <4>1. h \in Evaluations /\ segment[h] \in TwoMaps
        BY <1>h, <3>1
      <4>2. segment[h].count \in [count_metric -> SUBSET Contributions]
        BY <4>1 DEF TwoMaps
      <4>5. segment' = [segment EXCEPT ![h] =
                           [segment[h] EXCEPT !.count = [segment[h].count EXCEPT ![x0] = new]]]
        BY <3>2
      <4> HIDE DEF h, new, x0
      <4>3. segment'[h] = [segment[h] EXCEPT !.count = [segment[h].count EXCEPT ![x0] = new]]
        BY <4>1, <4>5 DEF TypeOK
      <4>4. segment'[h].count = [segment[h].count EXCEPT ![x0] = new]
        BY <4>1, <4>3 DEF TwoMaps
      <4>6. \A e \in Evaluations : e # h => segment'[e] = segment[e]
        BY <4>5 DEF TypeOK
      <4> QED
        BY <4>2, <4>4, <4>6
    <3>4. h = evaluation => Own(evaluation, new)
      <4>1. pc[m] = "add_up"
        BY <2>1 DEF WriteCount
      <4>2. h = evaluation => Own(evaluation, adding[m].value)
        BY <4>1 DEF OwnCounts
      <4> QED
        BY <4>2 DEF Own
    <3>5. h \in Evaluations /\ h <= evaluation
      BY <1>h, <3>1
    <3> HIDE DEF h, new, x0
    <3>6. \A e \in Evaluations : e >= evaluation /\ e = h => e = evaluation
      BY <1>0, <3>5 DEF Evaluations
    <3> QED
      BY <3>3, <3>4, <3>6 DEF OwnCounts
  <2>2. CASE AddTimes(m)
    <3> DEFINE h == handle[m]["segment"]
               new == Later(segment[h].end, EndTime[m])
    <3>1. Opened(m)
      BY <2>2 DEF AddTimes, Opened
    <3>2. segment' = [segment EXCEPT ![h] = [@ EXCEPT !.end = new]]
      BY <2>2 DEF AddTimes
    <3>3. h \in Evaluations /\ segment[h] \in TwoMaps
      BY <1>h, <3>1
    <3> HIDE DEF h, new
    <3>4. \A e \in Evaluations : segment'[e].count = segment[e].count
      BY <3>2, <3>3 DEF TwoMaps, TypeOK
    <3> QED
      BY <3>4 DEF OwnCounts
  <2>3. WriteCount(m) \/ AddTimes(m) \/ UNCHANGED segment
    BY DEF MemberStep, Contribute, OpenObjects, Open, LockToAdd, AwaitMaps, FindMaps, ReadCount
  <2> QED
    BY <2>0, <2>1, <2>2, <2>3
<1>3. ASSUME NEW n \in Members, pc'[n] = "add_up", handle'[n]["segment"] = evaluation
      PROVE  Own(evaluation, adding'[n].value)
  <2>1. CASE n # m
    <3>1. Stays(n) /\ handle'[n] = handle[n]
      BY <2>1, MemberMoves
    <3>2. pc[n] = "add_up"
      BY <1>3, <3>1 DEF Stays
    <3>3. adding'[n] = adding[n]
      BY <2>1 DEF MemberStep, Contribute, OpenObjects, Open, LockToAdd, AwaitMaps, FindMaps,
                  ReadCount, WriteCount, AddTimes, TypeOK
    <3> QED
      BY <1>3, <3>1, <3>2, <3>3 DEF OwnCounts
  <2>2. CASE n = m
    <3>1. pc[m] \notin {"down", "wait", "done"} /\ ~ AddTimes(m)
      <4>1. ASSUME AddTimes(m)
            PROVE  FALSE
        <5>1. /\ NotifyOne(handle[m]["condition"], m, "done")
              /\ pc[m] = "add" /\ Opened(m) /\ "done" \in Places
          BY <4>1 DEF AddTimes, Opened, Places
        <5>2. handle[m]["condition"] \in Evaluations
          BY <5>1, OpenedObjects DEF Objects
        <5>3. pc'[m] = "done"
          BY <5>1, <5>2, NotifyMoves
        <5> QED
          BY <1>3, <2>2, <5>3
      <4> QED
        BY <4>1, MemberMoves
    <3>2. CASE ReadCount(m)
      <4>1. PICK x \in adding[m].left :
               adding' = [adding EXCEPT ![m] = [left |-> @.left \ {x}, metric |-> x,
                                                value |-> Maps(m).count[x]]]
        BY <3>2 DEF ReadCount
      <4>2. adding'[m].value = segment[handle[m]["segment"]].count[x] /\ x \in count_metric
        BY <4>1 DEF TypeOK, Maps
      <4>3. handle' = handle
        BY <3>2 DEF ReadCount
      <4>4. evaluation >= evaluation
        BY <1>0 DEF Evaluations
      <4> QED
        BY <1>0, <1>3, <2>2, <4>2, <4>3, <4>4 DEF OwnCounts
    <3>3. CASE WriteCount(m)
      BY <1>3, <2>2, <3>3 DEF WriteCount, Goto, TypeOK
    <3>4. ~ ReadCount(m) => WriteCount(m)
      <4>1. Contribute(m) \/ OpenObjects(m) \/ LockToAdd(m) \/ AwaitMaps(m) \/ FindMaps(m)
              => pc'[m] # "add_up"
        BY DEF Contribute, OpenObjects, Open, LockToAdd, AwaitMaps, FindMaps, Goto, TypeOK
      <4> QED
        BY <1>3, <2>2, <3>1, <4>1 DEF MemberStep
    <3> QED
      BY <3>2, <3>3, <3>4
  <2> QED
    BY <2>1, <2>2
<1> QED
  BY <1>0, <1>1, <1>2, <1>3 DEF OwnCounts

LEMMA WriterOwn ==
    ASSUME OldInv, WriterStep
    PROVE  OwnCounts'
<1> USE DEF OldInv
<1>0. /\ evaluation' = evaluation /\ evaluation \in Evaluations
      /\ MaxEvaluations \in Nat /\ Writer \notin Members
  BY WriterType, StatisticsAssumption
<1>1. \A m \in Members : Stays(m) /\ UNCHANGED <<handle, adding>>
  BY WriterStays
<1>2. \A m \in Members :
         pc'[m] = "add_up" /\ handle'[m]["segment"] = evaluation
         => Own(evaluation, adding'[m].value)
  BY <1>1 DEF Stays, OwnCounts
<1>3. ASSUME UNCHANGED segment
      PROVE  \A e \in Evaluations : \A x \in count_metric :
                e >= evaluation => Own(e, segment'[e].count[x])
  BY <1>3 DEF OwnCounts
<1>4. ASSUME UNCHANGED file
      PROVE  NothingOld'
  BY <1>4 DEF OwnCounts, NothingOld
<1>5. ASSUME NEW maps, NEW from, NEW to, SetMaps(maps, from, to),
             \A x \in count_metric : maps.count[x] = {}
      PROVE  OwnCounts'
  <2>1. \A e \in Evaluations : segment'[e] = IF e = evaluation THEN maps ELSE segment[e]
    BY <1>5 DEF SetMaps, TypeOK
  <2>2. \A e \in Evaluations : \A x \in count_metric :
           e >= evaluation => Own(e, segment'[e].count[x])
    BY <1>5, <2>1 DEF OwnCounts, Own
  <2> QED
    BY <1>0, <1>2, <1>4, <1>5, <2>2 DEF OwnCounts, SetMaps
<1>6. CASE WriteFile
  <2>1. \A e \in Evaluations :
           file'[e] = IF e = evaluation THEN segment[evaluation] ELSE file[e]
    BY <1>6 DEF WriteFile, TypeOK
  <2>2. evaluation >= evaluation
    BY <1>0 DEF Evaluations
  <2>3. \A x \in count_metric : Own(evaluation, segment[evaluation].count[x])
    BY <1>0, <2>2 DEF OwnCounts
  <2>4. NothingOld'
    BY <2>1, <2>3 DEF NothingOld, OwnCounts, Own
  <2> QED
    BY <1>0, <1>2, <1>3, <1>6, <2>4 DEF OwnCounts, WriteFile
<1>7. ASSUME UNCHANGED <<segment, file>>
      PROVE  OwnCounts'
  <2>1. UNCHANGED segment /\ UNCHANGED file
    BY <1>7
  <2> QED
    BY <1>0, <1>2, <1>3, <1>4, <2>1 DEF OwnCounts
<1>8. ASSUME NEW x \in Objects, NEW from, NEW to, Remove(x, from, to) \/ Create(x, from, to)
      PROVE  UNCHANGED <<segment, file>>
  BY <1>8 DEF Remove, Create
<1>9. CASE LockToWrite \/ AwaitMembers
  BY <1>7, <1>9 DEF LockToWrite, AwaitMembers
<1> QED
  BY <1>5, <1>6, <1>7, <1>8, <1>9, Maps0, WriterMoves

LEMMA StartOwn ==
    ASSUME OldInv, StartEvaluation
    PROVE  OwnCounts'
<1> USE DEF OldInv
<1>1. evaluation' = evaluation + 1 /\ evaluation \in Nat
  <2>1. evaluation \in 0 .. MaxEvaluations /\ MaxEvaluations \in Nat
    BY StatisticsAssumption DEF TypeOK
  <2> QED
    BY <2>1, StartType
<1>2. \A m \in Members : pc'[m] # "add_up"
  BY StatisticsAssumption DEF StartEvaluation
<1>3. ASSUME NEW e \in Evaluations, NEW x \in count_metric, e >= evaluation'
      PROVE  Own(e, segment'[e].count[x])
  <2>1. e > evaluation
    BY <1>1, <1>3 DEF Evaluations
  <2>2. segment'[e] = NoMaps
    BY <2>1 DEF Untouched, StartEvaluation
  <2> QED
    BY <2>2, Maps0 DEF Own
<1>4. NothingOld'
  BY DEF StartEvaluation, OwnCounts, NothingOld
<1> QED
  BY <1>2, <1>3, <1>4 DEF OwnCounts

LEMMA OldInit == Init => OldInv
<1> SUFFICES ASSUME Init PROVE OldInv
  OBVIOUS
<1>1. \A e \in Evaluations : segment[e] = NoMaps /\ file[e] = NoMaps /\ waiting[e] = {}
  BY DEF Init
<1>2. \A p \in Members \cup {Writer} : pc[p] = "down"
  BY DEF Init
<1>3. OwnCounts
  BY <1>1, <1>2, Maps0 DEF OwnCounts, Own, NothingOld
<1>4. Waits /\ Opens
  BY <1>1, <1>2 DEF Waits, Opens, Opened
<1> QED
  BY <1>3, <1>4, InitType DEF OldInv

LEMMA OldInductive == Spec => []OldInv
<1>1. Init => OldInv
  BY OldInit
<1>2. OldInv /\ [Next]_vars => OldInv'
  <2> SUFFICES ASSUME OldInv, [Next]_vars PROVE OldInv'
    OBVIOUS
  <2>1. CASE StartEvaluation
    BY <2>1, StartType, StartKeeps, StartOwn DEF OldInv
  <2>2. CASE WriterStep
    BY <2>2, WriterType, WriterKeeps, WriterOwn DEF OldInv
  <2>3. ASSUME NEW m \in Members, MemberStep(m)
        PROVE  OldInv'
    BY <2>3, MemberType, MemberKeeps, MemberOwn DEF OldInv
  <2>4. CASE UNCHANGED vars
    BY <2>4 DEF vars, OldInv, TypeOK, NotStarted, Untouched, Waits, Opens, Opened, OwnCounts,
                NothingOld, Free
  <2> QED
    BY <2>1, <2>2, <2>3, <2>4 DEF Next
<1> QED
  BY <1>1, <1>2, PTL DEF Spec

(***************************************************************************)
(* A contribution to a killed evaluation never gets into the file of a     *)
(* later one, for any number of members and of evaluations.                *)
(***************************************************************************)
THEOREM NothingOldWritten == Spec => []NothingOld
<1>1. OldInv => NothingOld
  BY DEF OldInv, OwnCounts
<1> QED
  BY <1>1, OldInductive, PTL

-----------------------------------------------------------------------------
(***************************************************************************)
(* The totals.  The build with RETRANSMISSIONS keeps the first time that   *)
(* it finds: that is the last one if only one member records when it is    *)
(* finished, which in both key agreements is the one that starts them.     *)
(***************************************************************************)
OneRecords ==
    Retransmissions =>
        \A m, n \in Members : EndTime[m] # None /\ EndTime[n] # None => m = n

LEMMA LaterRight ==
    ASSUME NEW old \in Nat, NEW new \in Nat, Retransmissions /\ old # None => new = None
    PROVE  /\ old <= Later(old, new) /\ new <= Later(old, new)
           /\ Later(old, new) \in {old, new}
BY StatisticsAssumption DEF Later, None

\* Whoever opened an old object has it until the evaluation ends.
LEMMA MemberClean ==
    ASSUME OldInv, NEW m \in Members, MemberStep(m), Clean'
    PROVE  /\ Clean
           /\ Opened(m) => /\ handle[m]["segment"] = evaluation
                           /\ handle[m]["mutex"] = evaluation
                           /\ handle[m]["condition"] = evaluation
<1>0. evaluation' = evaluation
  BY MemberType DEF OldInv
<1>1. ASSUME NEW n \in Members, Opened(n), NEW x \in Objects
      PROVE  handle[n][x] = evaluation
  <2>1. Opened(n)' /\ handle'[n] = handle[n]
    <3>1. handle'[n] = handle[n]
      BY <1>1, MemberMoves DEF OldInv
    <3>2. CASE n = m
      BY <1>1, <3>1, <3>2, MemberMoves DEF OldInv
    <3>3. CASE n # m
      <4>1. Stays(n)
        BY <3>3, MemberMoves DEF OldInv
      <4> QED
        BY <1>1, <3>1, <4>1, OpenedStays
    <3> QED
      BY <3>2, <3>3
  <2> QED
    BY <1>0, <1>1, <2>1 DEF Clean
<1> QED
  BY <1>1 DEF Clean, Objects

LEMMA WriterClean ==
    ASSUME OldInv, WriterStep
    PROVE  Clean' <=> Clean
<1>1. evaluation' = evaluation
  BY WriterType DEF OldInv
<1>2. \A m \in Members : Stays(m) /\ handle'[m] = handle[m]
  BY WriterStays DEF OldInv
<1>3. \A m \in Members : Opened(m)' <=> Opened(m)
  BY <1>2, OpenedStays
<1> QED
  BY <1>1, <1>2, <1>3 DEF Clean

LEMMA MutexLastStays ==
    ASSUME OldInv, MutexLast, [Next]_vars
    PROVE  MutexLast'
<1> USE DEF OldInv
<1>1. CASE StartEvaluation
  <2>1. evaluation \in Nat /\ evaluation' = evaluation + 1
    <3>1. evaluation \in 0 .. MaxEvaluations /\ MaxEvaluations \in Nat
      BY StatisticsAssumption DEF TypeOK
    <3> QED
      BY <1>1, <3>1, StartType
  <2>2. named'["mutex"] # evaluation'
    <3>1. named["mutex"] \in 0 .. evaluation
      BY DEF TypeOK, Objects
    <3> QED
      BY <1>1, <2>1, <3>1 DEF StartEvaluation
  <2>3. \A m \in Members : handle'[m]["mutex"] # evaluation'
    BY <1>1, <2>1 DEF StartEvaluation, Objects, None
  <2> QED
    BY <2>2, <2>3 DEF MutexLast
<1>2. CASE WriterStep
  <2>0. evaluation' = evaluation /\ handle' = handle /\ evaluation # None
    <3>1. evaluation \in Evaluations
      BY <1>2, WriterType
    <3> QED
      BY <1>2, <3>1, WriterType, WriterStays, StatisticsAssumption DEF Evaluations, None
  <2>1. ASSUME NEW x \in Objects, NEW from \in Places, NEW to \in Places,
               Passes(from, to), Remove(x, from, to)
        PROVE  MutexLast'
    <3>1. pc[Writer] = from /\ pc'[Writer] = to /\ (to \in ConstructPlaces => from \in ConstructPlaces)
      BY <2>1 DEF Remove, Passes, Goto, TypeOK
    <3>2. named'["mutex"] \in {None, named["mutex"]}
      BY <2>1 DEF Remove, TypeOK, Objects
    <3> QED
      BY <2>0, <3>1, <3>2 DEF MutexLast
  <2>2. ASSUME NEW x \in Objects, NEW from \in Places, NEW to \in Places,
               Passes(from, to), x = "mutex" => to \notin ConstructPlaces, Create(x, from, to)
        PROVE  MutexLast'
    <3>1. pc[Writer] = from /\ pc'[Writer] = to /\ (to \in ConstructPlaces => from \in ConstructPlaces)
      BY <2>2 DEF Create, Passes, Goto, TypeOK
    <3>2. x # "mutex" => named'["mutex"] = named["mutex"]
      BY <2>2 DEF Create, TypeOK, Objects
    <3> QED
      BY <2>0, <2>2, <3>1, <3>2 DEF MutexLast
  <2>3. CASE SetMaps(EmptyMaps, "construct_maps", "create_condition")
    BY <2>0, <2>3 DEF SetMaps, MutexLast, ConstructPlaces
  <2>4. CASE LockToWrite \/ AwaitMembers \/ WriteFile \/ SetMaps(NoMaps, "destroy_maps", "unname_condition")
    <3>1. pc'[Writer] \in {"check", "wait", "destroy_maps", "unname_condition", "lock"}
      BY <2>4 DEF LockToWrite, AwaitMembers, WriteFile, SetMaps, Goto, TypeOK
    <3> QED
      BY <3>1 DEF MutexLast, ConstructPlaces
  <2> QED
    BY <1>2, <2>1, <2>2, <2>3, <2>4, WriterMoves
<1>3. ASSUME NEW m \in Members, MemberStep(m)
      PROVE  MutexLast'
  <2>0. evaluation' = evaluation /\ named' = named /\ Stays(Writer)
    BY <1>3, MemberMoves, MemberType, StatisticsAssumption
  <2>1. pc'[Writer] \in ConstructPlaces => pc[Writer] \in ConstructPlaces
    BY <2>0 DEF Stays, ConstructPlaces
  <2>2. \A n \in Members : handle'[n]["mutex"] \in {handle[n]["mutex"], named["mutex"]}
    <3>1. ASSUME NEW x \in Objects, NEW from, NEW to, Open(m, x, from, to)
          PROVE  \A n \in Members : handle'[n]["mutex"] \in {handle[n]["mutex"], named["mutex"]}
      <4>1. CASE UNCHANGED handle
        BY <4>1
      <4>2. CASE handle' = [handle EXCEPT ![m] = [@ EXCEPT ![x] = named[x]]]
        <5>1. handle[m] \in [Objects -> 0 .. evaluation] /\ "mutex" \in Objects
          BY DEF TypeOK, Objects
        <5>2. \A n \in Members :
                 handle'[n] = IF n = m THEN [handle[m] EXCEPT ![x] = named[x]] ELSE handle[n]
          BY <4>2 DEF TypeOK
        <5> QED
          BY <5>1, <5>2
      <4> QED
        BY <3>1, <4>1, <4>2 DEF Open
    <3>2. {"segment", "condition", "mutex"} = Objects
      BY DEF Objects
    <3>3. OpenObjects(m) \/ UNCHANGED handle
      BY <1>3 DEF MemberStep, Contribute, LockToAdd, AwaitMaps, FindMaps, ReadCount, WriteCount, AddTimes
    <3> QED
      BY <3>1, <3>2, <3>3 DEF OpenObjects
  <2> QED
    BY <2>0, <2>1, <2>2 DEF MutexLast
<1>4. CASE UNCHANGED vars
  BY <1>4 DEF vars, MutexLast
<1> QED
  BY <1>1, <1>2, <1>3, <1>4 DEF Next

-----------------------------------------------------------------------------
(***************************************************************************)
(* The mutex of this evaluation excludes.                                  *)
(***************************************************************************)
Holding == {"find", "add", "add_up"}

LEMMA ExclusiveStays ==
    ASSUME OldInv, Exclusive, [Next]_vars
    PROVE  Exclusive'
<1> USE DEF OldInv
<1>0. Writer \notin Members /\ Nobody \notin Members /\ Writer # Nobody
  BY StatisticsAssumption DEF Writer, Nobody
<1>1. CASE StartEvaluation
  BY <1>0, <1>1 DEF StartEvaluation, Exclusive
<1>2. CASE WriterStep
  <2>0. evaluation' = evaluation /\ evaluation \in Evaluations /\ (Clean' <=> Clean)
    BY <1>2, WriterType, WriterClean
  <2>1. \A m \in Members : pc'[m] \in Holding => pc[m] \in Holding
    BY <1>2, WriterStays DEF Stays, Holding
  <2>2. CASE LockToWrite
    <3>1. owner[evaluation] = Nobody /\ owner'[evaluation] = Writer
      BY <2>0, <2>2 DEF LockToWrite, Lock, Free, TypeOK
    <3> QED
      BY <1>0, <2>0, <2>1, <3>1 DEF Exclusive, Holding
  <2>3. CASE AwaitMembers \/ WriteFile
    <3>1. pc[Writer] = "check"
      BY <2>3 DEF AwaitMembers, WriteFile
    <3>2. pc'[Writer] # "check"
      BY <1>0, <2>3 DEF AwaitMembers, WriteFile, Goto, TypeOK
    <3> QED
      BY <1>0, <2>0, <2>1, <3>1, <3>2 DEF Exclusive, Holding
  <2>4. ASSUME UNCHANGED owner, pc'[Writer] # "check"
        PROVE  Exclusive'
    BY <2>0, <2>1, <2>4 DEF Exclusive, Holding
  <2>5. ASSUME NEW x \in Objects, NEW from, NEW to \in Places, to # "check",
               Remove(x, from, to) \/ Create(x, from, to)
        PROVE  Exclusive'
    <3>1. UNCHANGED owner /\ pc'[Writer] # "check"
      BY <2>5 DEF Remove, Create, Goto, TypeOK
    <3> QED
      BY <2>4, <3>1
  <2>6. ASSUME NEW maps, NEW from, NEW to, to # "check", SetMaps(maps, from, to)
        PROVE  Exclusive'
    <3>1. UNCHANGED owner /\ pc'[Writer] # "check"
      BY <2>6 DEF SetMaps, Goto, TypeOK
    <3> QED
      BY <2>4, <3>1
  <2>7. \A from, to : Passes(from, to) => to # "check"
    BY DEF Passes
  <2>8. CASE SetMaps(EmptyMaps, "construct_maps", "create_condition")
             \/ SetMaps(NoMaps, "destroy_maps", "unname_condition")
    BY <2>6, <2>8
  <2> QED
    BY <1>2, <2>2, <2>3, <2>5, <2>7, <2>8, WriterMoves
<1>3. ASSUME NEW m \in Members, MemberStep(m), Clean'
      PROVE  /\ \A n \in Members : pc'[n] \in Holding => owner'[evaluation] = n
             /\ pc'[Writer] = "check" => owner'[evaluation] = Writer
  <2>0. /\ evaluation' = evaluation /\ evaluation \in Evaluations
        /\ Clean /\ (Opened(m) => handle[m]["mutex"] = evaluation)
    BY <1>3, MemberType, MemberClean
  <2>1. \A p \in Members \cup {Writer} : p # m /\ pc'[p] \in Holding \cup {"check"} => pc'[p] = pc[p]
    BY <1>3, MemberMoves DEF Stays, Holding
  <2>2. \A n \in Members : pc[n] \in Holding => owner[evaluation] = n
    BY <2>0 DEF Exclusive, Holding
  <2>3. pc[Writer] = "check" => owner[evaluation] = Writer
    BY <2>0 DEF Exclusive
  <2>4. CASE LockToAdd(m)
    <3>1. Opened(m)
      BY <2>4 DEF LockToAdd, Opened
    <3>2. owner[evaluation] = Nobody /\ owner'[evaluation] = m
      BY <2>0, <2>4, <3>1 DEF LockToAdd, Lock, Free, TypeOK
    <3> QED
      BY <1>0, <2>1, <2>2, <2>3, <3>2 DEF Holding
  <2>5. CASE AwaitMaps(m) \/ AddTimes(m)
    <3>1. pc[m] \in Holding /\ owner[evaluation] = m
      BY <2>2, <2>5 DEF AwaitMaps, AddTimes, Holding
    <3>2. pc'[m] \notin Holding
      <4>1. CASE AwaitMaps(m)
        BY <4>1 DEF AwaitMaps, Goto, TypeOK, Holding
      <4>2. CASE AddTimes(m)
        <5>1. /\ NotifyOne(handle[m]["condition"], m, "done")
              /\ pc[m] = "add" /\ Opened(m) /\ "done" \in Places
          BY <4>2 DEF AddTimes, Opened, Places
        <5>2. handle[m]["condition"] \in Evaluations
          BY <5>1, OpenedObjects DEF Objects
        <5> QED
          BY <5>1, <5>2, NotifyMoves DEF Holding
      <4> QED
        BY <2>5, <4>1, <4>2
    <3> QED
      BY <1>0, <2>1, <2>2, <2>3, <3>1, <3>2
  <2>6. CASE FindMaps(m) \/ ReadCount(m) \/ WriteCount(m)
    <3>1. pc[m] \in Holding /\ owner' = owner
      BY <2>6 DEF FindMaps, ReadCount, WriteCount, Holding
    <3>2. owner[evaluation] = m
      BY <2>2, <3>1
    <3> QED
      BY <1>0, <2>1, <2>2, <2>3, <3>1, <3>2
  <2>7. CASE Contribute(m) \/ OpenObjects(m)
    <3>1. owner' = owner /\ pc'[m] \notin Holding
      BY <2>7 DEF Contribute, OpenObjects, Open, Goto, TypeOK, Holding
    <3> QED
      BY <1>0, <2>1, <2>2, <2>3, <3>1
  <2> QED
    BY <1>3, <2>4, <2>5, <2>6, <2>7 DEF MemberStep
<1>4. CASE UNCHANGED vars
  BY <1>4 DEF vars, Exclusive, Clean, Opened
<1>5. ASSUME NEW m \in Members, MemberStep(m)
      PROVE  Exclusive'
  <2>1. evaluation' = evaluation
    BY <1>5, MemberType
  <2> QED
    BY <1>3, <1>5, <2>1 DEF Exclusive, Holding
<1> QED
  BY <1>1, <1>2, <1>4, <1>5 DEF Next

-----------------------------------------------------------------------------
(***************************************************************************)
(* What has been added, by whom.                                           *)
(***************************************************************************)
LEMMA AddedStays ==
    ASSUME OldInv, OldInv', evaluation' = evaluation, evaluation \in Evaluations,
           NEW n \in Members, AddedSoFar(n, segment[evaluation]),
           Stays(n), adding'[n] = adding[n],
           \A x \in count_metric :
              <<evaluation, n>> \in segment'[evaluation].count[x]
              <=> <<evaluation, n>> \in segment[evaluation].count[x],
           pc[n] = "add_up" => segment'[evaluation].count = segment[evaluation].count,
           segment[evaluation].end <= segment'[evaluation].end
    PROVE  AddedSoFar(n, segment[evaluation])'
<1>1. Started(n)' <=> Started(n)
  BY DEF Started, Stays
<1>2. \A place \in {"add", "add_up", "done"} : pc'[n] = place => pc[n] = place
  BY DEF Stays
<1>3. /\ segment[evaluation].end \in Nat /\ segment'[evaluation].end \in Nat
      /\ EndTime[n] \in Nat
  BY StatisticsAssumption DEF OldInv, TypeOK, TwoMaps
<1>4. EndTime[n] <= segment[evaluation].end => EndTime[n] <= segment'[evaluation].end
  BY <1>3
<1>5. \A x \in count_metric : <<evaluation, n>> \in segment'[evaluation].count[x] => Started(n)'
  BY <1>1 DEF AddedSoFar
<1>6. ~ Started(n)' => adding'[n].left = count_metric
  BY <1>1 DEF AddedSoFar
<1>7. pc'[n] = "add" =>
         \A x \in count_metric \ adding'[n].left :
            <<evaluation, n>> \in segment'[evaluation].count[x]
  BY <1>2 DEF AddedSoFar
<1>8. pc'[n] = "add_up" =>
         /\ adding'[n].metric \in count_metric
         /\ adding'[n].value = segment'[evaluation].count[adding'[n].metric]
         /\ \A x \in count_metric \ (adding'[n].left \cup {adding'[n].metric}) :
               <<evaluation, n>> \in segment'[evaluation].count[x]
  BY <1>2 DEF AddedSoFar
<1>9. pc'[n] = "done" =>
         /\ \A x \in count_metric : <<evaluation, n>> \in segment'[evaluation].count[x]
         /\ EndTime[n] <= segment'[evaluation].end
  BY <1>2, <1>4 DEF AddedSoFar
<1> QED
  BY <1>5, <1>6, <1>7, <1>8, <1>9 DEF AddedSoFar

LEMMA MemberCounted ==
    ASSUME OneRecords, OldInv, OldInv', MutexLast, Exclusive, Counted,
           NEW m \in Members, MemberStep(m)
    PROVE  Counted'
<1>0. evaluation' = evaluation /\ evaluation \in Evaluations /\ evaluation # 0
  BY MemberType, StatisticsAssumption DEF OldInv, Evaluations
<1> SUFFICES ASSUME Clean', ~ Destroyed'
             PROVE  /\ \A n \in Members : AddedSoFar(n, segment[evaluation])'
                    /\ EndRecorded(segment[evaluation])'
  BY DEF Counted
<1> DEFINE maps == segment[evaluation]
<1>1. /\ Clean
      /\ Opened(m) => handle[m]["segment"] = evaluation /\ handle[m]["condition"] = evaluation
  BY MemberClean
<1>2. ~ Destroyed
  <2>1. Stays(Writer)
    BY MemberMoves, StatisticsAssumption DEF OldInv
  <2> QED
    BY <2>1 DEF Destroyed, DestroyPlaces, Stays
<1>3. (\A n \in Members : AddedSoFar(n, maps)) /\ EndRecorded(maps)
  BY <1>0, <1>1, <1>2 DEF Counted
<1>4. \A n \in Members : n # m => Stays(n) /\ adding'[n] = adding[n]
  <2>1. \A n \in Members : n # m => Stays(n)
    BY MemberMoves DEF OldInv
  <2>2. \A n \in Members : n # m => adding'[n] = adding[n]
    BY DEF MemberStep, Contribute, OpenObjects, Open, LockToAdd, AwaitMaps,
           FindMaps, ReadCount, WriteCount, AddTimes, TypeOK, OldInv
  <2> QED
    BY <2>1, <2>2
<1>5. maps \in TwoMaps /\ maps.end \in Nat /\ maps.count \in [count_metric -> SUBSET Contributions]
  BY <1>0 DEF OldInv, TypeOK, TwoMaps
<1>6. \A n \in Members : pc[n] \in {"find", "add", "add_up"} => owner[evaluation] = n
  BY <1>1 DEF Exclusive
<1>7. ASSUME segment' = segment
      PROVE  \A n \in Members : n # m => AddedSoFar(n, segment[evaluation])'
  BY <1>0, <1>3, <1>4, <1>5, <1>7, AddedStays
<1>8. ASSUME segment' = segment, pc[m] # "done"
      PROVE  EndRecorded(segment[evaluation])'
  <2>1. \A n \in Members : pc[n] = "done" => pc'[n] = "done"
    BY <1>4, <1>8 DEF Stays
  <2> QED
    BY <1>0, <1>3, <1>8, <2>1 DEF EndRecorded
<1>9. pc[m] # "done"
  BY MemberMoves DEF OldInv
<1>10. CASE Contribute(m) \/ OpenObjects(m) \/ LockToAdd(m) \/ AwaitMaps(m)
  <2>1. segment' = segment /\ adding' = adding
    BY <1>10 DEF Contribute, OpenObjects, Open, LockToAdd, AwaitMaps
  <2>2. ~ Started(m) /\ ~ Started(m)'
    BY <1>10 DEF Contribute, OpenObjects, Open, LockToAdd, AwaitMaps, Goto, OldInv, TypeOK, Started
  <2>3. AddedSoFar(m, segment[evaluation])'
    BY <1>0, <1>3, <2>1, <2>2 DEF AddedSoFar, Started
  <2> QED
    BY <1>7, <1>8, <1>9, <2>1, <2>3
<1>11. CASE FindMaps(m)
  <2>1. segment' = segment /\ adding' = adding /\ pc[m] = "find" /\ pc'[m] = "add"
    BY <1>11 DEF FindMaps, Goto, OldInv, TypeOK
  <2>2. AddedSoFar(m, segment[evaluation])'
    BY <1>0, <1>3, <2>1 DEF AddedSoFar, Started
  <2> QED
    BY <1>7, <1>8, <1>9, <2>1, <2>2
<1>12. CASE ReadCount(m)
  <2>1. segment' = segment /\ pc[m] = "add" /\ pc'[m] = "add_up" /\ Opened(m)
    BY <1>12 DEF ReadCount, Goto, OldInv, TypeOK, Opened
  <2>2. PICK x \in adding[m].left :
           adding' = [adding EXCEPT ![m] = [left |-> @.left \ {x}, metric |-> x,
                                            value |-> Maps(m).count[x]]]
    BY <1>12 DEF ReadCount
  <2>3. /\ adding'[m].left = adding[m].left \ {x}
        /\ adding'[m].metric = x
        /\ adding'[m].value = maps.count[x]
        /\ x \in count_metric
    BY <1>1, <2>1, <2>2 DEF OldInv, TypeOK, Maps
  <2>4. AddedSoFar(m, segment[evaluation])'
    BY <1>0, <1>3, <2>1, <2>3 DEF AddedSoFar, Started
  <2> QED
    BY <1>7, <1>8, <1>9, <2>1, <2>4
<1>13. CASE WriteCount(m)
  <2> DEFINE x0 == adding[m].metric
             new == adding[m].value \cup {<<evaluation, m>>}
  <2>1. pc[m] = "add_up" /\ pc'[m] = "add" /\ adding' = adding /\ Opened(m)
    BY <1>13 DEF WriteCount, Goto, OldInv, TypeOK, Opened
  <2>2. x0 \in count_metric /\ new = maps.count[x0] \cup {<<evaluation, m>>}
    BY <1>3, <2>1 DEF AddedSoFar
  <2>3. segment' = [segment EXCEPT ![evaluation].count[x0] = new]
    BY <1>1, <1>13, <2>1 DEF WriteCount
  <2>4. segment'[evaluation] = [maps EXCEPT !.count = [maps.count EXCEPT ![x0] = new]]
    <3> HIDE DEF x0, new
    <3> QED
      BY <1>0, <2>3 DEF OldInv, TypeOK
  <2>5. /\ segment'[evaluation].end = maps.end
        /\ segment'[evaluation].count = [maps.count EXCEPT ![x0] = new]
    <3> HIDE DEF x0, new, maps
    <3> QED
      BY <1>5, <2>4 DEF TwoMaps
  <2>6. \A x \in count_metric :
           segment'[evaluation].count[x] = IF x = x0 THEN maps.count[x0] \cup {<<evaluation, m>>}
                                                     ELSE maps.count[x]
    <3> HIDE DEF x0, new, maps
    <3> QED
      BY <1>5, <2>2, <2>5
  <2> HIDE DEF new
  <2>7. ASSUME NEW n \in Members, n # m
        PROVE  AddedSoFar(n, segment[evaluation])'
    <3>1. \A x \in count_metric :
             <<evaluation, n>> \in segment'[evaluation].count[x]
             <=> <<evaluation, n>> \in segment[evaluation].count[x]
      BY <2>6, <2>7
    <3>2. pc[n] # "add_up"
      BY <1>6, <2>1, <2>7
    <3>3. segment[evaluation].end <= segment'[evaluation].end
      BY <1>5, <2>5
    <3> QED
      BY <1>0, <1>3, <1>4, <2>7, <3>1, <3>2, <3>3, AddedStays
  <2>8. AddedSoFar(m, segment[evaluation])'
    <3>1. \A x \in count_metric \ adding[m].left :
             <<evaluation, m>> \in segment'[evaluation].count[x]
      BY <1>3, <2>1, <2>6 DEF AddedSoFar
    <3> QED
      BY <1>0, <2>1, <3>1 DEF AddedSoFar, Started
  <2>9. EndRecorded(segment[evaluation])'
    <3>1. \A n \in Members : pc[n] = "done" => pc'[n] = "done"
      BY <1>4, <2>1 DEF Stays
    <3> QED
      BY <1>0, <1>3, <2>5, <3>1 DEF EndRecorded
  <2> QED
    BY <2>7, <2>8, <2>9
<1>14. CASE AddTimes(m)
  <2> DEFINE new == Later(maps.end, EndTime[m])
  <2>1. pc[m] = "add" /\ adding[m].left = {} /\ adding' = adding /\ Opened(m)
    BY <1>14 DEF AddTimes, Opened
  <2>2. pc'[m] = "done"
    <3>1. NotifyOne(evaluation, m, "done") /\ "done" \in Places
      BY <1>1, <1>14, <2>1 DEF AddTimes, Places
    <3> QED
      BY <1>0, <2>1, <3>1, NotifyMoves DEF OldInv
  <2>3. segment' = [segment EXCEPT ![evaluation] = [@ EXCEPT !.end = new]]
    BY <1>1, <1>14, <2>1 DEF AddTimes
  <2>4. segment'[evaluation].end = new /\ segment'[evaluation].count = maps.count
    <3> HIDE DEF new
    <3> QED
      BY <1>0, <1>5, <2>3 DEF OldInv, TypeOK, TwoMaps
  <2>5. EndTime[m] \in Nat
    BY StatisticsAssumption
  <2>6. Retransmissions /\ maps.end # None => EndTime[m] = None
    <3> SUFFICES ASSUME Retransmissions, maps.end # None PROVE EndTime[m] = None
      OBVIOUS
    <3>1. PICK n \in Members : pc[n] = "done" /\ EndTime[n] = maps.end
      BY <1>3 DEF EndRecorded
    <3>2. n # m
      BY <2>1, <3>1
    <3> QED
      BY <3>1, <3>2 DEF OneRecords
  <2>7. maps.end <= new /\ EndTime[m] <= new /\ new \in {maps.end, EndTime[m]}
    BY <1>5, <2>5, <2>6, LaterRight
  <2> HIDE DEF new
  <2>8. ASSUME NEW n \in Members, n # m
        PROVE  AddedSoFar(n, segment[evaluation])'
    BY <1>0, <1>3, <1>4, <2>4, <2>7, <2>8, AddedStays
  <2>9. AddedSoFar(m, segment[evaluation])'
    BY <1>0, <1>3, <2>1, <2>2, <2>4, <2>7 DEF AddedSoFar, Started
  <2>10. EndRecorded(segment[evaluation])'
    <3>1. \A n \in Members : pc[n] = "done" => pc'[n] = "done"
      BY <1>4, <2>2 DEF Stays
    <3> QED
      BY <1>0, <1>3, <2>2, <2>4, <2>7, <3>1 DEF EndRecorded
  <2> QED
    BY <2>8, <2>9, <2>10
<1> QED
  BY <1>10, <1>11, <1>12, <1>13, <1>14 DEF MemberStep

LEMMA WriterCounted ==
    ASSUME OldInv, OldInv', MutexLast, Counted, WriterStep
    PROVE  Counted'
<1>0. evaluation' = evaluation /\ evaluation \in Evaluations /\ evaluation # 0
  BY WriterType, StatisticsAssumption DEF OldInv, Evaluations
<1> SUFFICES ASSUME Clean', ~ Destroyed'
             PROVE  /\ \A n \in Members : AddedSoFar(n, segment[evaluation])'
                    /\ EndRecorded(segment[evaluation])'
  BY DEF Counted
<1>1. Clean
  BY WriterClean
<1>2. \A n \in Members : Stays(n) /\ adding'[n] = adding[n] /\ handle'[n] = handle[n]
  BY WriterStays DEF OldInv
<1>3. ASSUME segment' = segment, ~ Destroyed
      PROVE  /\ \A n \in Members : AddedSoFar(n, segment[evaluation])'
             /\ EndRecorded(segment[evaluation])'
  <2>1. (\A n \in Members : AddedSoFar(n, segment[evaluation])) /\ EndRecorded(segment[evaluation])
    BY <1>0, <1>1, <1>3 DEF Counted
  <2>2. segment[evaluation].end \in Nat
    BY <1>0 DEF OldInv, TypeOK, TwoMaps
  <2>3. segment[evaluation].end <= segment'[evaluation].end
    BY <1>3, <2>2
  <2>4. \A n \in Members : AddedSoFar(n, segment[evaluation])'
    BY <1>0, <1>2, <1>3, <2>1, <2>3, AddedStays
  <2>5. \A n \in Members : pc[n] = "done" => pc'[n] = "done"
    BY <1>2 DEF Stays
  <2> QED
    BY <1>0, <1>3, <2>1, <2>4, <2>5 DEF EndRecorded
<1>4. CASE SetMaps(EmptyMaps, "construct_maps", "create_condition")
  <2>1. pc[Writer] = "construct_maps" /\ segment'[evaluation] = EmptyMaps
    BY <1>0, <1>4 DEF SetMaps, OldInv, TypeOK
  <2>2. \A n \in Members : ~ Opened(n)
    <3>1. \A n \in Members : handle[n]["mutex"] # evaluation
      BY <2>1 DEF MutexLast, ConstructPlaces
    <3> QED
      BY <1>1, <3>1 DEF Clean, Objects
  <2>3. ~ Destroyed
    BY <2>1 DEF Destroyed, DestroyPlaces
  <2>4. \A n \in Members : AddedSoFar(n, segment[evaluation])
    BY <1>0, <1>1, <2>3 DEF Counted
  <2>5. \A n \in Members : pc'[n] \notin {"add", "add_up", "done"} /\ ~ Started(n)
    BY <1>2, <2>2 DEF Opened, Stays, Started
  <2>6. \A n \in Members : AddedSoFar(n, segment[evaluation])'
    <3> TAKE n \in Members
    <3>1. adding'[n].left = count_metric
      BY <1>2, <2>4, <2>5 DEF AddedSoFar
    <3>2. \A x \in count_metric : segment'[evaluation].count[x] = {}
      BY <2>1, Maps0
    <3>3. pc'[n] \notin {"add", "add_up", "done"}
      BY <2>5
    <3> QED
      BY <1>0, <3>1, <3>2, <3>3 DEF AddedSoFar
  <2>7. EndRecorded(segment[evaluation])'
    BY <1>0, <2>1, Maps0 DEF EndRecorded
  <2> QED
    BY <2>6, <2>7
<1>5. CASE SetMaps(NoMaps, "destroy_maps", "unname_condition")
  BY <1>5 DEF SetMaps, Goto, OldInv, TypeOK, Destroyed, DestroyPlaces
<1>6. ASSUME NEW x \in Objects, NEW from \in Places, NEW to \in Places,
             Passes(from, to), Remove(x, from, to) \/ Create(x, from, to)
      PROVE  segment' = segment /\ ~ Destroyed
  BY <1>6 DEF Passes, Remove, Create, Goto, OldInv, TypeOK, Destroyed
<1>7. CASE LockToWrite \/ AwaitMembers \/ WriteFile
  <2>1. segment' = segment /\ pc[Writer] \in {"lock", "check"}
    BY <1>7 DEF LockToWrite, AwaitMembers, WriteFile
  <2> QED
    BY <1>3, <2>1 DEF Destroyed, DestroyPlaces
<1> QED
  BY <1>3, <1>4, <1>5, <1>6, <1>7, WriterMoves

LEMMA StartCounted ==
    ASSUME OldInv, OldInv', StartEvaluation
    PROVE  Counted'
<1>1. evaluation' = evaluation + 1 /\ evaluation' \in Evaluations /\ evaluation \in Nat
  <2>1. evaluation \in 0 .. MaxEvaluations /\ MaxEvaluations \in Nat
    BY StatisticsAssumption DEF OldInv, TypeOK
  <2> QED
    BY <2>1, StartType DEF OldInv
<1>2. segment'[evaluation'] = NoMaps
  BY <1>1 DEF OldInv, Untouched, StartEvaluation, Evaluations
<1>3. \A n \in Members : pc'[n] = "working" /\ adding'[n] = NoAddition
  BY StatisticsAssumption DEF StartEvaluation
<1>4. \A n \in Members : AddedSoFar(n, segment[evaluation])'
  BY <1>2, <1>3, Maps0 DEF AddedSoFar, Started
<1>5. EndRecorded(segment[evaluation])'
  BY <1>2, Maps0 DEF EndRecorded
<1> QED
  BY <1>4, <1>5 DEF Counted

-----------------------------------------------------------------------------
(***************************************************************************)
(* When the writer holds the mutex and counts all the members, each of     *)
(* them has added everything.                                              *)
(***************************************************************************)
LEMMA LargestIs ==
    ASSUME NEW S \in SUBSET Nat, NEW n \in S, \A k \in S : k <= n
    PROVE  Max(S) = n
<1>1. \A k \in S : n >= k
  OBVIOUS
<1>2. Max(S) \in S /\ \A k \in S : Max(S) >= k
  <2>1. \E x \in S : \A y \in S : x >= y
    BY <1>1
  <2> QED
    BY <2>1 DEF Max
<1>3. Max(S) >= n /\ n >= Max(S) /\ Max(S) \in Nat /\ n \in Nat
  BY <1>1, <1>2
<1> QED
  BY <1>3

LEMMA AllAdded ==
    ASSUME OldInv, Exclusive, Counted, Clean, evaluation \in Evaluations,
           pc[Writer] = "check", AllContributed
    PROVE  /\ \A m \in Members : pc[m] = "done"
           /\ Exact(segment[evaluation])
<1> DEFINE maps == segment[evaluation]
           S == {evaluation} \X Members
<1>0. /\ evaluation # 0 /\ evaluation >= evaluation /\ maps.end \in Nat
      /\ "MEMBER_COUNT_" \in count_metric
  <2>1. evaluation # 0 /\ evaluation >= evaluation
    BY StatisticsAssumption DEF Evaluations
  <2> QED
    BY <2>1 DEF OldInv, TypeOK, TwoMaps, count_metric
<1>1. (\A m \in Members : AddedSoFar(m, maps)) /\ EndRecorded(maps)
  BY <1>0 DEF Counted, Destroyed, DestroyPlaces
<1>2. IsFiniteSet(S) /\ Cardinality(S) = Cardinality(Members)
  <2>1. IsFiniteSet(Members) /\ IsFiniteSet({evaluation}) /\ Cardinality({evaluation}) = 1
    BY StatisticsAssumption, FS_Singleton
  <2>2. IsFiniteSet(S) /\ Cardinality(S) = 1 * Cardinality(Members)
    BY <2>1, FS_Product
  <2>3. Cardinality(Members) \in Nat
    BY <2>1, FS_CardinalityType
  <2> QED
    BY <2>2, <2>3
<1>3. \A x \in count_metric : maps.count[x] \subseteq S
  BY <1>0 DEF OldInv, OwnCounts, Own
<1>4. maps.count["MEMBER_COUNT_"] = S
  <2>1. maps.count["MEMBER_COUNT_"] \in SUBSET S
    BY <1>0, <1>3
  <2>2. Cardinality(S) = Cardinality(maps.count["MEMBER_COUNT_"])
    BY <1>2 DEF AllContributed, member_count
  <2> QED
    BY <1>2, <2>1, <2>2, FS_Subset
<1>5. \A m \in Members : pc[m] = "done"
  <2> TAKE m \in Members
  <2>1. <<evaluation, m>> \in maps.count["MEMBER_COUNT_"]
    BY <1>4
  <2>2. Started(m)
    BY <1>0, <1>1, <2>1 DEF AddedSoFar
  <2>3. owner[evaluation] = Writer /\ Writer # m
    BY StatisticsAssumption DEF Exclusive
  <2>4. pc[m] \notin {"add", "add_up"}
    BY <2>3 DEF Exclusive
  <2> QED
    BY <2>2, <2>4 DEF Started
<1>6. \A x \in count_metric : maps.count[x] = S
  <2> TAKE x \in count_metric
  <2>1. \A m \in Members : <<evaluation, m>> \in maps.count[x]
    BY <1>1, <1>5 DEF AddedSoFar
  <2>2. S \subseteq maps.count[x]
    BY <2>1
  <2> QED
    BY <1>3, <2>2
<1>7. maps.end = Max({EndTime[m] : m \in Members})
  <2> DEFINE T == {EndTime[m] : m \in Members}
  <2>1. T \in SUBSET Nat
    BY StatisticsAssumption
  <2>2. \A k \in T : k <= maps.end
    BY <1>1, <1>5 DEF AddedSoFar
  <2>3. maps.end \in T
    <3>1. CASE maps.end # None
      BY <1>1, <3>1 DEF EndRecorded
    <3>2. CASE maps.end = None
      <4>1. PICK m \in Members : TRUE
        BY StatisticsAssumption
      <4>2. EndTime[m] \in Nat /\ EndTime[m] <= 0
        BY <2>1, <2>2, <3>2 DEF None
      <4>3. EndTime[m] = maps.end
        BY <3>2, <4>2 DEF None
      <4> QED
        BY <4>3
    <3> QED
      BY <3>1, <3>2
  <2> HIDE DEF T
  <2>4. Max(T) = maps.end
    BY <2>1, <2>2, <2>3, LargestIs
  <2> QED
    BY <2>4 DEF T
<1> QED
  BY <1>5, <1>6, <1>7 DEF Exact

LEMMA FileExactStays ==
    ASSUME OldInv, MutexLast, Exclusive, Counted, FileExact, [Next]_vars
    PROVE  FileExact'
<1>1. CASE StartEvaluation
  <2>1. evaluation' = evaluation + 1 /\ evaluation' \in Evaluations /\ evaluation \in Nat
    <3>1. evaluation \in 0 .. MaxEvaluations /\ MaxEvaluations \in Nat
      BY StatisticsAssumption DEF OldInv, TypeOK
    <3> QED
      BY <1>1, <3>1, StartType DEF OldInv
  <2>2. file'[evaluation'] = NoMaps
    BY <1>1, <2>1 DEF OldInv, Untouched, StartEvaluation, Evaluations
  <2>3. ~ Written'
    BY <1>1 DEF StartEvaluation, Written, Destroyed, DestroyPlaces
  <2> QED
    BY <2>2, <2>3, Maps0 DEF FileExact
<1>2. CASE WriterStep
  <2>0. evaluation' = evaluation /\ evaluation \in Evaluations /\ evaluation # 0 /\ (Clean' <=> Clean)
    BY <1>2, WriterType, WriterClean, StatisticsAssumption DEF OldInv, Evaluations
  <2>1. \A m \in Members : pc[m] = "done" => pc'[m] = "done"
    BY <1>2, WriterStays DEF OldInv, Stays
  <2>2. ASSUME file' = file, Written' <=> Written
        PROVE  FileExact'
    BY <2>0, <2>1, <2>2 DEF FileExact, Exact
  <2>3. ASSUME NEW x \in Objects, NEW from \in Places, NEW to \in Places,
               Passes(from, to), Remove(x, from, to) \/ Create(x, from, to)
        PROVE  file' = file /\ (Written' <=> Written)
    BY <2>3 DEF Passes, Remove, Create, Goto, OldInv, TypeOK, Written, Destroyed
  <2>4. CASE \/ SetMaps(EmptyMaps, "construct_maps", "create_condition")
             \/ LockToWrite
             \/ AwaitMembers
             \/ SetMaps(NoMaps, "destroy_maps", "unname_condition")
    <3>1. file' = file
      BY <2>4 DEF SetMaps, LockToWrite, AwaitMembers
    <3>2. CASE SetMaps(NoMaps, "destroy_maps", "unname_condition")
      BY <2>2, <3>1, <3>2 DEF SetMaps, Goto, OldInv, TypeOK, Written, Destroyed, DestroyPlaces
    <3>3. CASE \/ SetMaps(EmptyMaps, "construct_maps", "create_condition")
               \/ LockToWrite
               \/ AwaitMembers
      <4>1. /\ pc[Writer] \in {"construct_maps", "lock", "check"}
            /\ pc'[Writer] \in {"create_condition", "check", "wait", "lock"}
        BY <3>3 DEF SetMaps, LockToWrite, AwaitMembers, Goto, OldInv, TypeOK
      <4> QED
        BY <2>2, <3>1, <4>1 DEF Written, Destroyed, DestroyPlaces
    <3> QED
      BY <2>4, <3>2, <3>3
  <2>5. CASE WriteFile
    <3>1. /\ pc[Writer] = "check" /\ AllContributed
          /\ pc'[Writer] = "destroy_maps"
          /\ file'[evaluation] = segment[evaluation]
      BY <2>0, <2>5 DEF WriteFile, Goto, OldInv, TypeOK
    <3>2. Clean => (\A m \in Members : pc[m] = "done") /\ Exact(segment[evaluation])
      BY <2>0, <3>1, AllAdded
    <3>3. Written'
      BY <3>1 DEF Written
    <3>4. Clean' => \A m \in Members : pc'[m] = "done"
      BY <2>0, <2>1, <3>2
    <3>5. Clean' => Exact(file[evaluation])'
      BY <2>0, <3>1, <3>2 DEF Exact
    <3> QED
      BY <3>3, <3>4, <3>5 DEF FileExact
  <2> QED
    BY <1>2, <2>2, <2>3, <2>4, <2>5, WriterMoves
<1>3. ASSUME NEW m \in Members, MemberStep(m)
      PROVE  FileExact'
  <2>0. evaluation' = evaluation /\ evaluation # 0
    BY <1>3, MemberType, StatisticsAssumption DEF OldInv, Evaluations
  <2>1. file' = file /\ pc[m] # "done" /\ Stays(Writer)
    BY <1>3, MemberMoves, StatisticsAssumption DEF OldInv
  <2>2. Written' <=> Written
    BY <2>1 DEF Stays, Written, Destroyed, DestroyPlaces
  <2>3. Clean' => Clean
    BY <1>3, MemberClean
  <2> QED
    BY <2>0, <2>1, <2>2, <2>3 DEF FileExact
<1>4. CASE UNCHANGED vars
  BY <1>4 DEF vars, FileExact, Written, Destroyed, Clean, Opened, Exact
<1> QED
  BY <1>1, <1>2, <1>3, <1>4 DEF Next

LEMMA ExactInductive == ASSUME OneRecords PROVE Spec => []ExactInv
<1>1. Init => ExactInv
  <2> SUFFICES ASSUME Init PROVE MutexLast /\ Exclusive /\ Counted /\ FileExact
    BY OldInit DEF ExactInv
  <2>1. \A p \in Members \cup {Writer} : pc[p] = "down"
    BY DEF Init
  <2>2. evaluation = 0
    BY DEF Init
  <2> QED
    BY <2>1, <2>2 DEF MutexLast, ConstructPlaces, Exclusive, Counted, FileExact
<1>2. ExactInv /\ OldInv' /\ [Next]_vars => ExactInv'
  <2> SUFFICES ASSUME ExactInv, OldInv', [Next]_vars PROVE ExactInv'
    OBVIOUS
  <2>1. MutexLast' /\ Exclusive' /\ FileExact'
    BY MutexLastStays, ExclusiveStays, FileExactStays DEF ExactInv
  <2>2. Counted'
    <3>1. CASE StartEvaluation
      BY <3>1, StartCounted DEF ExactInv
    <3>2. CASE WriterStep
      BY <3>2, WriterCounted DEF ExactInv
    <3>3. ASSUME NEW m \in Members, MemberStep(m)
          PROVE  Counted'
      BY <3>3, MemberCounted DEF ExactInv
    <3>4. CASE UNCHANGED vars
      BY <3>4 DEF ExactInv, vars, Counted, Clean, Opened, Destroyed, AddedSoFar, Started, EndRecorded
    <3> QED
      BY <3>1, <3>2, <3>3, <3>4 DEF Next
  <2> QED
    BY <2>1, <2>2 DEF ExactInv
<1> QED
  BY <1>1, <1>2, OldInductive, PTL DEF Spec

(***************************************************************************)
(* The file of an evaluation counts every member of it once, and has the   *)
(* time when the last of them was finished, unless one of them opened what *)
(* a killed evaluation left behind.                                        *)
(***************************************************************************)
THEOREM TotalsAreExact == ASSUME OneRecords PROVE Spec => []TotalsExact
<1>1. ExactInv => TotalsExact
  <2> SUFFICES ASSUME ExactInv, evaluation # 0, NobodyOpenedOld, file[evaluation].made
               PROVE  Exact(file[evaluation])
    BY DEF TotalsExact, Exact
  <2>1. Clean
    BY DEF Clean, NobodyOpenedOld, OpenedOld, ExactInv, OldInv, Opens
  <2> QED
    BY <2>1 DEF ExactInv, FileExact
<1> QED
  BY <1>1, ExactInductive, PTL
=============================================================================
