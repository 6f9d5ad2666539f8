---------------------------- MODULE AlertsProofs ----------------------------
(***************************************************************************)
(* Proofs about the two loops that message a person of what they asked to  *)
(* be told: scheduled questions, and position and price alerts.            *)
(***************************************************************************)
EXTENDS Alerts, Schedules, FiniteSetTheorems, TLAPS

-----------------------------------------------------------------------------
(* Schedules *)

TaskPlaces == {"idle", "next", "found", "nothing", "failed", "reported", "refused", "disabled"}
Outcomes == {"none", "nothing", "failed", "reported", "closed"}
AtNoTask == {"idle", "next"}
Written == {t \in Tasks : task[t] # "none"}

TaskTypes ==
    /\ task \in [Tasks -> TaskStates] /\ outcome \in [Tasks -> Outcomes]
    /\ taskDue \subseteq Tasks /\ inserting \in [Tasks -> Nat \cup {-1}]
    /\ taskSweep \in [at : TaskPlaces, left : SUBSET Tasks, now : Tasks \cup {"none"}]
    /\ IsFiniteSet(Written)

(* Where the sweep is, and what it is about.                                *)
SweepInPlace ==
    /\ taskSweep.at \in AtNoTask <=> taskSweep.now = "none"
    /\ taskSweep.now # "none" => taskSweep.now \in taskSweep.left
    /\ taskSweep.at = "idle" => taskSweep.left = {}
    /\ taskSweep.left \subseteq Written
    /\ \A t \in Tasks : outcome[t] # "none" => t \in Written
    /\ \A t \in Tasks : inserting[t] # -1 => t \notin Written

(* A task's claims and its coming run are intervals of their own.           *)
Unanswered(t) == t \in taskSweep.left /\ ~(taskSweep.at = "reported" /\ taskSweep.now = t)
CreditsCover ==
    /\ credit \in [Tasks -> 0..2]
    /\ \A t \in Tasks : /\ t \in taskDue \/ Unanswered(t) => credit[t] >= 1
                        /\ t \in taskDue /\ Unanswered(t) => credit[t] >= 2

(* Who has had no two inserts together has one at most, and it has counted  *)
(* all that there is.                                                       *)
InsertsCounted ==
    \A p \in TaskOwners \ together :
        /\ Cardinality(TasksOf(p)) <= TaskCap
        /\ \A t \in Tasks : inserting[t] # -1 /\ TaskOwner[t] = p =>
              /\ Cardinality(TasksOf(p)) <= inserting[t]
              /\ \A u \in Tasks : inserting[u] # -1 /\ TaskOwner[u] = p => u = t

SchedulesIInv == TaskTypes /\ SweepInPlace /\ CreditsCover /\ InsertsCounted

-----------------------------------------------------------------------------
(* Schedules: the types and the place of the sweep *)

LEMMA ScheduleNumbers ==
    /\ "none" \notin Tasks /\ TaskCap \in Nat /\ \A t \in Tasks : TaskOwner[t] \in TaskOwners
BY SchedulesAssumption DEF SchedulesAssumption, TaskOwners

LEMMA TasksOfCount ==
    ASSUME IsFiniteSet(Written), NEW p
    PROVE  IsFiniteSet(TasksOf(p)) /\ Cardinality(TasksOf(p)) \in Nat
<1>1. TasksOf(p) \in SUBSET Written
  BY DEF TasksOf, Written
<1>2. QED
  BY <1>1, FS_Subset, FS_CardinalityType

LEMMA WrittenFinite ==
    ASSUME IsFiniteSet(Written), NEW t, Written' \subseteq Written \cup {t}
    PROVE  IsFiniteSet(Written')
BY FS_AddElement, FS_Subset

(* The owner's steps, and those of the sweep.                               *)
OwnerStep ==
    \/ \E t \in Tasks : BeginInsert(t) \/ Insert(t) \/ DeleteTask(t) \/ IntervalPasses(t)
    \/ \E p \in TaskOwners : TaskDoor(p) \/ TasksOptOut(p)
RecordStep == RecordSilence \/ RecordReport \/ RecordRefusal

LEMMA SchedulesCases ==
    SchedulesNext <=> \/ OwnerStep \/ ClaimTasks \/ (\E t \in Tasks : AskTask(t))
                      \/ RecordStep \/ SendAnswer \/ DisableTasks \/ BreakSweep
BY DEF SchedulesNext, OwnerStep, RecordStep, TaskSweepStep

LEMMA OwnerTypes ==
    ASSUME TaskTypes, OwnerStep
    PROVE  TaskTypes'
<1> USE DEF TaskTypes
<1>1. ASSUME NEW t \in Tasks, BeginInsert(t)
      PROVE  TaskTypes'
  <2>1. inserting' \in [Tasks -> Nat \cup {-1}]
    BY <1>1, TasksOfCount DEF BeginInsert
  <2>2. Written' = Written
    BY <1>1 DEF BeginInsert, Written
  <2>3. QED
    BY <1>1, <2>1, <2>2 DEF BeginInsert
<1>2. ASSUME NEW t \in Tasks, Insert(t)
      PROVE  TaskTypes'
  <2>1. task' \in [Tasks -> TaskStates] /\ inserting' \in [Tasks -> Nat \cup {-1}]
    BY <1>2 DEF Insert, TaskStates
  <2>2. Written' \subseteq Written \cup {t}
    BY <1>2 DEF Insert, Written
  <2>3. QED
    BY <1>2, <2>1, <2>2, WrittenFinite DEF Insert
<1>3. ASSUME NEW t \in Tasks, DeleteTask(t)
      PROVE  TaskTypes'
  <2>1. task' \in [Tasks -> TaskStates]
    BY <1>3 DEF DeleteTask, TaskStates
  <2>2. Written' \subseteq Written \cup {t}
    BY <1>3 DEF DeleteTask, Written
  <2>3. QED
    BY <1>3, <2>1, <2>2, WrittenFinite DEF DeleteTask
<1>4. ASSUME NEW t \in Tasks, IntervalPasses(t)
      PROVE  TaskTypes'
  <2>1. Written' = Written
    BY <1>4 DEF IntervalPasses, Written
  <2>2. QED
    BY <1>4, <2>1 DEF IntervalPasses
<1>5. ASSUME NEW p \in TaskOwners, TaskDoor(p)
      PROVE  TaskTypes'
  <2>1. Written' = Written
    BY <1>5 DEF TaskDoor, Written
  <2>2. QED
    BY <1>5, <2>1 DEF TaskDoor
<1>6. ASSUME NEW p \in TaskOwners, TasksOptOut(p)
      PROVE  TaskTypes'
  <2>1. task' \in [Tasks -> TaskStates]
    BY <1>6 DEF TasksOptOut, TaskStates
  <2>2. Written' = Written
    BY <1>6 DEF TasksOptOut, Written, TasksOf
  <2>3. QED
    BY <1>6, <2>1, <2>2 DEF TasksOptOut
<1>7. QED
  BY <1>1, <1>2, <1>3, <1>4, <1>5, <1>6 DEF OwnerStep

SweepRecord == [at : TaskPlaces, left : SUBSET Tasks, now : Tasks \cup {"none"}]

(* What is left once the sweep is done with a task.                         *)
LEMMA RestIs ==
    ASSUME TaskTypes, NEW t, t \in taskSweep.left
    PROVE  /\ Rest(t) \in SweepRecord /\ Rest(t).left = taskSweep.left \ {t}
           /\ Rest(t).at \in AtNoTask /\ Rest(t).now = "none"
           /\ Rest(t).at = "idle" => Rest(t).left = {}
BY DEF TaskTypes, Rest, IdleTasks, SweepRecord, TaskPlaces, AtNoTask

LEMMA IdleIs ==
    /\ IdleTasks \in SweepRecord /\ IdleTasks.left = {} /\ IdleTasks.at = "idle"
    /\ IdleTasks.now = "none"
BY DEF IdleTasks, SweepRecord, TaskPlaces

(* Which task a step of the sweep is about, and what becomes of the sweep.  *)
LEMMA RecordCases ==
    ASSUME TaskTypes, SweepInPlace, RecordStep
    PROVE  /\ taskSweep.now \in taskSweep.left /\ taskSweep.at \notin AtNoTask
           /\ \E what \in Outcomes \ {"none"} : RecordRun(taskSweep.now, what)
           /\ taskSweep' = Rest(taskSweep.now)
           /\ UNCHANGED <<task, taskDue, inserting, taskDoor, noTasks, doors, breaks, credit, together>>
<1>1. taskSweep.at \notin AtNoTask
  BY DEF RecordStep, RecordSilence, RecordReport, RecordRefusal, AtNoTask
<1>2. taskSweep.now \in taskSweep.left
  BY <1>1 DEF SweepInPlace
<1>3. \E what \in Outcomes \ {"none"} : RecordRun(taskSweep.now, what)
  BY DEF RecordStep, RecordSilence, RecordReport, RecordRefusal, Outcomes
<1>4. QED
  BY <1>1, <1>2, <1>3 DEF RecordStep, RecordSilence, RecordReport, RecordRefusal

LEMMA SendCases ==
    ASSUME TaskTypes, SweepInPlace, SendAnswer
    PROVE  /\ taskSweep.at = "found" /\ taskSweep.now \in taskSweep.left
           /\ \/ /\ taskSweep' = [taskSweep EXCEPT !.at = "reported"]
                 /\ credit' = [credit EXCEPT ![taskSweep.now] = @ - 1]
              \/ /\ taskSweep' = [taskSweep EXCEPT !.at = "failed"] /\ UNCHANGED credit
              \/ /\ taskSweep' = [taskSweep EXCEPT !.at = "refused"] /\ UNCHANGED credit
           /\ UNCHANGED <<task, outcome, taskDue, inserting, together>>
<1>1. taskSweep.at = "found"
  BY DEF SendAnswer
<1>2. taskSweep.now \in taskSweep.left
  BY <1>1 DEF SweepInPlace, AtNoTask
<1>3. QED
  BY <1>1, <1>2 DEF SendAnswer

LEMMA SweepTaskTypes ==
    ASSUME TaskTypes, SweepInPlace,
           \/ ClaimTasks \/ (\E t \in Tasks : AskTask(t)) \/ RecordStep \/ SendAnswer
           \/ DisableTasks \/ BreakSweep
    PROVE  TaskTypes'
<1> USE DEF TaskTypes
<1>1. CASE ClaimTasks
  <2>1. Written' = Written
    BY <1>1 DEF ClaimTasks, Written
  <2>2. PICK S \in SUBSET Claimable :
          /\ taskDue' = Claimed(S) /\ taskSweep' = [at |-> "next", left |-> S, now |-> "none"]
    BY <1>1 DEF ClaimTasks
  <2>3. taskDue' \subseteq Tasks /\ taskSweep' \in SweepRecord
    BY <2>2 DEF Claimed, Claimable, SweepRecord, TaskPlaces
  <2>4. QED
    BY <1>1, <2>1, <2>3 DEF ClaimTasks, SweepRecord
<1>2. ASSUME NEW t \in Tasks, AskTask(t)
      PROVE  TaskTypes'
  <2>1. Written' = Written
    BY <1>2 DEF AskTask, Written
  <2>2. taskSweep' \in SweepRecord
    BY <1>2 DEF AskTask, SweepRecord, TaskPlaces
  <2>3. QED
    BY <1>2, <2>1, <2>2 DEF AskTask, SweepRecord
<1>3. CASE RecordStep
  <2>1. Written' = Written
    BY <1>3, RecordCases DEF Written
  <2>2. outcome' \in [Tasks -> Outcomes]
    BY <1>3, RecordCases DEF RecordRun
  <2>3. taskSweep' \in SweepRecord
    BY <1>3, RecordCases, RestIs
  <2>4. QED
    BY <1>3, <2>1, <2>2, <2>3, RecordCases DEF SweepRecord
<1>4. CASE SendAnswer
  <2>1. Written' = Written
    BY <1>4, SendCases DEF Written
  <2>2. taskSweep' \in SweepRecord
    BY <1>4, SendCases DEF SweepRecord, TaskPlaces
  <2>3. QED
    BY <1>4, <2>1, <2>2, SendCases DEF SweepRecord
<1>5. CASE DisableTasks
  <2>1. task' \in [Tasks -> TaskStates] /\ Written' = Written
    BY <1>5 DEF DisableTasks, TaskStates, Written
  <2>2. taskSweep' \in SweepRecord
    BY <1>5 DEF DisableTasks, SweepRecord, TaskPlaces
  <2>3. QED
    BY <1>5, <2>1, <2>2 DEF DisableTasks, SweepRecord
<1>6. CASE BreakSweep
  <2>1. Written' = Written
    BY <1>6 DEF BreakSweep, Written
  <2>2. taskSweep' \in SweepRecord
    BY <1>6, IdleIs DEF BreakSweep
  <2>3. QED
    BY <1>6, <2>1, <2>2 DEF BreakSweep, SweepRecord
<1>7. QED
  BY <1>1, <1>2, <1>3, <1>4, <1>5, <1>6

(* The owner leaves the sweep alone, and writes no task anew.               *)
LEMMA OwnerInPlace ==
    ASSUME TaskTypes, SweepInPlace, OwnerStep
    PROVE  SweepInPlace'
<1> USE DEF SweepInPlace, TaskTypes
<1>1. UNCHANGED <<taskSweep, outcome>>
  BY DEF OwnerStep, BeginInsert, Insert, DeleteTask, IntervalPasses, TaskDoor, TasksOptOut
<1>2. Written \subseteq Written'
  BY DEF OwnerStep, BeginInsert, Insert, DeleteTask, IntervalPasses, TaskDoor, TasksOptOut, Written
<1>3. ASSUME NEW u \in Tasks, inserting'[u] # -1
      PROVE  u \notin Written'
  BY <1>3, ZenonT(60) DEF OwnerStep, BeginInsert, Insert, DeleteTask, IntervalPasses, TaskDoor, TasksOptOut,
              Written, TasksOf
<1>4. QED
  BY <1>1, <1>2, <1>3

LEMMA SweepInPlaceStep ==
    ASSUME TaskTypes, SweepInPlace,
           \/ ClaimTasks \/ (\E t \in Tasks : AskTask(t)) \/ RecordStep \/ SendAnswer
           \/ DisableTasks \/ BreakSweep
    PROVE  SweepInPlace'
<1> USE DEF SweepInPlace, TaskTypes, AtNoTask
<1>1. CASE ClaimTasks
  <2>1. PICK S \in SUBSET Claimable : taskSweep' = [at |-> "next", left |-> S, now |-> "none"]
    BY <1>1 DEF ClaimTasks
  <2>2. S \subseteq Written
    BY DEF Claimable, Written
  <2>3. QED
    BY <1>1, <2>1, <2>2 DEF ClaimTasks, Written
<1>2. ASSUME NEW t \in Tasks, AskTask(t)
      PROVE  SweepInPlace'
  <2>1. /\ taskSweep'.at \in {"found", "nothing", "failed"} /\ taskSweep'.now = t
        /\ taskSweep'.left = taskSweep.left /\ t \in taskSweep.left
    BY <1>2 DEF AskTask
  <2>2. QED
    BY <1>2, <2>1, ScheduleNumbers DEF AskTask, Written
<1>3. CASE RecordStep
  <2>1. PICK what \in Outcomes \ {"none"} : RecordRun(taskSweep.now, what)
    BY <1>3, RecordCases
  <2>2. taskSweep.now \in taskSweep.left /\ taskSweep' = Rest(taskSweep.now)
    BY <1>3, RecordCases
  <2>3. \A t \in Tasks : outcome'[t] # "none" => t \in Written
    BY <2>1, <2>2 DEF RecordRun
  <2>4. Written' = Written /\ UNCHANGED inserting
    BY <1>3, RecordCases DEF Written
  <2>5. QED
    BY <2>2, <2>3, <2>4, RestIs
<1>4. CASE SendAnswer
  <2>1. /\ taskSweep'.at \in {"reported", "failed", "refused"}
        /\ taskSweep'.now = taskSweep.now /\ taskSweep'.left = taskSweep.left
    BY <1>4, SendCases
  <2>2. Written' = Written /\ UNCHANGED <<inserting, outcome>>
    BY <1>4, SendCases DEF Written
  <2>3. QED
    BY <1>4, <2>1, <2>2, SendCases
<1>5. CASE DisableTasks
  <2>1. /\ taskSweep'.at = "disabled" /\ taskSweep.at = "refused"
        /\ taskSweep'.now = taskSweep.now /\ taskSweep'.left = taskSweep.left
    BY <1>5 DEF DisableTasks
  <2>2. Written' = Written /\ UNCHANGED <<inserting, outcome>>
    BY <1>5 DEF DisableTasks, Written
  <2>3. QED
    BY <2>1, <2>2
<1>6. CASE BreakSweep
  <2>1. Written' = Written /\ UNCHANGED <<inserting, outcome>> /\ taskSweep' = IdleTasks
    BY <1>6 DEF BreakSweep, Written
  <2>2. QED
    BY <2>1, IdleIs
<1>7. QED
  BY <1>1, <1>2, <1>3, <1>4, <1>5, <1>6

-----------------------------------------------------------------------------
(* Schedules: an interval is answered once *)

LEMMA CreditsStay ==
    ASSUME TaskTypes, CreditsCover, UNCHANGED credit, taskDue' \subseteq taskDue,
           \A t \in Tasks : Unanswered(t)' => Unanswered(t)
    PROVE  CreditsCover'
BY DEF CreditsCover, TaskTypes

LEMMA CreditsStep ==
    ASSUME TaskTypes, SweepInPlace, CreditsCover, SchedulesNext
    PROVE  CreditsCover'
<1> USE DEF TaskTypes
<1>1. ASSUME NEW t \in Tasks, IntervalPasses(t)
      PROVE  CreditsCover'
  <2>1. /\ credit' = [credit EXCEPT ![t] = IF credit[t] < 2 THEN credit[t] + 1 ELSE credit[t]]
        /\ taskDue' = taskDue \cup {t} /\ t \notin taskDue /\ UNCHANGED taskSweep
    BY <1>1 DEF IntervalPasses
  <2>2. \A u \in Tasks : Unanswered(u)' = Unanswered(u)
    BY <2>1 DEF Unanswered
  <2>3. credit' \in [Tasks -> 0..2] /\ credit'[t] >= 1
        /\ (Unanswered(t) => credit'[t] >= 2)
    BY <2>1 DEF CreditsCover
  <2>4. \A u \in Tasks : u # t => credit'[u] = credit[u] /\ (u \in taskDue' <=> u \in taskDue)
    BY <2>1 DEF CreditsCover
  <2>5. QED
    BY <2>2, <2>3, <2>4 DEF CreditsCover
<1>2. CASE OwnerStep /\ ~(\E t \in Tasks : IntervalPasses(t))
  <2>1. UNCHANGED <<taskSweep, credit>> /\ taskDue' \subseteq taskDue
    BY <1>2 DEF OwnerStep, BeginInsert, Insert, DeleteTask, TaskDoor, TasksOptOut
  <2>2. QED
    BY <2>1, CreditsStay DEF Unanswered
<1>3. CASE ClaimTasks
  <2>1. PICK S \in SUBSET Claimable :
          /\ taskDue' = taskDue \ S /\ taskSweep' = [at |-> "next", left |-> S, now |-> "none"]
    BY <1>3 DEF ClaimTasks, Claimed
  <2>2. S \subseteq taskDue /\ UNCHANGED credit /\ taskSweep.left = {}
    BY <1>3 DEF ClaimTasks, Claimable, SweepInPlace
  <2>3. \A t \in Tasks : Unanswered(t)' <=> t \in S
    BY <2>1 DEF Unanswered
  <2>4. QED
    BY <2>1, <2>2, <2>3 DEF CreditsCover
<1>4. ASSUME NEW t \in Tasks, AskTask(t)
      PROVE  CreditsCover'
  <2>1. taskSweep'.at \in {"found", "nothing", "failed"} /\ taskSweep'.left = taskSweep.left
        /\ taskSweep.at = "next"
    BY <1>4 DEF AskTask
  <2>2. \A u \in Tasks : Unanswered(u)' => Unanswered(u)
    BY <2>1 DEF Unanswered
  <2>3. QED
    BY <1>4, <2>2, CreditsStay DEF AskTask
<1>5. CASE RecordStep
  <2>1. taskSweep'.left = taskSweep.left \ {taskSweep.now} /\ UNCHANGED <<credit, taskDue>>
    BY <1>5, RecordCases, RestIs
  <2>2. \A u \in Tasks : Unanswered(u)' => Unanswered(u)
    BY <2>1 DEF Unanswered
  <2>3. QED
    BY <2>1, <2>2, CreditsStay
<1>6. CASE SendAnswer
  <2>1. PICK t \in Tasks :
          /\ t = taskSweep.now /\ Unanswered(t) /\ UNCHANGED taskDue
          /\ taskSweep'.left = taskSweep.left /\ taskSweep'.now = t
    BY <1>6, SendCases DEF Unanswered
  <2>2. CASE taskSweep'.at # "reported"
    <3>1. UNCHANGED credit
      BY <1>6, <2>2, SendCases
    <3>2. \A u \in Tasks : Unanswered(u)' => Unanswered(u)
      BY <1>6, <2>1, SendCases DEF Unanswered
    <3>3. QED
      BY <2>1, <3>1, <3>2, CreditsStay
  <2>3. CASE taskSweep'.at = "reported"
    <3>1. credit' = [credit EXCEPT ![t] = credit[t] - 1]
      BY <1>6, <2>1, <2>3, SendCases
    <3>2. ~Unanswered(t)' /\ \A u \in Tasks : u # t => (Unanswered(u)' => Unanswered(u))
      BY <1>6, <2>1, <2>3, SendCases DEF Unanswered
    <3>3. credit' \in [Tasks -> 0..2] /\ credit'[t] = credit[t] - 1
          /\ \A u \in Tasks : u # t => credit'[u] = credit[u]
      BY <2>1, <3>1 DEF CreditsCover
    <3>4. t \in taskDue => credit'[t] >= 1
      BY <2>1, <3>3 DEF CreditsCover
    <3>5. ASSUME NEW u \in Tasks
          PROVE  /\ u \in taskDue' \/ Unanswered(u)' => credit'[u] >= 1
                 /\ u \in taskDue' /\ Unanswered(u)' => credit'[u] >= 2
      <4>1. CASE u = t
        BY <2>1, <3>2, <3>4, <4>1 DEF Unanswered
      <4>2. CASE u # t
        BY <2>1, <3>2, <3>3, <4>2 DEF CreditsCover
      <4>3. QED
        BY <4>1, <4>2
    <3>6. QED
      BY <3>3, <3>5 DEF CreditsCover
  <2>4. QED
    BY <2>2, <2>3
<1>7. CASE DisableTasks
  <2>1. taskSweep'.left = taskSweep.left /\ taskSweep.at = "refused"
        /\ UNCHANGED <<credit, taskDue>>
    BY <1>7 DEF DisableTasks
  <2>2. \A u \in Tasks : Unanswered(u)' => Unanswered(u)
    BY <2>1 DEF Unanswered
  <2>3. QED
    BY <2>1, <2>2, CreditsStay
<1>8. CASE BreakSweep
  <2>1. taskSweep'.left = {} /\ UNCHANGED <<credit, taskDue>>
    BY <1>8, IdleIs DEF BreakSweep
  <2>2. QED
    BY <2>1, CreditsStay DEF Unanswered
<1>9. QED
  BY <1>1, <1>2, <1>3, <1>4, <1>5, <1>6, <1>7, <1>8, SchedulesCases

-----------------------------------------------------------------------------
(* Schedules: the cap *)

(* A step that adds no task and begins no insert.                           *)
LEMMA CountsStay ==
    ASSUME TaskTypes, InsertsCounted, inserting' = inserting, together' = together,
           \A p \in TaskOwners : TasksOf(p)' \subseteq TasksOf(p)
    PROVE  InsertsCounted'
<1> SUFFICES ASSUME NEW p \in TaskOwners \ together
             PROVE  /\ Cardinality(TasksOf(p)') <= TaskCap
                    /\ \A t \in Tasks : inserting[t] # -1 /\ TaskOwner[t] = p =>
                          /\ Cardinality(TasksOf(p)') <= inserting[t]
                          /\ \A u \in Tasks : inserting[u] # -1 /\ TaskOwner[u] = p => u = t
  BY DEF InsertsCounted
<1>1. IsFiniteSet(TasksOf(p)) /\ Cardinality(TasksOf(p)) \in Nat
  BY TasksOfCount DEF TaskTypes
<1>2. TasksOf(p)' \in SUBSET TasksOf(p)
  OBVIOUS
<1>3. Cardinality(TasksOf(p)') <= Cardinality(TasksOf(p)) /\ Cardinality(TasksOf(p)') \in Nat
  BY <1>1, <1>2, FS_Subset, FS_CardinalityType
<1>4. Cardinality(TasksOf(p)') <= TaskCap
  BY <1>1, <1>3, ScheduleNumbers DEF InsertsCounted
<1>5. ASSUME NEW t \in Tasks, inserting[t] # -1, TaskOwner[t] = p
      PROVE  Cardinality(TasksOf(p)') <= inserting[t]
  <2>1. inserting[t] \in Nat /\ Cardinality(TasksOf(p)) <= inserting[t]
    BY <1>5 DEF InsertsCounted, TaskTypes
  <2>2. QED
    BY <1>1, <1>3, <2>1
<1>6. QED
  BY <1>4, <1>5 DEF InsertsCounted

LEMMA InsertsStep ==
    ASSUME TaskTypes, SweepInPlace, InsertsCounted, SchedulesNext
    PROVE  InsertsCounted'
<1>1. ASSUME NEW t \in Tasks, BeginInsert(t)
      PROVE  InsertsCounted'
  <2> DEFINE q == TaskOwner[t]
  <2>1. /\ inserting' = [inserting EXCEPT ![t] = Cardinality(TasksOf(q))]
        /\ inserting[t] = -1 /\ together \subseteq together'
        /\ (\E u \in Tasks : inserting[u] >= 0 /\ TaskOwner[u] = q) => q \in together'
    BY <1>1 DEF BeginInsert
  <2>2. \A p \in TaskOwners : TasksOf(p)' = TasksOf(p)
    BY <1>1 DEF BeginInsert, TasksOf
  <2> SUFFICES ASSUME NEW p \in TaskOwners \ together'
               PROVE  /\ Cardinality(TasksOf(p)) <= TaskCap
                      /\ \A v \in Tasks : inserting'[v] # -1 /\ TaskOwner[v] = p =>
                            /\ Cardinality(TasksOf(p)) <= inserting'[v]
                            /\ \A u \in Tasks : inserting'[u] # -1 /\ TaskOwner[u] = p => u = v
    BY <2>2 DEF InsertsCounted
  <2> HIDE DEF q
  <2>3. \A u \in Tasks : inserting'[u] = IF u = t THEN Cardinality(TasksOf(q)) ELSE inserting[u]
    BY <2>1 DEF TaskTypes
  <2>4. p \notin together
    BY <2>1
  <2>5. CASE p # q
    <3>1. \A u \in Tasks : TaskOwner[u] = p => inserting'[u] = inserting[u]
      BY <2>3, <2>5 DEF q
    <3>2. QED
      BY <2>4, <3>1 DEF InsertsCounted
  <2>6. CASE p = q
    <3>1. \A u \in Tasks : TaskOwner[u] = p => inserting[u] = -1
      BY <2>1, <2>6 DEF TaskTypes
    <3>2. Cardinality(TasksOf(p)) \in Nat /\ Cardinality(TasksOf(p)) <= TaskCap
      BY <2>4, TasksOfCount DEF InsertsCounted, TaskTypes
    <3>3. QED
      BY <2>3, <2>6, <3>1, <3>2
  <2>7. QED
    BY <2>5, <2>6
<1>2. ASSUME NEW t \in Tasks, Insert(t)
      PROVE  InsertsCounted'
  <2> DEFINE q == TaskOwner[t]
  <2>1. /\ inserting' = [inserting EXCEPT ![t] = -1] /\ inserting[t] >= 0 /\ UNCHANGED together
        /\ task' = [task EXCEPT ![t] = IF inserting[t] < TaskCap THEN "active" ELSE "deleted"]
    BY <1>2 DEF Insert
  <2>2. \A p \in TaskOwners : p # q => TasksOf(p)' = TasksOf(p)
    BY <2>1 DEF TasksOf, TaskTypes
  <2>3. IF inserting[t] < TaskCap THEN TasksOf(q)' \subseteq TasksOf(q) \cup {t}
        ELSE TasksOf(q)' \subseteq TasksOf(q)
    BY <2>1 DEF TasksOf, TaskTypes
  <2> SUFFICES ASSUME NEW p \in TaskOwners \ together
               PROVE  /\ Cardinality(TasksOf(p)') <= TaskCap
                      /\ \A v \in Tasks : inserting'[v] # -1 /\ TaskOwner[v] = p =>
                            /\ Cardinality(TasksOf(p)') <= inserting'[v]
                            /\ \A u \in Tasks : inserting'[u] # -1 /\ TaskOwner[u] = p => u = v
    BY <2>1 DEF InsertsCounted
  <2>4. \A u \in Tasks : inserting'[u] = IF u = t THEN -1 ELSE inserting[u]
    BY <2>1 DEF TaskTypes
  <2> HIDE DEF q
  <2>5. CASE p # q
    BY <2>2, <2>4, <2>5 DEF InsertsCounted
  <2>6. CASE p = q
    <3>1. \A u \in Tasks : TaskOwner[u] = p => inserting'[u] = -1
      BY <2>1, <2>4, <2>6 DEF InsertsCounted, q
    <3>2. /\ IsFiniteSet(TasksOf(p)) /\ Cardinality(TasksOf(p)) \in Nat
          /\ Cardinality(TasksOf(p)) <= TaskCap
      BY TasksOfCount DEF InsertsCounted, TaskTypes
    <3>3. inserting[t] \in Nat /\ Cardinality(TasksOf(p)) <= inserting[t]
      BY <2>1, <2>6 DEF InsertsCounted, TaskTypes, q
    <3>4. Cardinality(TasksOf(p)') <= TaskCap
      <4>1. CASE inserting[t] < TaskCap
        <5>1. TasksOf(p)' \in SUBSET (TasksOf(p) \cup {t})
          BY <2>3, <2>6, <4>1
        <5>2. /\ IsFiniteSet(TasksOf(p) \cup {t})
              /\ Cardinality(TasksOf(p) \cup {t}) <= Cardinality(TasksOf(p)) + 1
          <6>1. /\ IsFiniteSet(TasksOf(p) \cup {t})
                /\ Cardinality(TasksOf(p) \cup {t})
                     = IF t \in TasksOf(p) THEN Cardinality(TasksOf(p))
                       ELSE Cardinality(TasksOf(p)) + 1
            BY <3>2, FS_AddElement
          <6>2. QED
            BY <3>2, <6>1
        <5>3. IsFiniteSet(TasksOf(p)') /\ Cardinality(TasksOf(p)') <= Cardinality(TasksOf(p) \cup {t})
          BY <5>1, <5>2, FS_Subset
        <5>4. Cardinality(TasksOf(p)') \in Nat /\ Cardinality(TasksOf(p) \cup {t}) \in Nat
          BY <5>2, <5>3, FS_CardinalityType
        <5>5. QED
          BY <3>2, <3>3, <4>1, <5>2, <5>3, <5>4, ScheduleNumbers
      <4>2. CASE ~(inserting[t] < TaskCap)
        <5>1. TasksOf(p)' \in SUBSET TasksOf(p)
          BY <2>3, <2>6, <4>2
        <5>2. Cardinality(TasksOf(p)') <= Cardinality(TasksOf(p)) /\ IsFiniteSet(TasksOf(p)')
          BY <3>2, <5>1, FS_Subset
        <5>3. Cardinality(TasksOf(p)') \in Nat
          BY <5>2, FS_CardinalityType
        <5>4. QED
          BY <3>2, <5>2, <5>3, ScheduleNumbers
      <4>3. QED
        BY <4>1, <4>2
    <3>5. QED
      BY <3>1, <3>4
  <2>7. QED
    BY <2>5, <2>6
<1>3. CASE ~(\E t \in Tasks : BeginInsert(t) \/ Insert(t))
  <2>1. UNCHANGED <<inserting, together>>
    BY <1>3, RecordCases, SendCases
    DEF SchedulesNext, DeleteTask, IntervalPasses, TaskDoor, TasksOptOut, TaskSweepStep, ClaimTasks,
        AskTask, RecordSilence, SendAnswer, RecordReport, DisableTasks, RecordRefusal, BreakSweep
  <2>2. ASSUME NEW p \in TaskOwners
        PROVE  TasksOf(p)' \subseteq TasksOf(p)
    <3>1. CASE UNCHANGED task
      BY <3>1 DEF TasksOf
    <3>2. ASSUME NEW t \in Tasks, DeleteTask(t)
          PROVE  TasksOf(p)' \subseteq TasksOf(p)
      BY <3>2 DEF DeleteTask, TasksOf, TaskTypes
    <3>3. ASSUME NEW r \in TaskOwners, TasksOptOut(r)
          PROVE  TasksOf(p)' \subseteq TasksOf(p)
      BY <3>3 DEF TasksOptOut, TasksOf
    <3>4. CASE DisableTasks
      BY <3>4 DEF DisableTasks, TasksOf
    <3>5. \/ UNCHANGED task \/ (\E t \in Tasks : DeleteTask(t))
          \/ (\E r \in TaskOwners : TasksOptOut(r)) \/ DisableTasks
      BY <1>3
      DEF SchedulesNext, IntervalPasses, TaskDoor, TaskSweepStep, ClaimTasks,
          AskTask, RecordSilence, SendAnswer, RecordReport, RecordRefusal, BreakSweep
    <3>6. QED
      BY <3>1, <3>2, <3>3, <3>4, <3>5
  <2>3. QED
    BY <2>1, <2>2, CountsStay
<1>4. QED
  BY <1>1, <1>2, <1>3

-----------------------------------------------------------------------------
(* Schedules: the theorem *)

LEMMA SchedulesIInvInit == SchedulesInit => SchedulesIInv
<1> SUFFICES ASSUME SchedulesInit PROVE SchedulesIInv
  OBVIOUS
<1> USE DEF SchedulesInit
<1>1. Written = {}
  BY DEF Written
<1>2. TaskTypes
  BY <1>1, IdleIs, FS_EmptySet DEF TaskTypes, SweepRecord, TaskStates, Outcomes
<1>3. SweepInPlace
  BY <1>1, IdleIs DEF SweepInPlace, AtNoTask
<1>4. CreditsCover
  BY IdleIs DEF CreditsCover, Unanswered
<1>5. \A p : TasksOf(p) = {}
  BY DEF TasksOf
<1>6. InsertsCounted
  BY <1>5, FS_EmptySet, ScheduleNumbers DEF InsertsCounted
<1>7. QED
  BY <1>2, <1>3, <1>4, <1>6 DEF SchedulesIInv

LEMMA SchedulesIInvStep ==
    SchedulesIInv /\ [SchedulesNext]_taskVars => SchedulesIInv'
<1>1. ASSUME SchedulesIInv, SchedulesNext
      PROVE  SchedulesIInv'
  BY <1>1, SchedulesCases, OwnerTypes, SweepTaskTypes, OwnerInPlace, SweepInPlaceStep, CreditsStep,
     InsertsStep DEF SchedulesIInv
<1>2. ASSUME SchedulesIInv, UNCHANGED taskVars
      PROVE  SchedulesIInv'
  BY <1>2 DEF taskVars, SchedulesIInv, TaskTypes, SweepInPlace, CreditsCover, InsertsCounted, Written,
              Unanswered, TasksOf
<1>3. QED
  BY <1>1, <1>2

LEMMA SchedulesGive ==
    SchedulesIInv => SchedulesTypeOK /\ OncePerInterval /\ CapUnlessTogether
<1> SUFFICES ASSUME SchedulesIInv
             PROVE  SchedulesTypeOK /\ OncePerInterval /\ CapUnlessTogether
  OBVIOUS
<1>1. SchedulesTypeOK
  BY DEF SchedulesIInv, TaskTypes, SweepInPlace, SchedulesTypeOK, Outcomes, AtNoTask, Written
<1>2. OncePerInterval
  BY DEF SchedulesIInv, CreditsCover, OncePerInterval
<1>3. CapUnlessTogether
  BY DEF SchedulesIInv, InsertsCounted, CapUnlessTogether
<1>4. QED
  BY <1>1, <1>2, <1>3

(* No interval of a scheduled question is answered twice, whatever stops a  *)
(* sweep and whenever; and only a person who has had two inserts at work    *)
(* together is past the cap (CLAIM_DUE, CREATE_WITHIN_CAP).                 *)
THEOREM SchedulesKeepTheirPromises ==
    SchedulesSpec => [](SchedulesTypeOK /\ OncePerInterval /\ CapUnlessTogether)
BY SchedulesIInvInit, SchedulesIInvStep, SchedulesGive, PTL DEF SchedulesSpec

-----------------------------------------------------------------------------
(* Alerts *)

AlertPlaces == {"idle", "claimed", "checking", "sent", "refused", "stopping"}
Messages == {"out_of_range", "back_in_range", "near_edge", "closed", "health_below",
             "health_recovered", "price_crossed"}
MessagesOf(kind) == CASE kind = "lp" -> {"out_of_range", "back_in_range", "near_edge", "closed"}
                      [] kind = "health" -> {"health_below", "health_recovered"}
                      [] OTHER -> {"price_crossed"}
AtOne == {"sent", "refused", "stopping"}

(* A row of an alert: short of its confirmations, and never of no state.    *)
RowOK(a, row) ==
    /\ row \in AlertRowType /\ row.count < Confirmations[AlertKind[a]]
    /\ (row.count = 0) = (row.pending = None)
    /\ row.id > 0 => row.state # "unknown"
    /\ row.state = "near_edge" => row.edge # NoEdge

ProposalTypes ==
    /\ proposal \in [AlertOwners -> [alert : Alerts \cup {None}, edge : Edges \cup {NoEdge},
                                     state : AlertStates]]
    /\ \A p \in AlertOwners :
          LET a == proposal[p].alert IN
          a # None => \E r \in Readings(AlertKind[a]) :
             /\ r.at # "closed"
             /\ proposal[p].state = Observed(AlertKind[a], "unknown", proposal[p].edge, r)

HistoryTypes ==
    /\ DOMAIN lastTold = Alerts
    /\ \A a \in Alerts : lastTold[a] \in MessagesOf(AlertKind[a]) \cup {None}
    /\ cleared \in [Alerts -> BOOLEAN]
    /\ agreeing \in [Alerts -> [state : AlertStates \cup {None}, n : Nat]]

RowTypes == alertRow \in [Alerts -> AlertRowType] /\ \A a \in Alerts : RowOK(a, alertRow[a])

AlertTypes ==
    /\ DOMAIN watched = Alerts /\ \A a \in Alerts : watched[a] \in Readings(AlertKind[a])
    /\ RowTypes /\ alertDue \subseteq Alerts /\ ProposalTypes /\ HistoryTypes

AlertSweepType ==
    [at : AlertPlaces, left : SUBSET Alerts, taken : [Alerts -> AlertRowType],
     found : [Alerts -> (UNION {Readings(AlertKind[a]) : a \in Alerts}) \cup {Failed}],
     now : Alerts \cup {None}, firing : Messages \cup {None}, refused : SUBSET AlertOwners]

TakenTypes ==
    \A a \in Alerts : /\ alertSweep.found[a] \in Readings(AlertKind[a]) \cup {Failed}
                      /\ RowOK(a, alertSweep.taken[a])
                      /\ alertSweep.taken[a].id <= alertRow[a].id
                      /\ SameRow(a) /\ alertSweep.taken[a].edge # NoEdge
                           => alertRow[a].edge # NoEdge

SweepTypes ==
    /\ alertSweep \in AlertSweepType /\ TakenTypes
    /\ \A a \in alertSweep.left : Active(alertSweep.taken[a])
    /\ alertSweep.at = "idle" => alertSweep.left = {}
    /\ alertSweep.at \in AtOne => /\ alertSweep.now \in alertSweep.left
                                  /\ Decision(alertSweep.now).firing # None

(* What a row says as long as its owner, who was told this, has not been    *)
(* read to be past it.                                                      *)
Holds(told, row) ==
    CASE told \in {"out_of_range", "near_edge"} -> row.state = told
      [] told = "back_in_range"                 -> row.state # "out_of_range"
      [] told = "health_below"                  -> row.state = "below"
      [] told = "health_recovered"              -> row.state # "below"
      [] told = "price_crossed"                 -> row.state = "above"
      [] told = "closed"                        -> row.stopped # None
      [] OTHER                                  -> TRUE

Supported(row, agreed, told, clear) ==
    /\ row.state # "closed"
    /\ row.count > 0 => agreed.state = row.pending /\ agreed.n >= row.count
    /\ ~clear => Holds(told, row)

SameReading(taken, row) ==
    /\ taken.state = row.state /\ taken.edge = row.edge
    /\ taken.pending = row.pending /\ taken.count = row.count

AtWork(a) == alertSweep.at \in AtOne /\ alertSweep.now = a

(* Claimed and not come to yet: the copy says what the row says.            *)
CopyStands(a) ==
    a \in alertSweep.left /\ ~AtWork(a) /\ SameRow(a) /\ a \notin blurred =>
        /\ SameReading(alertSweep.taken[a], alertRow[a])
        /\ Supported(alertSweep.taken[a], agreeing[a], lastTold[a], cleared[a])

RowStands(a) ==
    Active(alertRow[a]) /\ a \notin blurred /\ ~(AtWork(a) /\ SameRow(a)) =>
        Supported(alertRow[a], agreeing[a], lastTold[a], cleared[a])

SentIsTold(a) ==
    alertSweep.at = "sent" /\ alertSweep.now = a /\ SameRow(a) /\ a \notin blurred =>
        lastTold[a] = Decision(a).firing

AlertStands(a) == CopyStands(a) /\ RowStands(a) /\ SentIsTold(a)

AlertsIInv == AlertTypes /\ SweepTypes /\ \A a \in Alerts : AlertStands(a)

(* What a confirmation, or a reading, settles about what holds.             *)
ClearsRow(told, r, edge) ==
    /\ r # Failed
    /\ CASE told = "out_of_range"     -> r.at # "out_of_range"
         [] told = "back_in_range"    -> r.at = "out_of_range"
         [] told = "near_edge"        -> r.at # "in_range" \/ r.n >= edge + EdgeRearm
         [] told = "health_below"     -> r.at = "no_debt" \/ r.n >= Threshold + HealthRearm
         [] told = "health_recovered" -> r.at = "debt" /\ r.n < Threshold
         [] told = "price_crossed"    -> r.n <= Level - PriceRearm
         [] OTHER                     -> FALSE

AgreedAfter(agreed, observed, n) ==
    IF agreed.state = observed THEN [agreed EXCEPT !.n = IF @ < n THEN @ + 1 ELSE @]
    ELSE [state |-> observed, n |-> 1]

-----------------------------------------------------------------------------
(* Alerts: deciding *)

LEMMA AlertNumbers ==
    /\ None \notin Alerts /\ AlertKind \in [Alerts -> {"lp", "health", "price"}]
    /\ Confirmations \in [{"lp", "health", "price"} -> Nat \ {0}]
    /\ EdgeRearm \in Nat /\ HealthRearm \in Nat /\ PriceRearm \in Nat /\ Threshold \in Nat
    /\ Level \in Nat /\ Scale \in Nat /\ Edges \subseteq Nat
    /\ \A a \in Alerts : AlertOwner[a] \in AlertOwners
    /\ \A a \in Alerts : Confirmations[AlertKind[a]] \in Nat \ {0}
BY AlertsAssumption DEF AlertsAssumption, AlertOwners, None

LEMMA StatesAre ==
    /\ None \notin AlertStates /\ None \notin Messages
    /\ "unknown" \in AlertStates
BY DEF AlertStates, None, Messages

LEMMA ReadingsAre ==
    ASSUME NEW a \in Alerts, NEW r \in Readings(AlertKind[a])
    PROVE  /\ r.n \in Nat /\ r # Failed
           /\ AlertKind[a] = "lp" => r.at \in {"in_range", "out_of_range", "closed"}
           /\ AlertKind[a] = "health" => r.at \in {"no_debt", "debt"}
           /\ AlertKind[a] = "price" => r.at = "price"
<1>1. CASE AlertKind[a] = "lp"
  BY <1>1, AlertNumbers DEF Readings, Reading, Failed
<1>2. CASE AlertKind[a] = "health"
  BY <1>2, AlertNumbers DEF Readings, Reading, Failed
<1>3. CASE AlertKind[a] = "price"
  BY <1>3, AlertNumbers DEF Readings, Reading, Failed
<1>4. QED
  BY <1>1, <1>2, <1>3, AlertNumbers

LEMMA ObservedIs ==
    ASSUME NEW a \in Alerts, NEW r \in Readings(AlertKind[a]), NEW state, NEW edge
    PROVE  LET observed == Observed(AlertKind[a], state, edge, r) IN
           /\ AlertKind[a] = "lp" => observed \in {r.at, "near_edge"}
           /\ AlertKind[a] = "lp" => (observed = "closed" <=> r.at = "closed")
           /\ AlertKind[a] = "lp" => (observed = "out_of_range" <=> r.at = "out_of_range")
           /\ AlertKind[a] = "health" => observed \in {"ok", "below", "no_debt"}
           /\ AlertKind[a] = "price" => observed \in {"above", "below"}
           /\ observed \in AlertStates \ {"unknown"}
           /\ observed = "near_edge" => edge # NoEdge
<1>1. CASE AlertKind[a] = "lp"
  BY <1>1, ReadingsAre DEF Observed, LpState, AlertStates
<1>2. CASE AlertKind[a] = "health"
  BY <1>2, ReadingsAre DEF Observed, HealthState, AlertStates
<1>3. CASE AlertKind[a] = "price"
  BY <1>3, ReadingsAre DEF Observed, PriceState, AlertStates
<1>4. QED
  BY <1>1, <1>2, <1>3, AlertNumbers

(* A row that was advanced by what was observed: it is settled there, or it *)
(* counts towards it and stays where it was.                                *)
LEMMA AdvanceIs ==
    ASSUME NEW a \in Alerts, NEW row, RowOK(a, row), NEW observed \in AlertStates \ {"unknown"},
           observed = "near_edge" => row.edge # NoEdge
    PROVE  LET n == Confirmations[AlertKind[a]]
               next == Advance(row, observed, n) IN
           /\ RowOK(a, next) /\ next.id = row.id /\ next.edge = row.edge
           /\ next.stopped = row.stopped
           /\ \/ /\ next.state = observed /\ next.count = 0
                 /\ row.state \in {"unknown", observed} \/ Changes(row, observed, n)
              \/ /\ next.state = row.state /\ next.pending = observed
                 /\ next.count = IF row.pending = observed THEN row.count + 1 ELSE 1
                 /\ row.state \notin {"unknown", observed} /\ ~Changes(row, observed, n)
<1> DEFINE n == Confirmations[AlertKind[a]]
<1>1. n \in Nat \ {0}
  BY AlertNumbers
<1>2. row \in AlertRowType /\ row.count \in Nat
  BY DEF RowOK, AlertRowType
<1> HIDE DEF n
<1>3. CASE row.state \in {"unknown", observed} \/ Changes(row, observed, n)
  <2>1. Advance(row, observed, n) = Settled(row, observed)
    BY <1>3 DEF Advance
  <2>2. /\ Settled(row, observed) \in AlertRowType /\ Settled(row, observed).count = 0
        /\ Settled(row, observed).pending = None /\ Settled(row, observed).state = observed
        /\ Settled(row, observed).id = row.id /\ Settled(row, observed).edge = row.edge
        /\ Settled(row, observed).stopped = row.stopped
    BY <1>2 DEF Settled, AlertRowType
  <2>3. RowOK(a, Settled(row, observed))
    BY <1>1, <2>2 DEF RowOK, n
  <2>4. QED
    BY <1>3, <2>1, <2>2, <2>3 DEF n
<1>4. CASE ~(row.state \in {"unknown", observed} \/ Changes(row, observed, n))
  <2> DEFINE next == [row EXCEPT !.pending = observed, !.count = Pending(row, observed)]
  <2>1. Advance(row, observed, n) = next
    BY <1>4 DEF Advance
  <2>2. Pending(row, observed) \in Nat /\ Pending(row, observed) < n /\ Pending(row, observed) # 0
    BY <1>1, <1>2, <1>4 DEF Pending, Changes
  <2>3. /\ next \in AlertRowType /\ next.count = Pending(row, observed) /\ next.pending = observed
        /\ next.state = row.state /\ next.id = row.id /\ next.edge = row.edge
        /\ next.stopped = row.stopped
    BY <1>2, <2>2 DEF AlertRowType
  <2> HIDE DEF next
  <2>4. RowOK(a, next)
    BY <1>4, <2>2, <2>3, StatesAre DEF RowOK, n
  <2>5. next.count = IF row.pending = observed THEN row.count + 1 ELSE 1
    BY <2>3 DEF Pending
  <2>6. QED
    BY <1>4, <2>1, <2>3, <2>4, <2>5 DEF n
<1>5. QED
  BY <1>3, <1>4

(* What earns which message.                                                *)
Earned(a, row, observed, firing) ==
    \/ /\ AlertKind[a] = "lp"
       /\ \/ firing = "out_of_range" /\ observed = "out_of_range"
          \/ firing = "back_in_range" /\ row.state = "out_of_range" /\ observed # "out_of_range"
          \/ firing = "near_edge" /\ observed = "near_edge"
    \/ /\ AlertKind[a] = "health"
       /\ \/ firing = "health_below" /\ observed = "below"
          \/ firing = "health_recovered" /\ row.state = "below" /\ observed # "below"
    \/ AlertKind[a] = "price" /\ firing = "price_crossed" /\ observed = "above"

LEMMA EvaluateCases ==
    ASSUME NEW a \in Alerts, NEW row, NEW r \in Readings(AlertKind[a]) \cup {Failed}
    PROVE  LET observed == Observed(AlertKind[a], row.state, row.edge, r)
               n == Confirmations[AlertKind[a]]
               next == Advance(row, observed, n)
               after == Evaluate(a, row, r) IN
           \/ r = Failed /\ after.row = row /\ after.firing = None
           \/ /\ r # Failed /\ next.state = "closed" /\ observed = "closed"
              /\ after.row = [next EXCEPT !.stopped = "position_closed"]
              /\ after.firing = "closed"
           \/ /\ r # Failed /\ ~(AlertKind[a] = "lp" /\ next.state = "closed" /\ observed = "closed")
              /\ after.row = next
              /\ \/ after.firing = None
                 \/ Changes(row, observed, n) /\ Earned(a, row, observed, after.firing)
<1> DEFINE observed == Observed(AlertKind[a], row.state, row.edge, r)
           n == Confirmations[AlertKind[a]]
           next == Advance(row, observed, n)
           earned == CASE AlertKind[a] = "lp"     -> LpFiring(a, row, observed)
                       [] AlertKind[a] = "health" -> HealthFiring(a, row, observed)
                       [] OTHER -> IF observed = "above" THEN "price_crossed" ELSE None
<1>1. Evaluate(a, row, r) =
        IF r = Failed THEN [row |-> row, firing |-> None]
        ELSE IF AlertKind[a] = "lp" /\ next.state = "closed" /\ observed = "closed"
             THEN [row |-> [next EXCEPT !.stopped = "position_closed"], firing |-> "closed"]
        ELSE [row |-> next, firing |-> IF Changes(row, observed, n) THEN earned ELSE None]
  BY Zenon DEF Evaluate
<1>2. earned = None \/ Earned(a, row, observed, earned)
  <2> HIDE DEF observed
  <2>1. CASE AlertKind[a] = "lp"
    BY <2>1 DEF LpFiring, Earned
  <2>2. CASE AlertKind[a] = "health"
    BY <2>2 DEF HealthFiring, Earned
  <2>3. CASE AlertKind[a] = "price"
    BY <2>3 DEF Earned
  <2>4. QED
    BY <2>1, <2>2, <2>3, AlertNumbers
<1> HIDE DEF observed, n, next, earned
<1>3. CASE r = Failed
  BY <1>1, <1>3
<1>4. CASE r # Failed /\ AlertKind[a] = "lp" /\ next.state = "closed" /\ observed = "closed"
  BY <1>1, <1>4 DEF observed, n, next
<1>5. CASE r # Failed /\ ~(AlertKind[a] = "lp" /\ next.state = "closed" /\ observed = "closed")
  <2>1. Evaluate(a, row, r).row = next
    BY <1>1, <1>5
  <2>2. Evaluate(a, row, r).firing = IF Changes(row, observed, n) THEN earned ELSE None
    BY <1>1, <1>5
  <2>3. QED
    BY <1>2, <1>5, <2>1, <2>2 DEF observed, n, next
<1>6. QED
  BY <1>3, <1>4, <1>5

(* A decision leaves a row a row, of the same alert.                        *)
LEMMA EvaluateTypes ==
    ASSUME NEW a \in Alerts, NEW row, RowOK(a, row), NEW r \in Readings(AlertKind[a]) \cup {Failed}
    PROVE  LET after == Evaluate(a, row, r) IN
           /\ RowOK(a, after.row) /\ after.row.id = row.id /\ after.row.edge = row.edge
           /\ after.firing \in MessagesOf(AlertKind[a]) \cup {None}
           /\ after.row.stopped \in {row.stopped, "position_closed"}
<1> DEFINE observed == Observed(AlertKind[a], row.state, row.edge, r)
           n == Confirmations[AlertKind[a]]
           next == Advance(row, observed, n)
           after == Evaluate(a, row, r)
<1>1. CASE r = Failed
  <2>1. after.row = row /\ after.firing = None
    BY <1>1, EvaluateCases
  <2>2. QED
    BY <2>1
<1>2. CASE r # Failed
  <2>1. observed \in AlertStates \ {"unknown"} /\ (observed = "near_edge" => row.edge # NoEdge)
    BY <1>2, ObservedIs
  <2>2. RowOK(a, next) /\ next.id = row.id /\ next.edge = row.edge /\ next.stopped = row.stopped
    BY <2>1, AdvanceIs
  <2>3. \/ after.row = next /\ (after.firing = None \/ Earned(a, row, observed, after.firing))
        \/ /\ after.row = [next EXCEPT !.stopped = "position_closed"] /\ after.firing = "closed"
           /\ AlertKind[a] = "lp"
    BY <1>2, EvaluateCases, ObservedIs, AlertNumbers
  <2> HIDE DEF next, after, observed
  <2>4. after.firing \in MessagesOf(AlertKind[a]) \cup {None}
    BY <2>3 DEF Earned, MessagesOf
  <2>5. CASE after.row = [next EXCEPT !.stopped = "position_closed"]
    <3>1. after.row \in AlertRowType /\ after.row.stopped = "position_closed"
      BY <2>2, <2>5 DEF RowOK, AlertRowType
    <3>2. /\ after.row.id = next.id /\ after.row.edge = next.edge /\ after.row.count = next.count
          /\ after.row.pending = next.pending /\ after.row.state = next.state
      BY <2>2, <2>5 DEF RowOK, AlertRowType
    <3>3. QED
      BY <2>2, <2>4, <3>1, <3>2 DEF RowOK, after
  <2>6. CASE after.row = next
    BY <2>2, <2>4, <2>6 DEF after
  <2>7. QED
    BY <2>3, <2>5, <2>6
<1>3. QED
  BY <1>1, <1>2

(* Whatever fires, the row is settled, says what was fired, and is stopped  *)
(* when its position is closed.                                             *)
LEMMA FiringSettles ==
    ASSUME NEW a \in Alerts, NEW row, RowOK(a, row), NEW r \in Readings(AlertKind[a]) \cup {Failed},
           Evaluate(a, row, r).firing # None
    PROVE  LET after == Evaluate(a, row, r) IN
           /\ r # Failed /\ after.row.count = 0 /\ Holds(after.firing, after.row)
           /\ after.row.state = "closed" => after.row.stopped # None
<1> DEFINE observed == Observed(AlertKind[a], row.state, row.edge, r)
           n == Confirmations[AlertKind[a]]
           next == Advance(row, observed, n)
           after == Evaluate(a, row, r)
<1>1. r # Failed
  BY EvaluateCases
<1>2. observed \in AlertStates \ {"unknown"} /\ (observed = "near_edge" => row.edge # NoEdge)
  BY <1>1, ObservedIs
<1>3. /\ next \in AlertRowType
      /\ \/ /\ next.state = observed /\ next.count = 0
            /\ row.state \in {"unknown", observed} \/ Changes(row, observed, n)
         \/ /\ next.state = row.state /\ row.state \notin {"unknown", observed}
            /\ ~Changes(row, observed, n)
  BY <1>2, AdvanceIs DEF RowOK
<1>4. \/ /\ next.state = "closed" /\ observed = "closed" /\ after.firing = "closed"
         /\ after.row = [next EXCEPT !.stopped = "position_closed"]
      \/ /\ ~(AlertKind[a] = "lp" /\ next.state = "closed" /\ observed = "closed")
         /\ after.row = next /\ Changes(row, observed, n) /\ Earned(a, row, observed, after.firing)
  BY <1>1, EvaluateCases
<1>5. observed = "closed" => AlertKind[a] = "lp"
  BY <1>1, ObservedIs, AlertNumbers
<1> HIDE DEF observed, n, next, after
<1>6. CASE after.firing = "closed" /\ after.row = [next EXCEPT !.stopped = "position_closed"]
           /\ next.state = "closed" /\ observed = "closed"
  <2>1. next.count = 0
    BY <1>3, <1>6
  <2>2. after.row.count = 0 /\ after.row.stopped = "position_closed"
    BY <1>3, <1>6, <2>1 DEF AlertRowType
  <2>3. QED
    BY <1>1, <1>6, <2>2 DEF Holds, after, None
<1>7. CASE ~(AlertKind[a] = "lp" /\ next.state = "closed" /\ observed = "closed")
           /\ after.row = next /\ Changes(row, observed, n) /\ Earned(a, row, observed, after.firing)
  <2>1. next.state = observed /\ next.count = 0
    BY <1>3, <1>7
  <2>2. observed # "closed"
    BY <1>5, <1>7, <2>1
  <2>3. Holds(after.firing, after.row)
    BY <1>7, <2>1 DEF Holds, Earned
  <2>4. QED
    BY <1>1, <1>7, <2>1, <2>2, <2>3 DEF after
<1>8. QED
  BY <1>4, <1>6, <1>7

(* A message that is earned is not the one that still holds; and as many    *)
(* reads as its kind asks for agree on it.                                  *)
LEMMA FiringIsNews ==
    ASSUME NEW a \in Alerts, NEW row, RowOK(a, row), row.stopped = None, row.id > 0,
           NEW r \in Readings(AlertKind[a]) \cup {Failed},
           NEW agreed \in [state : AlertStates \cup {None}, n : Nat],
           NEW told \in MessagesOf(AlertKind[a]) \cup {None}, NEW clear \in BOOLEAN,
           Supported(row, agreed, told, clear), Evaluate(a, row, r).firing # None
    PROVE  LET observed == Observed(AlertKind[a], row.state, row.edge, r)
               n == Confirmations[AlertKind[a]] IN
           /\ r # Failed
           /\ Evaluate(a, row, r).firing # told \/ clear
           /\ AgreedAfter(agreed, observed, n).n >= n
<1> DEFINE observed == Observed(AlertKind[a], row.state, row.edge, r)
           n == Confirmations[AlertKind[a]]
           next == Advance(row, observed, n)
           after == Evaluate(a, row, r)
<1>1. r # Failed
  BY EvaluateCases
<1>2. observed \in AlertStates \ {"unknown"} /\ (observed = "near_edge" => row.edge # NoEdge)
  BY <1>1, ObservedIs
<1>3. \/ next.state = observed /\ (row.state \in {"unknown", observed} \/ Changes(row, observed, n))
      \/ next.state = row.state
  BY <1>2, AdvanceIs
<1>4. \/ next.state = "closed" /\ observed = "closed" /\ after.firing = "closed"
      \/ Changes(row, observed, n) /\ Earned(a, row, observed, after.firing)
  BY <1>1, EvaluateCases
<1>5. row.state \notin {"unknown", "closed"}
  BY DEF RowOK, Supported
<1>6. n \in Nat \ {0} /\ row.count \in Nat /\ agreed.n \in Nat
  BY AlertNumbers DEF RowOK, AlertRowType
<1> HIDE DEF observed, n, next, after
<1>7. Changes(row, observed, n)
  BY <1>3, <1>4, <1>5
<1>8. row.state # observed /\ Pending(row, observed) >= n
  BY <1>7 DEF Changes
<1>9. AgreedAfter(agreed, observed, n).n >= n
  <2>1. row.pending # None => row.count > 0
    BY <1>6 DEF RowOK
  <2>2. CASE row.pending = observed
    <3>1. row.count + 1 >= n /\ agreed.state = observed /\ agreed.n >= row.count
      BY <1>2, <1>8, <2>1, <2>2, StatesAre DEF Pending, Supported
    <3>2. AgreedAfter(agreed, observed, n).n = IF agreed.n < n THEN agreed.n + 1 ELSE agreed.n
      BY <3>1 DEF AgreedAfter
    <3>3. QED
      BY <1>6, <3>1, <3>2
  <2>3. CASE row.pending # observed
    <3>1. n = 1
      BY <1>6, <1>8, <2>3 DEF Pending
    <3>2. CASE agreed.state = observed
      <4>1. AgreedAfter(agreed, observed, n).n = IF agreed.n < n THEN agreed.n + 1 ELSE agreed.n
        BY <3>2 DEF AgreedAfter
      <4>2. QED
        BY <1>6, <3>1, <4>1
    <3>3. CASE agreed.state # observed
      BY <3>1, <3>3 DEF AgreedAfter
    <3>4. QED
      BY <3>2, <3>3
  <2>4. QED
    BY <2>2, <2>3
<1>10. ASSUME after.firing = told, ~clear
       PROVE  FALSE
  <2>1. Holds(told, row)
    BY <1>10 DEF Supported
  <2>2. CASE Earned(a, row, observed, told)
    BY <1>8, <2>1, <2>2 DEF Earned, Holds
  <2>3. CASE told = "closed"
    BY <2>1, <2>3 DEF Holds
  <2>4. QED
    BY <1>4, <1>10, <2>2, <2>3
<1>11. QED
  BY <1>1, <1>9, <1>10 DEF observed, n, after

(* A reading that is not past a message is observed as what it said.        *)
LEMMA NotPast ==
    ASSUME NEW a \in Alerts, NEW row, RowOK(a, row), NEW r \in Readings(AlertKind[a]),
           NEW told \in MessagesOf(AlertKind[a]) \cup {None}, told # "closed",
           Holds(told, row), ~ClearsRow(told, r, row.edge),
           NEW next, next.state = Observed(AlertKind[a], row.state, row.edge, r)
    PROVE  Holds(told, next)
<1>1. r # Failed /\ r.n \in Nat
  BY ReadingsAre
<1>2. CASE AlertKind[a] = "lp"
  <2>1. next.state = LpState(row.state, row.edge, r)
    BY <1>2 DEF Observed
  <2>2. CASE told = "out_of_range"
    BY <1>1, <2>1, <2>2 DEF ClearsRow, Holds, LpState
  <2>3. CASE told = "back_in_range"
    BY <1>1, <2>1, <2>3 DEF ClearsRow, Holds, LpState
  <2>4. CASE told = "near_edge"
    <3>1. r.at = "in_range" /\ ~(r.n >= row.edge + EdgeRearm)
      BY <1>1, <2>4 DEF ClearsRow
    <3>2. row.state = "near_edge" /\ row.edge # NoEdge
      BY <2>4 DEF Holds, RowOK
    <3>3. row.edge + EdgeRearm \in Int
      <4>1. row.edge \in Edges \cup {NoEdge}
        BY DEF RowOK, AlertRowType
      <4>2. row.edge \in Nat /\ EdgeRearm \in Nat
        BY <3>2, <4>1, AlertNumbers
      <4>3. QED
        BY <4>2
    <3>4. next.state = "near_edge"
      BY <1>1, <2>1, <3>1, <3>2, <3>3 DEF LpState
    <3>5. QED
      BY <2>4, <3>4 DEF Holds
  <2>5. QED
    BY <1>2, <2>2, <2>3, <2>4 DEF MessagesOf, Holds, None
<1>3. CASE AlertKind[a] = "health"
  <2>1. next.state = HealthState(row.state, r) /\ r.at \in {"no_debt", "debt"}
    BY <1>3, ReadingsAre DEF Observed
  <2>2. CASE told = "health_below"
    BY <1>1, <2>1, <2>2, AlertNumbers DEF ClearsRow, Holds, HealthState
  <2>3. CASE told = "health_recovered"
    BY <1>1, <2>1, <2>3, AlertNumbers DEF ClearsRow, Holds, HealthState
  <2>4. QED
    BY <1>3, <2>2, <2>3 DEF MessagesOf, Holds, None
<1>4. CASE AlertKind[a] = "price"
  <2>1. next.state = PriceState(row.state, r)
    BY <1>4 DEF Observed
  <2>2. CASE told = "price_crossed"
    BY <1>1, <2>1, <2>2, AlertNumbers DEF ClearsRow, Holds, PriceState
  <2>3. QED
    BY <1>4, <2>2 DEF MessagesOf, Holds, None
<1>5. QED
  BY <1>2, <1>3, <1>4, AlertNumbers

(* A quiet check: the row still says what its owner heard, unless the       *)
(* reading was past it.                                                     *)
LEMMA QuietSupports ==
    ASSUME NEW a \in Alerts, NEW row, RowOK(a, row), row.stopped = None, row.id > 0,
           NEW r \in Readings(AlertKind[a]) \cup {Failed},
           NEW agreed \in [state : AlertStates \cup {None}, n : Nat],
           NEW told \in MessagesOf(AlertKind[a]) \cup {None}, NEW clear \in BOOLEAN,
           Supported(row, agreed, told, clear), Evaluate(a, row, r).firing = None
    PROVE  LET observed == Observed(AlertKind[a], row.state, row.edge, r)
               n == Confirmations[AlertKind[a]]
               seen == IF r = Failed THEN agreed ELSE AgreedAfter(agreed, observed, n) IN
           Supported(Evaluate(a, row, r).row, seen, told, clear \/ ClearsRow(told, r, row.edge))
<1> DEFINE observed == Observed(AlertKind[a], row.state, row.edge, r)
           n == Confirmations[AlertKind[a]]
           next == Advance(row, observed, n)
           after == Evaluate(a, row, r)
           cleared2 == clear \/ ClearsRow(told, r, row.edge)
<1>1. CASE r = Failed
  <2>1. after.row = row /\ ~ClearsRow(told, r, row.edge)
    BY <1>1, EvaluateCases DEF ClearsRow
  <2>2. QED
    BY <1>1, <2>1 DEF Supported
<1>2. CASE r # Failed
  <2>1. /\ observed \in AlertStates \ {"unknown"} /\ r \in Readings(AlertKind[a])
        /\ observed = "near_edge" => row.edge # NoEdge
    BY <1>2, ObservedIs
  <2>2. /\ next.stopped = row.stopped
        /\ \/ /\ next.state = observed /\ next.count = 0
              /\ row.state \in {"unknown", observed} \/ Changes(row, observed, n)
           \/ /\ next.state = row.state /\ next.pending = observed
              /\ next.count = IF row.pending = observed THEN row.count + 1 ELSE 1
              /\ row.state \notin {"unknown", observed} /\ ~Changes(row, observed, n)
    BY <2>1, AdvanceIs
  <2>3. after.row = next /\ ~(AlertKind[a] = "lp" /\ next.state = "closed" /\ observed = "closed")
    <3>1. "closed" # None
      BY DEF None
    <3>2. after.firing = None
      OBVIOUS
    <3>3. QED
      BY <1>2, <3>1, <3>2, EvaluateCases, ZenonT(60)
  <2>4. observed = "closed" => AlertKind[a] = "lp"
    BY <2>1, ObservedIs, AlertNumbers
  <2>5. row.state \notin {"unknown", "closed"}
    BY DEF RowOK, Supported
  <2>6. n \in Nat \ {0} /\ row.count \in Nat /\ agreed.n \in Nat /\ row.count < n
    BY AlertNumbers DEF RowOK, AlertRowType
  <2>7. next.state # "closed"
    BY <2>2, <2>3, <2>4, <2>5
  <2>8. ASSUME next.count > 0
        PROVE  LET seen == AgreedAfter(agreed, observed, n) IN
               seen.state = next.pending /\ seen.n >= next.count
    <3> HIDE DEF observed, n
    <3>1. next.pending = observed /\ next.count = IF row.pending = observed THEN row.count + 1 ELSE 1
      BY <2>2, <2>8
    <3> HIDE DEF next
    <3>2. CASE agreed.state = observed
      <4>1. AgreedAfter(agreed, observed, n).n = IF agreed.n < n THEN agreed.n + 1 ELSE agreed.n
        BY <3>2 DEF AgreedAfter
      <4>2. AgreedAfter(agreed, observed, n).state = observed
        BY <3>2 DEF AgreedAfter
      <4>3. row.pending = observed => agreed.n >= row.count
        BY <2>1, <2>6, StatesAre DEF Supported, RowOK
      <4>4. QED
        BY <2>6, <3>1, <4>1, <4>2, <4>3
    <3>3. CASE agreed.state # observed
      <4>1. row.pending # observed
        BY <2>1, <2>6, <3>3, StatesAre DEF Supported, RowOK
      <4>2. QED
        BY <3>1, <3>3, <4>1 DEF AgreedAfter
    <3>4. QED
      BY <3>2, <3>3
  <2>9. ASSUME ~cleared2
        PROVE  Holds(told, next)
    <3>1. Holds(told, row) /\ ~ClearsRow(told, r, row.edge)
      BY <2>9 DEF Supported
    <3>2. CASE next.state = row.state
      BY <2>2, <3>1, <3>2 DEF Holds
    <3>3. CASE next.state = observed /\ row.state # observed
      <4>1. told # "closed"
        BY <3>1 DEF Holds
      <4>2. QED
        BY <2>1, <3>1, <3>3, <4>1, NotPast
    <3>4. QED
      BY <2>2, <3>2, <3>3
  <2>10. QED
    BY <1>2, <2>3, <2>7, <2>8, <2>9 DEF Supported
<1>3. QED
  BY <1>1, <1>2

-----------------------------------------------------------------------------
(* Alerts: types *)

(* What a decision is, of an alert that is claimed.                         *)
LEMMA DecisionIs ==
    ASSUME SweepTypes, NEW a \in Alerts
    PROVE  /\ RowOK(a, Decision(a).row) /\ Decision(a).row.id = alertSweep.taken[a].id
           /\ Decision(a).row.edge = alertSweep.taken[a].edge
           /\ Decision(a).firing \in MessagesOf(AlertKind[a]) \cup {None}
           /\ Decision(a).row.stopped \in {alertSweep.taken[a].stopped, "position_closed"}
BY EvaluateTypes DEF Decision, SweepTypes, TakenTypes

(* What writing a decision leaves in the row as it is now.                  *)
LEMMA RecordedIs ==
    ASSUME AlertTypes, SweepTypes, NEW a \in Alerts, NEW next, RowOK(a, next),
           next.id = alertSweep.taken[a].id, next.edge = alertSweep.taken[a].edge
    PROVE  LET row == Recorded(a, next) IN
           /\ RowOK(a, row) /\ row.id = alertRow[a].id /\ row.edge = alertRow[a].edge
           /\ ~SameRow(a) => row = alertRow[a]
           /\ Active(row) => Active(alertRow[a])
           /\ SameRow(a) /\ Active(row) =>
                /\ row.state = next.state /\ row.pending = next.pending
                /\ row.count = next.count /\ next.stopped = None
<1> DEFINE row == Recorded(a, next)
           was == alertRow[a]
           new == [was EXCEPT !.state = next.state, !.pending = next.pending, !.count = next.count,
                              !.stopped = IF next.stopped = None THEN @ ELSE next.stopped]
<1>1. RowOK(a, was) /\ was \in AlertRowType /\ next \in AlertRowType
  BY DEF AlertTypes, RowTypes, RowOK
<1>2. row = IF was.id # next.id \/ was.stopped = "deleted" THEN was ELSE new
  BY DEF Recorded
<1>3. SameRow(a) <=> was.id = next.id
  BY DEF SameRow
<1>4. SameRow(a) /\ next.edge # NoEdge => was.edge # NoEdge
  BY DEF SweepTypes, TakenTypes
<1>5. /\ new \in AlertRowType /\ new.id = was.id /\ new.edge = was.edge
      /\ new.state = next.state /\ new.pending = next.pending /\ new.count = next.count
      /\ new.stopped = IF next.stopped = None THEN was.stopped ELSE next.stopped
  BY <1>1 DEF AlertRowType
<1> HIDE DEF new, was
<1>6. CASE was.id # next.id \/ was.stopped = "deleted"
  <2>1. row = was
    BY <1>2, <1>6
  <2>2. Active(was) => was.id # next.id
    BY <1>6 DEF Active, None
  <2>3. QED
    BY <1>1, <1>3, <2>1, <2>2 DEF was
<1>7. CASE was.id = next.id /\ was.stopped # "deleted"
  <2>1. row = new
    BY <1>2, <1>7
  <2>2. RowOK(a, new)
    BY <1>3, <1>4, <1>5, <1>7 DEF RowOK
  <2>3. Active(new) => Active(was) /\ next.stopped = None
    BY <1>5 DEF Active
  <2>4. QED
    BY <1>3, <1>5, <1>7, <2>1, <2>2, <2>3 DEF was
<1>8. QED
  BY <1>6, <1>7

LEMMA AgreedIs ==
    ASSUME AlertTypes, SweepTypes, NEW a \in Alerts
    PROVE  /\ Agreed(a) \in [state : AlertStates \cup {None}, n : Nat]
           /\ Agreed(a) = IF alertSweep.found[a] = Failed THEN agreeing[a]
                          ELSE AgreedAfter(agreeing[a], SeenAs(a), Confirmations[AlertKind[a]])
<1>1. Agreed(a) = IF alertSweep.found[a] = Failed THEN agreeing[a]
                  ELSE AgreedAfter(agreeing[a], SeenAs(a), Confirmations[AlertKind[a]])
  BY DEF Agreed, AgreedAfter
<1>2. CASE alertSweep.found[a] = Failed
  BY <1>1, <1>2 DEF AlertTypes, HistoryTypes
<1>3. CASE alertSweep.found[a] # Failed
  <2>1. SeenAs(a) \in AlertStates
    BY <1>3, ObservedIs DEF SeenAs, SweepTypes, TakenTypes
  <2>2. AgreedAfter(agreeing[a], SeenAs(a), Confirmations[AlertKind[a]])
          \in [state : AlertStates \cup {None}, n : Nat]
    <3>1. agreeing[a] \in [state : AlertStates \cup {None}, n : Nat]
      BY DEF AlertTypes, HistoryTypes
    <3>2. QED
      BY <2>1, <3>1 DEF AgreedAfter
  <2>3. QED
    BY <1>1, <1>3, <2>2
<1>4. QED
  BY <1>1, <1>2, <1>3

LEMMA NoRowIs ==
    /\ NoRow \in AlertRowType /\ NoRow.id = 0 /\ NoRow.edge = NoEdge
    /\ \A a \in Alerts : RowOK(a, NoRow)
BY AlertNumbers DEF NoRow, AlertRowType, RowOK, AlertStates, None, NoEdge

LEMMA IdleSweepIs ==
    /\ IdleSweep \in AlertSweepType /\ IdleSweep.at = "idle" /\ IdleSweep.left = {}
    /\ IdleSweep.now = None
    /\ \A a \in Alerts : IdleSweep.taken[a] = NoRow /\ IdleSweep.found[a] = Failed
<1>1. [a \in Alerts |-> NoRow] \in [Alerts -> AlertRowType]
  BY NoRowIs
<1> DEFINE found == (UNION {Readings(AlertKind[a]) : a \in Alerts}) \cup {Failed}
<1>2. Failed \in found
  BY Zenon
<1> HIDE DEF found
<1>3. IdleSweep \in [at : AlertPlaces, left : SUBSET Alerts, taken : [Alerts -> AlertRowType],
                     found : [Alerts -> found], now : Alerts \cup {None},
                     firing : Messages \cup {None}, refused : SUBSET AlertOwners]
  BY <1>1, <1>2 DEF IdleSweep, AlertPlaces
<1>4. IdleSweep \in AlertSweepType
  BY <1>3 DEF AlertSweepType, found
<1>5. QED
  BY <1>4 DEF IdleSweep

(* What is left of a sweep once it is done with an alert.                   *)
LEMMA WithoutIs ==
    ASSUME SweepTypes, NEW a \in alertSweep.left
    PROVE  LET rest == Without(a) IN
           /\ rest \in AlertSweepType /\ rest.at \in {"idle", "checking"} /\ rest.now = None
           /\ rest.left = alertSweep.left \ {a} /\ (rest.at = "idle" => rest.left = {})
           /\ \A b \in Alerts : /\ rest.taken[b] \in {alertSweep.taken[b], NoRow}
                                /\ rest.found[b] \in {alertSweep.found[b], Failed}
           /\ \A b \in rest.left : /\ rest.taken[b] = alertSweep.taken[b]
                                   /\ rest.found[b] = alertSweep.found[b]
<1> DEFINE left == alertSweep.left \ {a}
           rest == Without(a)
           kept == [alertSweep EXCEPT !.at = "checking", !.left = left, !.now = None, !.firing = None,
                                      !.taken[a] = NoRow, !.found[a] = Failed]
<1>1. rest = IF left = {} THEN IdleSweep ELSE kept
  BY DEF Without
<1>2. alertSweep \in AlertSweepType /\ a \in Alerts
  BY DEF SweepTypes, AlertSweepType
<1>3. CASE left = {}
  BY <1>1, <1>2, <1>3, IdleSweepIs
<1>4. CASE left # {}
  <2>1. rest = kept
    BY <1>1, <1>4
  <2>2. /\ kept.at = "checking" /\ kept.left = left /\ kept.now = None
        /\ \A b \in Alerts : /\ kept.taken[b] = IF b = a THEN NoRow ELSE alertSweep.taken[b]
                             /\ kept.found[b] = IF b = a THEN Failed ELSE alertSweep.found[b]
    BY <1>2 DEF AlertSweepType
  <2>3. kept \in AlertSweepType
    <3> DEFINE found == (UNION {Readings(AlertKind[b]) : b \in Alerts}) \cup {Failed}
    <3>1. Failed \in found
      BY Zenon
    <3>3. alertSweep \in [at : AlertPlaces, left : SUBSET Alerts, taken : [Alerts -> AlertRowType],
                          found : [Alerts -> found], now : Alerts \cup {None},
                          firing : Messages \cup {None}, refused : SUBSET AlertOwners]
      BY <1>2 DEF AlertSweepType
    <3> HIDE DEF found
    <3>2. kept \in [at : AlertPlaces, left : SUBSET Alerts, taken : [Alerts -> AlertRowType],
                    found : [Alerts -> found], now : Alerts \cup {None},
                    firing : Messages \cup {None}, refused : SUBSET AlertOwners]
      BY <1>2, <3>1, <3>3, NoRowIs DEF AlertPlaces
    <3>4. QED
      BY <3>2 DEF AlertSweepType, found
  <2> HIDE DEF kept
  <2>4. left \subseteq Alerts
    BY <1>2 DEF AlertSweepType
  <2>5. QED
    BY <2>1, <2>2, <2>3, <2>4
<1>5. QED
  BY <1>3, <1>4

(* Ids only grow, and a row that watches the edge keeps watching it.        *)
RowsGrow ==
    \A a \in Alerts :
        /\ alertRow[a].id <= alertRow'[a].id
        /\ alertRow'[a].id = alertRow[a].id /\ alertRow[a].edge # NoEdge => alertRow'[a].edge # NoEdge

LEMMA RowChange ==
    ASSUME AlertTypes, NEW a \in Alerts, NEW row, RowOK(a, row),
           alertRow' = [alertRow EXCEPT ![a] = row], alertRow[a].id <= row.id,
           row.id = alertRow[a].id /\ alertRow[a].edge # NoEdge => row.edge # NoEdge
    PROVE  RowTypes' /\ RowsGrow
<1>1. /\ alertRow' \in [Alerts -> AlertRowType] /\ alertRow'[a] = row
      /\ \A b \in Alerts \ {a} : alertRow'[b] = alertRow[b]
  BY DEF AlertTypes, RowTypes, RowOK
<1>2. RowTypes'
  BY <1>1 DEF AlertTypes, RowTypes, RowOK
<1>3. \A b \in Alerts : alertRow[b].id \in Nat
  BY DEF AlertTypes, RowTypes, RowOK, AlertRowType
<1>4. RowsGrow
  BY <1>1, <1>3 DEF RowsGrow
<1>5. QED
  BY <1>2, <1>4

(* What a press of Confirm makes of a row.                                  *)
LEMMA CreatedIs ==
    ASSUME AlertTypes, NEW p \in AlertOwners, NEW a \in Alerts, proposal[p].alert = a
    PROVE  LET q == proposal[p]
               row == Created(a, q) IN
           /\ q.state \in AlertStates \ {"unknown", "closed"}
           /\ RowOK(a, row) /\ row.id \in Nat /\ alertRow[a].id \in Nat
           /\ \/ row = alertRow[a]
              \/ /\ row.id = alertRow[a].id + 1 /\ row.state = q.state /\ row.count = 0
                 /\ row.stopped = None
              \/ /\ row.id = alertRow[a].id /\ row.state = q.state /\ row.count = 0
                 /\ row.edge # NoEdge
<1> DEFINE q == proposal[p]
           row == Created(a, q)
           was == alertRow[a]
           fresh == [NoRow EXCEPT !.id = was.id + 1, !.state = q.state, !.edge = q.edge]
           moved == [was EXCEPT !.edge = q.edge, !.state = q.state, !.pending = None, !.count = 0]
<1>1. q.edge \in Edges \cup {NoEdge} /\ a # None
  BY AlertNumbers DEF AlertTypes, ProposalTypes
<1>2. /\ q.state \in AlertStates \ {"unknown", "closed"}
      /\ q.state = "near_edge" => q.edge # NoEdge
  <2>1. PICK r \in Readings(AlertKind[a]) :
           r.at # "closed" /\ q.state = Observed(AlertKind[a], "unknown", q.edge, r)
    BY <1>1 DEF AlertTypes, ProposalTypes
  <2> HIDE DEF q
  <2>2. q.state # "closed"
    BY <2>1, ObservedIs, AlertNumbers
  <2>3. QED
    BY <2>1, <2>2, ObservedIs
<1>3. RowOK(a, was) /\ was \in AlertRowType /\ was.id \in Nat
  BY DEF AlertTypes, RowTypes, RowOK, AlertRowType
<1>4. Confirmations[AlertKind[a]] \in Nat \ {0}
  BY AlertNumbers
<1>5. \/ row = was \/ row = fresh
      \/ row = moved /\ q.edge # NoEdge
  BY DEF Created
<1> HIDE DEF q, was, row
<1>6. /\ RowOK(a, fresh) /\ fresh.id = was.id + 1 /\ fresh.state = q.state /\ fresh.count = 0
      /\ fresh.stopped = None
  <2>1. /\ fresh \in AlertRowType /\ fresh.id = was.id + 1 /\ fresh.state = q.state
        /\ fresh.count = 0 /\ fresh.pending = None /\ fresh.edge = q.edge /\ fresh.stopped = None
    <3>1. NoRow \in AlertRowType
      BY NoRowIs
    <3>2. NoRow.count = 0 /\ NoRow.pending = None /\ NoRow.stopped = None
      BY DEF NoRow
    <3>3. q.state \in AlertStates /\ was.id + 1 \in Nat
      BY <1>2, <1>3
    <3>4. QED
      BY <1>1, <3>1, <3>2, <3>3 DEF AlertRowType
  <2>2. QED
    BY <1>2, <1>4, <2>1 DEF RowOK
<1>7. ASSUME q.edge # NoEdge
      PROVE  /\ RowOK(a, moved) /\ moved.id = was.id /\ moved.state = q.state /\ moved.count = 0
             /\ moved.edge = q.edge
  <2>1. /\ moved \in AlertRowType /\ moved.id = was.id /\ moved.state = q.state
        /\ moved.count = 0 /\ moved.pending = None /\ moved.edge = q.edge
    BY <1>1, <1>2, <1>3 DEF AlertRowType, None
  <2>2. QED
    BY <1>2, <1>4, <1>7, <2>1 DEF RowOK
<1>8. CASE row = was
  BY <1>2, <1>3, <1>8 DEF row, q, was
<1>9. CASE row = fresh
  BY <1>2, <1>3, <1>6, <1>9 DEF row, q, was
<1>10. CASE row = moved /\ q.edge # NoEdge
  BY <1>2, <1>3, <1>7, <1>10 DEF row, q, was
<1>11. QED
  BY <1>5, <1>8, <1>9, <1>10

(* A record of what a sweep decided, by whichever step writes it.           *)
LEMMA RecordTypes ==
    ASSUME AlertTypes, SweepTypes, NEW a \in Alerts, NEW next, RowOK(a, next),
           next.id = alertSweep.taken[a].id, next.edge = alertSweep.taken[a].edge,
           alertRow' = [alertRow EXCEPT ![a] = Recorded(a, next)]
    PROVE  RowTypes' /\ RowsGrow
<1>1. alertRow[a].id \in Nat
  BY DEF AlertTypes, RowTypes, RowOK, AlertRowType
<1> DEFINE row == Recorded(a, next)
<1>2. RowOK(a, row) /\ row.id = alertRow[a].id /\ row.edge = alertRow[a].edge
  BY RecordedIs
<1>3. alertRow[a].id <= row.id
  BY <1>1, <1>2
<1> HIDE DEF row
<1>4. QED
  BY <1>2, <1>3, RowChange DEF row

(* Rows that are stopped.                                                   *)
LEMMA StopTypes ==
    ASSUME AlertTypes, NEW reason \in {"messages_closed", "deleted"}, alertRow' = [b \in Alerts |-> alertRow'[b]],
           \A b \in Alerts : alertRow'[b] \in {alertRow[b], [alertRow[b] EXCEPT !.stopped = reason]}
    PROVE  RowTypes' /\ RowsGrow
<1>1. ASSUME NEW b \in Alerts
      PROVE  /\ RowOK(b, alertRow'[b]) /\ alertRow'[b].id = alertRow[b].id /\ alertRow[b].id \in Nat
             /\ alertRow'[b].edge = alertRow[b].edge
  <2>1. RowOK(b, alertRow[b]) /\ alertRow[b] \in AlertRowType /\ alertRow[b].id \in Nat
    BY DEF AlertTypes, RowTypes, RowOK, AlertRowType
  <2> DEFINE over == [alertRow[b] EXCEPT !.stopped = reason]
  <2>2. /\ over \in AlertRowType /\ over.id = alertRow[b].id /\ over.edge = alertRow[b].edge
        /\ over.state = alertRow[b].state /\ over.count = alertRow[b].count
        /\ over.pending = alertRow[b].pending
    BY <2>1 DEF AlertRowType
  <2> HIDE DEF over
  <2>3. RowOK(b, over)
    BY <2>1, <2>2 DEF RowOK
  <2>4. QED
    BY <2>1, <2>2, <2>3 DEF over
<1>2. RowsGrow
  BY <1>1 DEF RowsGrow
<1>3. RowTypes'
  BY <1>1 DEF RowTypes, RowOK
<1>4. QED
  BY <1>2, <1>3

LEMMA HistoryStep ==
    ASSUME HistoryTypes, NEW a \in Alerts, NEW told \in MessagesOf(AlertKind[a]) \cup {None},
           NEW clear \in BOOLEAN, NEW agreed \in [state : AlertStates \cup {None}, n : Nat],
           lastTold' \in {lastTold, [lastTold EXCEPT ![a] = told]},
           cleared' \in {cleared, [cleared EXCEPT ![a] = clear]},
           agreeing' \in {agreeing, [agreeing EXCEPT ![a] = agreed]}
    PROVE  HistoryTypes'
BY DEF HistoryTypes

LEMMA ShownIs ==
    ASSUME NEW a \in Alerts, NEW state
    PROVE  Shown(AlertKind[a], state) \in MessagesOf(AlertKind[a]) \cup {None}
<1>1. CASE AlertKind[a] = "lp"
  BY <1>1 DEF Shown, MessagesOf
<1>2. CASE AlertKind[a] = "health"
  BY <1>2 DEF Shown, MessagesOf
<1>3. CASE AlertKind[a] = "price"
  BY <1>3 DEF Shown, MessagesOf
<1>4. QED
  BY <1>1, <1>2, <1>3, AlertNumbers

LEMMA AlertTypesStep ==
    ASSUME AlertTypes, SweepTypes, AlertsNext
    PROVE  AlertTypes' /\ RowsGrow
<1>1. ASSUME UNCHANGED alertRow
      PROVE  RowTypes' /\ RowsGrow
  BY <1>1 DEF AlertTypes, RowTypes, RowsGrow, RowOK, AlertRowType
<1>2. ASSUME UNCHANGED AlertHistory
      PROVE  HistoryTypes'
  BY <1>2 DEF AlertTypes, HistoryTypes, AlertHistory
<1>3. ASSUME UNCHANGED proposal
      PROVE  ProposalTypes'
  BY <1>3 DEF AlertTypes, ProposalTypes
<1>4. ASSUME UNCHANGED watched
      PROVE  DOMAIN watched' = Alerts /\ \A a \in Alerts : watched'[a] \in Readings(AlertKind[a])
  BY <1>4 DEF AlertTypes
<1>5. ASSUME NEW a \in Alerts, AlertSwing(a)
      PROVE  AlertTypes' /\ RowsGrow
  BY <1>1, <1>2, <1>3, <1>5 DEF AlertSwing, AlertTypes
<1>6. ASSUME NEW a \in Alerts, AlertTick(a)
      PROVE  AlertTypes' /\ RowsGrow
  BY <1>1, <1>2, <1>3, <1>4, <1>6 DEF AlertTick, AlertTypes
<1>7. ASSUME NEW a \in Alerts, DeleteAlert(a)
      PROVE  AlertTypes' /\ RowsGrow
  <2>1. /\ alertRow' = [b \in Alerts |-> alertRow'[b]]
        /\ \A b \in Alerts :
              alertRow'[b] \in {alertRow[b], [alertRow[b] EXCEPT !.stopped = "deleted"]}
    BY <1>7 DEF DeleteAlert, AlertTypes, RowTypes
  <2>2. RowTypes' /\ RowsGrow
    BY <2>1, StopTypes
  <2>3. QED
    BY <1>2, <1>3, <1>4, <1>7, <2>2 DEF DeleteAlert, AlertTypes
<1>8. ASSUME NEW p \in AlertOwners, AlertDoor(p)
      PROVE  AlertTypes' /\ RowsGrow
  BY <1>1, <1>2, <1>3, <1>4, <1>8 DEF AlertDoor, AlertTypes
<1>9. ASSUME NEW p \in AlertOwners, Confirm(p)
      PROVE  AlertTypes' /\ RowsGrow
  <2> DEFINE a == proposal[p].alert
             row == Created(a, proposal[p])
             told == Shown(AlertKind[a], proposal[p].state)
  <2>1. a \in Alerts
    BY <1>9 DEF Confirm, AlertTypes, ProposalTypes
  <2>2. /\ RowOK(a, row) /\ row.id \in Nat /\ alertRow[a].id \in Nat
        /\ \/ row = alertRow[a]
           \/ row.id = alertRow[a].id + 1
           \/ row.id = alertRow[a].id /\ row.edge # NoEdge
    BY <2>1, CreatedIs
  <2>3. alertRow' = [alertRow EXCEPT ![a] = row]
    BY <1>9 DEF Confirm
  <2>4. alertRow[a].id <= row.id /\ (row.id = alertRow[a].id /\ alertRow[a].edge # NoEdge
                                       => row.edge # NoEdge)
    <3> HIDE DEF row
    <3>1. QED
      BY <2>2
  <2>5. RowTypes' /\ RowsGrow
    <3> HIDE DEF row, a
    <3>1. QED
      BY <2>1, <2>2, <2>3, <2>4, RowChange
  <2>6. ProposalTypes'
    <3>1. proposal' = [proposal EXCEPT ![p] = NoProposal]
      BY <1>9 DEF Confirm
    <3>2. \A s \in AlertOwners : proposal'[s] = IF s = p THEN NoProposal ELSE proposal[s]
      BY <3>1 DEF AlertTypes, ProposalTypes
    <3>3. NoProposal \in [alert : Alerts \cup {None}, edge : Edges \cup {NoEdge}, state : AlertStates]
      BY StatesAre DEF NoProposal
    <3>4. proposal' \in [AlertOwners -> [alert : Alerts \cup {None}, edge : Edges \cup {NoEdge},
                                         state : AlertStates]]
      BY <3>1, <3>3 DEF AlertTypes, ProposalTypes
    <3>5. NoProposal.alert = None
      BY DEF NoProposal
    <3>6. QED
      BY <3>2, <3>4, <3>5 DEF AlertTypes, ProposalTypes
  <2>7. HistoryTypes'
    <3>1. NothingAgrees \in [state : AlertStates \cup {None}, n : Nat]
      BY DEF NothingAgrees
    <3>2. /\ lastTold' \in {lastTold, [lastTold EXCEPT ![a] = told]}
          /\ cleared' \in {cleared, [cleared EXCEPT ![a] = FALSE]}
          /\ agreeing' \in {agreeing, [agreeing EXCEPT ![a] = NothingAgrees]}
      BY <1>9 DEF Confirm, AlertHistory
    <3>3. told \in MessagesOf(AlertKind[a]) \cup {None}
      BY <2>1, ShownIs
    <3>4. HistoryTypes
      BY DEF AlertTypes
    <3> HIDE DEF a, told
    <3>5. QED
      BY <2>1, <3>1, <3>2, <3>3, <3>4, HistoryStep
  <2>8. alertDue' \subseteq Alerts /\ UNCHANGED watched
    BY <1>9 DEF Confirm, AlertTypes
  <2>9. QED
    BY <1>4, <2>5, <2>6, <2>7, <2>8 DEF AlertTypes
<1>10. ASSUME NEW a \in Alerts, NEW edge \in Edges \cup {NoEdge}, Propose(a, edge)
       PROVE  AlertTypes' /\ RowsGrow
  <2> DEFINE q == [alert |-> a, edge |-> edge,
                   state |-> Observed(AlertKind[a], "unknown", edge, watched[a])]
             r == watched[a]
  <2>1. r \in Readings(AlertKind[a]) /\ r.at # "closed" /\ AlertOwner[a] \in AlertOwners
    BY <1>10, AlertNumbers DEF Propose, AlertTypes
  <2>2. Observed(AlertKind[a], "unknown", edge, r) \in AlertStates
    BY <2>1, ObservedIs
  <2>3. q \in [alert : Alerts \cup {None}, edge : Edges \cup {NoEdge}, state : AlertStates]
    BY <2>2
  <2>4. /\ q.alert = a /\ q.edge = edge
        /\ q.state = Observed(AlertKind[a], "unknown", edge, r)
    OBVIOUS
  <2>5. proposal' = [proposal EXCEPT ![AlertOwner[a]] = q]
    BY <1>10 DEF Propose
  <2> HIDE DEF q, r
  <2>6. \A s \in AlertOwners : proposal'[s] = IF s = AlertOwner[a] THEN q ELSE proposal[s]
    BY <2>5 DEF AlertTypes, ProposalTypes
  <2>7. proposal' \in [AlertOwners -> [alert : Alerts \cup {None}, edge : Edges \cup {NoEdge},
                                       state : AlertStates]]
    BY <2>3, <2>5 DEF AlertTypes, ProposalTypes
  <2>8. ProposalTypes'
    BY <2>1, <2>4, <2>6, <2>7 DEF AlertTypes, ProposalTypes
  <2>9. QED
    BY <1>1, <1>2, <1>4, <1>10, <2>8 DEF Propose, AlertTypes
<1>11. CASE ClaimAlerts
  BY <1>1, <1>2, <1>3, <1>4, <1>11 DEF ClaimAlerts, AlertTypes
<1>12. ASSUME NEW bad \in SUBSET Alerts, ReadAlerts(bad)
       PROVE  AlertTypes' /\ RowsGrow
  BY <1>1, <1>2, <1>3, <1>4, <1>12 DEF ReadAlerts, AlertTypes
<1>13. ASSUME NEW a \in Alerts, CheckQuietly(a)
       PROVE  AlertTypes' /\ RowsGrow
  <2>1. RowTypes' /\ RowsGrow
    BY <1>13, DecisionIs, RecordTypes DEF CheckQuietly
  <2>2. HistoryTypes'
    <3>1. HistoryTypes /\ lastTold[a] \in MessagesOf(AlertKind[a]) \cup {None}
      BY DEF AlertTypes, HistoryTypes
    <3>2. /\ lastTold' = lastTold
          /\ agreeing' \in {agreeing, [agreeing EXCEPT ![a] = Agreed(a)]}
      BY <1>13 DEF CheckQuietly
    <3>3. PICK clear \in BOOLEAN : cleared' = [cleared EXCEPT ![a] = clear]
      <4>1. cleared' = [cleared EXCEPT ![a] = cleared[a] \/ Clears(a, lastTold[a], alertSweep.found[a])]
        BY <1>13 DEF CheckQuietly
      <4>2. (cleared[a] \/ Clears(a, lastTold[a], alertSweep.found[a])) \in BOOLEAN
        OBVIOUS
      <4>3. QED
        BY <4>1, <4>2
    <3>4. QED
      BY <3>1, <3>2, <3>3, AgreedIs, HistoryStep
  <2>3. QED
    BY <1>3, <1>4, <1>13, <2>1, <2>2 DEF CheckQuietly, AlertTypes
<1>14. ASSUME NEW a \in Alerts, SkipRefused(a) \/ TellFailed(a) \/ TellRefused(a)
       PROVE  AlertTypes' /\ RowsGrow
  BY <1>1, <1>2, <1>3, <1>4, <1>14 DEF SkipRefused, TellFailed, TellRefused, AlertTypes
<1>15. ASSUME NEW a \in Alerts, TellSent(a)
       PROVE  AlertTypes' /\ RowsGrow
  <2>1. HistoryTypes'
    <3>1. HistoryTypes /\ Decision(a).firing \in MessagesOf(AlertKind[a]) \cup {None}
      BY DecisionIs DEF AlertTypes
    <3>2. /\ lastTold' \in {lastTold, [lastTold EXCEPT ![a] = Decision(a).firing]}
          /\ cleared' \in {cleared, [cleared EXCEPT ![a] = FALSE]}
          /\ agreeing' \in {agreeing, [agreeing EXCEPT ![a] = Agreed(a)]}
      BY <1>15 DEF TellSent
    <3>3. QED
      BY <3>1, <3>2, AgreedIs, HistoryStep
  <2>2. QED
    BY <1>1, <1>3, <1>4, <1>15, <2>1 DEF TellSent, AlertTypes
<1>16. CASE RecordSent
  <2>1. alertSweep.now \in Alerts
    BY <1>16 DEF RecordSent, SweepTypes, AlertSweepType, AtOne
  <2>2. alertRow' = [alertRow EXCEPT ![alertSweep.now]
                        = Recorded(alertSweep.now, Decision(alertSweep.now).row)]
    BY <1>16 DEF RecordSent
  <2>3. RowTypes' /\ RowsGrow
    BY <2>1, <2>2, DecisionIs, RecordTypes
  <2>4. QED
    BY <1>2, <1>3, <1>4, <1>16, <2>3 DEF RecordSent, AlertTypes
<1>17. CASE RecordRefused
  <2> DEFINE a == alertSweep.now
             next == [Decision(a).row EXCEPT !.stopped = None]
  <2>1. a \in Alerts
    BY <1>17 DEF RecordRefused, SweepTypes, AlertSweepType, AtOne
  <2>2. alertRow' = [alertRow EXCEPT ![a] = Recorded(a, next)]
    BY <1>17 DEF RecordRefused
  <2>3. /\ RowOK(a, Decision(a).row) /\ Decision(a).row.id = alertSweep.taken[a].id
        /\ Decision(a).row.edge = alertSweep.taken[a].edge
    BY <2>1, DecisionIs
  <2>4. RowOK(a, next) /\ next.id = alertSweep.taken[a].id /\ next.edge = alertSweep.taken[a].edge
    <3> DEFINE row == Decision(a).row
    <3> HIDE DEF a, row
    <3>1. QED
      BY <2>3 DEF RowOK, AlertRowType, row
  <2> HIDE DEF next, a
  <2>5. RowTypes' /\ RowsGrow
    BY <2>1, <2>2, <2>4, RecordTypes
  <2>6. QED
    BY <1>2, <1>3, <1>4, <1>17, <2>5 DEF RecordRefused, AlertTypes
<1>18. CASE StopAll
  <2>1. /\ alertRow' = [b \in Alerts |-> alertRow'[b]]
        /\ \A b \in Alerts :
              alertRow'[b] \in {alertRow[b], [alertRow[b] EXCEPT !.stopped = "messages_closed"]}
    BY <1>18 DEF StopAll
  <2>2. RowTypes' /\ RowsGrow
    BY <2>1, StopTypes
  <2>3. QED
    BY <1>2, <1>3, <1>4, <1>18, <2>2 DEF StopAll, AlertTypes
<1>19. CASE AbandonSweep
  <2>1. HistoryTypes'
    BY <1>19 DEF AbandonSweep, AlertTypes, HistoryTypes
  <2>2. QED
    BY <1>1, <1>3, <1>4, <1>19, <2>1 DEF AbandonSweep, AlertTypes
<1>20. QED
  BY <1>5, <1>6, <1>7, <1>8, <1>9, <1>10, <1>11, <1>12, <1>13, <1>14, <1>15, <1>16, <1>17, <1>18, <1>19
  DEF AlertsNext, SweepStep

-----------------------------------------------------------------------------
(* Alerts: the sweep *)

LEMMA TakenStep ==
    ASSUME AlertTypes, SweepTypes, RowsGrow, AlertTypes',
           \A b \in Alerts : /\ alertSweep'.taken[b] \in {alertSweep.taken[b], NoRow}
                             /\ alertSweep'.found[b] \in {alertSweep.found[b], Failed}
    PROVE  TakenTypes'
<1> SUFFICES ASSUME NEW b \in Alerts
             PROVE  /\ alertSweep'.found[b] \in Readings(AlertKind[b]) \cup {Failed}
                    /\ RowOK(b, alertSweep'.taken[b])
                    /\ alertSweep'.taken[b].id <= alertRow'[b].id
                    /\ SameRow(b)' /\ alertSweep'.taken[b].edge # NoEdge
                         => alertRow'[b].edge # NoEdge
  BY DEF TakenTypes, RowOK
<1>1. /\ alertSweep.found[b] \in Readings(AlertKind[b]) \cup {Failed}
      /\ RowOK(b, alertSweep.taken[b]) /\ alertSweep.taken[b].id \in Nat
      /\ alertSweep.taken[b].id <= alertRow[b].id
      /\ SameRow(b) /\ alertSweep.taken[b].edge # NoEdge => alertRow[b].edge # NoEdge
  BY DEF SweepTypes, TakenTypes, RowOK, AlertRowType
<1>2. alertRow[b].id \in Nat /\ alertRow'[b].id \in Nat
  BY DEF AlertTypes, RowTypes, RowOK, AlertRowType
<1>3. /\ alertRow[b].id <= alertRow'[b].id
      /\ alertRow'[b].id = alertRow[b].id /\ alertRow[b].edge # NoEdge => alertRow'[b].edge # NoEdge
  BY DEF RowsGrow
<1>4. CASE alertSweep'.taken[b] = NoRow
  BY <1>1, <1>2, <1>4, NoRowIs
<1>5. CASE alertSweep'.taken[b] = alertSweep.taken[b]
  <2>1. alertSweep'.taken[b].id <= alertRow'[b].id
    BY <1>1, <1>2, <1>3, <1>5
  <2>2. ASSUME SameRow(b)', alertSweep'.taken[b].edge # NoEdge
        PROVE  alertRow'[b].edge # NoEdge
    <3>1. alertRow'[b].id = alertSweep.taken[b].id
      BY <1>5, <2>2 DEF SameRow
    <3>2. alertRow[b].id = alertRow'[b].id /\ SameRow(b)
      BY <1>1, <1>2, <1>3, <3>1 DEF SameRow
    <3>3. QED
      BY <1>1, <1>3, <1>5, <2>2, <3>2
  <2>3. QED
    BY <1>1, <1>5, <2>1, <2>2
<1>6. QED
  BY <1>4, <1>5

LEMMA SweepKept ==
    ASSUME AlertTypes, SweepTypes, RowsGrow, AlertTypes', UNCHANGED alertSweep
    PROVE  SweepTypes'
<1>1. TakenTypes'
  BY TakenStep
<1>2. QED
  BY <1>1 DEF SweepTypes, Decision, Active

LEMMA SweepLeaves ==
    ASSUME AlertTypes, SweepTypes, RowsGrow, AlertTypes', NEW a \in alertSweep.left,
           NEW refused \in SUBSET AlertOwners,
           alertSweep' = Without(a) \/ alertSweep' = [Without(a) EXCEPT !.refused = refused]
    PROVE  SweepTypes'
<1>1. /\ Without(a) \in AlertSweepType /\ Without(a).at \in {"idle", "checking"}
      /\ Without(a).left = alertSweep.left \ {a} /\ (Without(a).at = "idle" => Without(a).left = {})
      /\ \A b \in Alerts : /\ Without(a).taken[b] \in {alertSweep.taken[b], NoRow}
                           /\ Without(a).found[b] \in {alertSweep.found[b], Failed}
      /\ \A b \in Without(a).left : Without(a).taken[b] = alertSweep.taken[b]
  BY WithoutIs
<1> DEFINE rest == Without(a)
<1> HIDE DEF rest
<1>2. /\ alertSweep' \in AlertSweepType
      /\ alertSweep'.at = rest.at /\ alertSweep'.left = rest.left /\ alertSweep'.taken = rest.taken
      /\ alertSweep'.found = rest.found
  <2>1. rest \in AlertSweepType /\ (alertSweep' = rest \/ alertSweep' = [rest EXCEPT !.refused = refused])
    BY <1>1 DEF rest
  <2> DEFINE found == (UNION {Readings(AlertKind[b]) : b \in Alerts}) \cup {Failed}
  <2> HIDE DEF found
  <2>2. AlertSweepType = [at : AlertPlaces, left : SUBSET Alerts, taken : [Alerts -> AlertRowType],
                          found : [Alerts -> found], now : Alerts \cup {None},
                          firing : Messages \cup {None}, refused : SUBSET AlertOwners]
    BY Zenon DEF AlertSweepType, found
  <2>3. QED
    BY <2>1, <2>2
<1>3. TakenTypes'
  BY <1>1, <1>2, TakenStep DEF rest
<1>4. \A b \in alertSweep'.left : Active(alertSweep'.taken[b])
  BY <1>1, <1>2 DEF rest, SweepTypes
<1>5. alertSweep'.at \notin AtOne
  BY <1>1, <1>2 DEF rest, AtOne
<1>6. QED
  BY <1>1, <1>2, <1>3, <1>4, <1>5 DEF rest, SweepTypes, Active

(* A sweep that stays with an alert, or comes to one.                       *)
LEMMA SweepAt ==
    ASSUME AlertTypes, SweepTypes, RowsGrow, AlertTypes', NEW a \in alertSweep.left,
           Decision(a).firing # None, NEW firing \in Messages \cup {None}, NEW place \in AtOne,
           alertSweep' = [alertSweep EXCEPT !.at = place, !.now = a, !.firing = firing]
    PROVE  SweepTypes'
<1>1. alertSweep \in AlertSweepType /\ a \in Alerts
  BY DEF SweepTypes, AlertSweepType
<1>2. /\ alertSweep' \in AlertSweepType
      /\ alertSweep'.at = place /\ alertSweep'.left = alertSweep.left /\ alertSweep'.now = a
      /\ alertSweep'.taken = alertSweep.taken /\ alertSweep'.found = alertSweep.found
  <2> DEFINE found == (UNION {Readings(AlertKind[b]) : b \in Alerts}) \cup {Failed}
  <2> HIDE DEF found
  <2>1. AlertSweepType = [at : AlertPlaces, left : SUBSET Alerts, taken : [Alerts -> AlertRowType],
                          found : [Alerts -> found], now : Alerts \cup {None},
                          firing : Messages \cup {None}, refused : SUBSET AlertOwners]
    BY Zenon DEF AlertSweepType, found
  <2>2. place \in AlertPlaces
    BY DEF AtOne, AlertPlaces
  <2>3. QED
    BY <1>1, <2>1, <2>2
<1>3. TakenTypes'
  BY <1>2, TakenStep
<1>4. Decision(alertSweep.now)' = Decision(a)
  BY <1>2 DEF Decision
<1>5. place # "idle"
  BY DEF AtOne
<1>6. QED
  BY <1>2, <1>3, <1>4, <1>5 DEF SweepTypes, Active

LEMMA SweepTypesStep ==
    ASSUME AlertTypes, SweepTypes, AlertsNext
    PROVE  SweepTypes'
<1>1. AlertTypes' /\ RowsGrow
  BY AlertTypesStep
<1>2. \A a \in Alerts : Decision(a).firing \in Messages \cup {None}
  BY DecisionIs DEF MessagesOf, Messages
<1>3. ASSUME UNCHANGED alertSweep
      PROVE  SweepTypes'
  BY <1>1, <1>3, SweepKept
<1>4. CASE ClaimAlerts
  <2> DEFINE due == {a \in alertDue : Active(alertRow[a])}
             taken == [a \in Alerts |-> IF a \in due THEN alertRow[a] ELSE NoRow]
  <2>1. alertSweep' = [IdleSweep EXCEPT !.at = "claimed", !.left = due, !.taken = taken]
    BY <1>4 DEF ClaimAlerts
  <2>2. due \subseteq Alerts /\ UNCHANGED alertRow
    BY <1>4 DEF ClaimAlerts, AlertTypes
  <2>3. \A a \in Alerts : RowOK(a, alertRow[a])
    BY DEF AlertTypes, RowTypes
  <2>4. taken \in [Alerts -> AlertRowType]
    BY <2>3, NoRowIs DEF RowOK
  <2>5. \A a \in Alerts : taken[a] = IF a \in due THEN alertRow[a] ELSE NoRow
    OBVIOUS
  <2>6. \A a \in due : Active(alertRow[a])
    OBVIOUS
  <2> HIDE DEF due, taken
  <2>7. /\ alertSweep' \in AlertSweepType
        /\ alertSweep'.at = "claimed" /\ alertSweep'.left = due /\ alertSweep'.taken = taken
        /\ alertSweep'.found = IdleSweep.found
    <3> DEFINE found == (UNION {Readings(AlertKind[b]) : b \in Alerts}) \cup {Failed}
    <3> HIDE DEF found
    <3>1. AlertSweepType = [at : AlertPlaces, left : SUBSET Alerts, taken : [Alerts -> AlertRowType],
                            found : [Alerts -> found], now : Alerts \cup {None},
                            firing : Messages \cup {None}, refused : SUBSET AlertOwners]
      BY Zenon DEF AlertSweepType, found
    <3>2. IdleSweep \in AlertSweepType /\ "claimed" \in AlertPlaces
      BY IdleSweepIs DEF AlertPlaces
    <3>3. QED
      BY <2>1, <2>2, <2>4, <3>1, <3>2
  <2>8. TakenTypes'
    <3> SUFFICES ASSUME NEW a \in Alerts
                 PROVE  /\ alertSweep'.found[a] \in Readings(AlertKind[a]) \cup {Failed}
                        /\ RowOK(a, alertSweep'.taken[a])
                        /\ alertSweep'.taken[a].id <= alertRow'[a].id
                        /\ alertSweep'.taken[a].edge # NoEdge => alertRow'[a].edge # NoEdge
      BY DEF TakenTypes, RowOK, SameRow
    <3>1. alertSweep'.found[a] = Failed
      BY <2>7, IdleSweepIs
    <3>2. alertSweep'.taken[a] \in {alertRow[a], NoRow}
      BY <2>5, <2>7
    <3>3. alertRow[a].id \in Nat
      BY <2>3 DEF RowOK, AlertRowType
    <3>4. QED
      BY <2>2, <2>3, <3>1, <3>2, <3>3, NoRowIs
  <2>9. \A a \in alertSweep'.left : Active(alertSweep'.taken[a])
    BY <2>2, <2>5, <2>6, <2>7
  <2>10. alertSweep'.at \notin AtOne /\ alertSweep'.at # "idle"
    BY <2>7 DEF AtOne
  <2>11. QED
    BY <2>7, <2>8, <2>9, <2>10 DEF SweepTypes, Active
<1>5. ASSUME NEW bad \in SUBSET Alerts, ReadAlerts(bad)
      PROVE  SweepTypes'
  <2> DEFINE read == [a \in Alerts |-> IF a \in alertSweep.left \ bad THEN watched[a] ELSE Failed]
             found == (UNION {Readings(AlertKind[b]) : b \in Alerts}) \cup {Failed}
  <2>1. alertSweep' = [alertSweep EXCEPT !.at = "checking", !.found = read]
    BY <1>5 DEF ReadAlerts
  <2>2. \A a \in Alerts : read[a] \in Readings(AlertKind[a]) \cup {Failed}
    BY DEF AlertTypes
  <2>3. read \in [Alerts -> found]
    <3>1. \A a \in Alerts : read[a] \in found
      <4> HIDE DEF read
      <4>1. QED
        BY <2>2
    <3> HIDE DEF found
    <3>2. QED
      BY <3>1
  <2> HIDE DEF read, found
  <2>4. /\ alertSweep' \in AlertSweepType /\ alertSweep'.at = "checking"
        /\ alertSweep'.left = alertSweep.left /\ alertSweep'.taken = alertSweep.taken
        /\ alertSweep'.found = read
    <3>1. AlertSweepType = [at : AlertPlaces, left : SUBSET Alerts, taken : [Alerts -> AlertRowType],
                            found : [Alerts -> found], now : Alerts \cup {None},
                            firing : Messages \cup {None}, refused : SUBSET AlertOwners]
      BY Zenon DEF AlertSweepType, found
    <3>2. alertSweep \in AlertSweepType /\ "checking" \in AlertPlaces
      BY DEF SweepTypes, AlertPlaces
    <3>3. QED
      BY <2>1, <2>3, <3>1, <3>2
  <2>5. UNCHANGED alertRow
    BY <1>5 DEF ReadAlerts
  <2>6. TakenTypes'
    BY <2>2, <2>4, <2>5 DEF SweepTypes, TakenTypes, SameRow, RowOK
  <2>7. alertSweep'.at \notin AtOne
    BY <2>4 DEF AtOne
  <2>8. QED
    BY <2>4, <2>6, <2>7 DEF SweepTypes, Active
<1>6. ASSUME NEW a \in Alerts, CheckQuietly(a) \/ SkipRefused(a) \/ TellFailed(a)
      PROVE  SweepTypes'
  <2>1. a \in alertSweep.left /\ alertSweep' = Without(a)
    BY <1>6 DEF CheckQuietly, SkipRefused, TellFailed, Attempts
  <2>2. QED
    BY <1>1, <2>1, SweepLeaves
<1>7. ASSUME NEW a \in Alerts, TellSent(a)
      PROVE  SweepTypes'
  <2>1. /\ a \in alertSweep.left /\ Decision(a).firing # None /\ "sent" \in AtOne
        /\ alertSweep' = [alertSweep EXCEPT !.at = "sent", !.now = a, !.firing = Decision(a).firing]
    BY <1>7 DEF TellSent, Attempts, AtOne
  <2>2. QED
    BY <1>1, <1>2, <2>1, SweepAt
<1>8. ASSUME NEW a \in Alerts, TellRefused(a)
      PROVE  SweepTypes'
  <2>1. /\ a \in alertSweep.left /\ Decision(a).firing # None /\ "refused" \in AtOne
        /\ alertSweep' = [alertSweep EXCEPT !.at = "refused", !.now = a]
    BY <1>8 DEF TellRefused, Attempts, AtOne
  <2>2. alertSweep.firing \in Messages \cup {None}
    BY DEF SweepTypes, AlertSweepType
  <2>3. alertSweep' = [alertSweep EXCEPT !.at = "refused", !.now = a, !.firing = alertSweep.firing]
    BY <2>1 DEF SweepTypes, AlertSweepType
  <2>4. QED
    BY <1>1, <2>1, <2>2, <2>3, SweepAt
<1>9. CASE RecordSent
  <2>1. alertSweep.now \in alertSweep.left /\ alertSweep' = Without(alertSweep.now)
    BY <1>9 DEF RecordSent, SweepTypes, AtOne
  <2>2. QED
    BY <1>1, <2>1, SweepLeaves
<1>10. CASE RecordRefused
  <2>1. /\ alertSweep.now \in alertSweep.left /\ Decision(alertSweep.now).firing # None
        /\ "stopping" \in AtOne /\ alertSweep' = [alertSweep EXCEPT !.at = "stopping"]
    BY <1>10 DEF RecordRefused, SweepTypes, AtOne
  <2>2. alertSweep.firing \in Messages \cup {None}
    BY DEF SweepTypes, AlertSweepType
  <2>3. alertSweep' = [alertSweep EXCEPT !.at = "stopping", !.now = alertSweep.now,
                                         !.firing = alertSweep.firing]
    BY <2>1 DEF SweepTypes, AlertSweepType
  <2>4. QED
    BY <1>1, <2>1, <2>2, <2>3, SweepAt
<1>11. CASE StopAll
  <2> DEFINE a == alertSweep.now
             refused == Without(a).refused \cup {AlertOwner[a]}
  <2>1. a \in alertSweep.left /\ a \in Alerts
    BY <1>11 DEF StopAll, SweepTypes, AlertSweepType, AtOne
  <2>2. alertSweep' = Without(a) \/ alertSweep' = [Without(a) EXCEPT !.refused = refused]
    BY <1>11 DEF StopAll
  <2>3. refused \in SUBSET AlertOwners
    <3>1. Without(a).refused \subseteq AlertOwners
      <4>1. Without(a) \in AlertSweepType
        BY <2>1, WithoutIs
      <4> DEFINE rest == Without(a)
      <4> HIDE DEF rest
      <4>2. rest.refused \subseteq AlertOwners
        BY <4>1 DEF AlertSweepType, rest
      <4>3. QED
        BY <4>2 DEF rest
    <3>2. QED
      BY <2>1, <3>1, AlertNumbers
  <2> HIDE DEF a, refused
  <2>4. QED
    BY <1>1, <2>1, <2>2, <2>3, SweepLeaves
<1>12. CASE AbandonSweep
  <2>1. alertSweep' = IdleSweep
    BY <1>12 DEF AbandonSweep
  <2>2. TakenTypes'
    BY <1>1, <2>1, IdleSweepIs, TakenStep
  <2>3. "idle" \notin AtOne
    BY DEF AtOne
  <2>4. QED
    BY <2>1, <2>2, <2>3, IdleSweepIs DEF SweepTypes
<1>13. QED
  BY <1>3, <1>4, <1>5, <1>6, <1>7, <1>8, <1>9, <1>10, <1>11, <1>12
  DEF AlertsNext, SweepStep, AlertSwing, AlertTick, DeleteAlert, AlertDoor, Confirm, Propose

-----------------------------------------------------------------------------
(* Alerts: what rows and copies stand for *)

(* A step that leaves an alert's row, its copy and what is known of it      *)
(* alone, or stops the row.                                                 *)
LEMMA StandsFramed ==
    ASSUME NEW b \in Alerts, AlertStands(b),
           alertRow'[b].id = alertRow[b].id, SameReading(alertRow[b], alertRow'[b]),
           alertRow'[b] = alertRow[b] \/ alertRow'[b].stopped # None,
           lastTold'[b] = lastTold[b], agreeing'[b] = agreeing[b], cleared[b] => cleared'[b],
           b \in blurred => b \in blurred',
           AtWork(b) => AtWork(b)',
           b \in alertSweep'.left \/ AtWork(b) =>
              (b \in alertSweep.left \/ AtWork(b)) /\ alertSweep'.taken[b] = alertSweep.taken[b],
           b \in alertSweep'.left => b \in alertSweep.left,
           alertSweep'.at = "sent" /\ alertSweep'.now = b =>
              /\ alertSweep.at = "sent" /\ alertSweep.now = b
              /\ alertSweep'.found[b] = alertSweep.found[b]
    PROVE  AlertStands(b)'
<1>1. CopyStands(b)'
  <2> SUFFICES ASSUME b \in alertSweep'.left, ~AtWork(b)', SameRow(b)', b \notin blurred'
               PROVE  /\ SameReading(alertSweep'.taken[b], alertRow'[b])
                      /\ Supported(alertSweep'.taken[b], agreeing'[b], lastTold'[b], cleared'[b])
    BY DEF CopyStands, SameReading, Supported, Holds
  <2>1. SameRow(b) /\ alertSweep'.taken[b] = alertSweep.taken[b]
    BY DEF SameRow
  <2>2. /\ SameReading(alertSweep.taken[b], alertRow[b])
        /\ Supported(alertSweep.taken[b], agreeing[b], lastTold[b], cleared[b])
    BY <2>1 DEF AlertStands, CopyStands
  <2>3. QED
    BY <2>1, <2>2 DEF SameReading, Supported
<1>2. RowStands(b)'
  <2> SUFFICES ASSUME Active(alertRow'[b]), b \notin blurred', ~(AtWork(b)' /\ SameRow(b)')
               PROVE  Supported(alertRow'[b], agreeing'[b], lastTold'[b], cleared'[b])
    BY DEF RowStands, Active, Supported, Holds
  <2>1. alertRow'[b] = alertRow[b]
    BY DEF Active
  <2>2. ~(AtWork(b) /\ SameRow(b))
    BY DEF SameRow
  <2>3. Supported(alertRow[b], agreeing[b], lastTold[b], cleared[b])
    BY <2>1, <2>2 DEF AlertStands, RowStands
  <2>4. QED
    BY <2>1, <2>3 DEF Supported
<1>3. SentIsTold(b)'
  <2> SUFFICES ASSUME alertSweep'.at = "sent", alertSweep'.now = b, SameRow(b)', b \notin blurred'
               PROVE  lastTold'[b] = (Decision(b).firing)'
    BY DEF SentIsTold
  <2>1. AtWork(b)
    BY DEF AtWork, AtOne
  <2>2. alertSweep'.taken[b] = alertSweep.taken[b] /\ SameRow(b)
    BY <2>1 DEF SameRow
  <2>3. Decision(b)' = Decision(b)
    BY <2>2 DEF Decision
  <2>4. QED
    BY <2>2, <2>3 DEF AlertStands, SentIsTold
<1>4. QED
  BY <1>1, <1>2, <1>3 DEF AlertStands

SameHistory(b) ==
    /\ lastTold'[b] = lastTold[b] /\ agreeing'[b] = agreeing[b]
    /\ cleared[b] => cleared'[b]
    /\ b \in blurred => b \in blurred'

(* Done with an alert, as far as the others are concerned, and as far as it *)
(* is itself when nothing is written.                                       *)
LEMMA LeavingFrames ==
    ASSUME SweepTypes, NEW a \in alertSweep.left, NEW b \in Alerts, AlertStands(b), ~AtWork(b),
           alertSweep'.at = Without(a).at, alertSweep'.left = Without(a).left,
           alertSweep'.taken = Without(a).taken, alertRow'[b].id = alertRow[b].id,
           SameReading(alertRow[b], alertRow'[b]),
           alertRow'[b] = alertRow[b] \/ alertRow'[b].stopped # None, SameHistory(b)
    PROVE  AlertStands(b)'
<1>1. /\ alertSweep'.at \in {"idle", "checking"} /\ alertSweep'.left \subseteq alertSweep.left
      /\ \A c \in alertSweep'.left : alertSweep'.taken[c] = alertSweep.taken[c]
  BY WithoutIs
<1>2. alertSweep'.at # "sent"
  BY <1>1
<1>3. QED
  <2>1. /\ b \in alertSweep'.left \/ AtWork(b) =>
             (b \in alertSweep.left \/ AtWork(b)) /\ alertSweep'.taken[b] = alertSweep.taken[b]
        /\ b \in alertSweep'.left => b \in alertSweep.left
    BY <1>1
  <2>2. /\ lastTold'[b] = lastTold[b] /\ agreeing'[b] = agreeing[b]
        /\ (cleared[b] => cleared'[b]) /\ (b \in blurred => b \in blurred')
    BY DEF SameHistory
  <2>3. (AtWork(b) => AtWork(b)') /\ ~(alertSweep'.at = "sent" /\ alertSweep'.now = b)
    BY <1>2
  <2>4. QED
    BY <2>1, <2>2, <2>3, StandsFramed

(* Done with an alert: what its row stands for from there on.               *)
LEMMA LeavingStands ==
    ASSUME SweepTypes, NEW a \in alertSweep.left,
           alertSweep'.at = Without(a).at, alertSweep'.left = Without(a).left,
           Active(alertRow'[a]) /\ a \notin blurred' =>
              Supported(alertRow'[a], agreeing'[a], lastTold'[a], cleared'[a])
    PROVE  AlertStands(a)'
<1>1. alertSweep'.at \in {"idle", "checking"} /\ a \notin alertSweep'.left
  BY WithoutIs
<1>2. alertSweep'.at # "sent"
  BY <1>1
<1>3. CopyStands(a)' /\ SentIsTold(a)'
  BY <1>1, <1>2 DEF CopyStands, SentIsTold
<1>4. RowStands(a)'
  BY DEF RowStands, Active, Supported, Holds
<1>5. QED
  BY <1>3, <1>4 DEF AlertStands

LEMMA QuietStands ==
    ASSUME AlertTypes, SweepTypes, \A b \in Alerts : AlertStands(b),
           NEW a \in Alerts, CheckQuietly(a)
    PROVE  \A b \in Alerts : AlertStands(b)'
<1>1. /\ a \in alertSweep.left /\ alertSweep.at = "checking" /\ alertSweep' = Without(a)
      /\ Decision(a).firing = None /\ UNCHANGED <<lastTold, blurred>>
      /\ alertRow' = [alertRow EXCEPT ![a] = Recorded(a, Decision(a).row)]
      /\ cleared' = [cleared EXCEPT ![a] = @ \/ Clears(a, lastTold[a], alertSweep.found[a])]
      /\ agreeing' = IF SameRow(a) THEN [agreeing EXCEPT ![a] = Agreed(a)] ELSE agreeing
  BY DEF CheckQuietly
<1>2. \A b \in Alerts : ~AtWork(b)
  BY <1>1 DEF AtWork, AtOne
<1>3. /\ DOMAIN alertRow = Alerts /\ cleared \in [Alerts -> BOOLEAN] /\ DOMAIN agreeing = Alerts
      /\ lastTold[a] \in MessagesOf(AlertKind[a]) \cup {None}
      /\ agreeing[a] \in [state : AlertStates \cup {None}, n : Nat]
  BY DEF AlertTypes, RowTypes, HistoryTypes
<1>4. ASSUME NEW b \in Alerts, b # a
      PROVE  AlertStands(b)'
  <2>1. alertRow'[b] = alertRow[b] /\ SameHistory(b)
    BY <1>1, <1>3, <1>4 DEF SameHistory
  <2>2. QED
    BY <1>1, <1>2, <2>1, LeavingFrames DEF SameReading
<1>5. alertRow'[a] = Recorded(a, Decision(a).row)
  BY <1>1, <1>3
<1>6. /\ ~SameRow(a) => alertRow'[a] = alertRow[a]
      /\ SameRow(a) /\ Active(alertRow'[a]) =>
           /\ alertRow'[a].state = Decision(a).row.state
           /\ alertRow'[a].pending = Decision(a).row.pending
           /\ alertRow'[a].count = Decision(a).row.count /\ Decision(a).row.stopped = None
  BY <1>5, DecisionIs, RecordedIs
<1>7. CASE ~SameRow(a)
  <2>1. cleared[a] => cleared'[a]
    BY <1>1, <1>3
  <2>2. alertRow'[a] = alertRow[a] /\ SameHistory(a)
    BY <1>1, <1>6, <1>7, <2>1 DEF SameHistory
  <2>3. AlertStands(a)'
    BY <1>1, <1>2, <2>2, LeavingFrames DEF SameReading
  <2>4. QED
    BY <1>4, <2>3
<1>8. CASE SameRow(a)
  <2> DEFINE row == alertSweep.taken[a]
             r == alertSweep.found[a]
             seen == IF r = Failed THEN agreeing[a]
                     ELSE AgreedAfter(agreeing[a], Observed(AlertKind[a], row.state, row.edge, r),
                                      Confirmations[AlertKind[a]])
             past == cleared[a] \/ ClearsRow(lastTold[a], r, row.edge)
  <2>1. SUFFICES ASSUME Active(alertRow'[a]), a \notin blurred'
                 PROVE  Supported(alertRow'[a], agreeing'[a], lastTold'[a], cleared'[a])
    BY <1>1, <1>4, LeavingStands
  <2>2. /\ SameReading(row, alertRow[a])
        /\ Supported(row, agreeing[a], lastTold[a], cleared[a])
    BY <1>1, <1>2, <1>8, <2>1 DEF AlertStands, CopyStands
  <2>3. RowOK(a, row) /\ row.stopped = None /\ row.id > 0 /\ r \in Readings(AlertKind[a]) \cup {Failed}
    BY <1>1 DEF SweepTypes, TakenTypes, Active
  <2>4. Decision(a) = Evaluate(a, row, r)
    BY DEF Decision
  <2>5. cleared[a] \in BOOLEAN
    BY <1>3
  <2>6. Supported(Evaluate(a, row, r).row, seen, lastTold[a], past)
    <3> HIDE DEF row, r
    <3>1. Evaluate(a, row, r).firing = None
      BY <1>1, <2>4
    <3>2. QED
      BY <1>3, <2>2, <2>3, <2>5, <3>1, QuietSupports
  <2>7. agreeing'[a] = seen
    BY <1>1, <1>3, <1>8, AgreedIs DEF SeenAs
  <2>8. cleared'[a] = past
    <3>1. Clears(a, lastTold[a], r) = ClearsRow(lastTold[a], r, alertRow[a].edge)
      BY DEF Clears, ClearsRow
    <3>2. row.edge = alertRow[a].edge
      BY <2>2 DEF SameReading
    <3>3. cleared'[a] = (cleared[a] \/ Clears(a, lastTold[a], r))
      BY <1>1, <1>3
    <3> HIDE DEF row, r
    <3>4. QED
      BY <3>1, <3>2, <3>3
  <2> HIDE DEF seen, past, row, r
  <2>9. lastTold[a] = "closed" /\ ~past => FALSE
    BY <1>6, <1>8, <2>1, <2>4, <2>6 DEF Supported, Holds
  <2>10. QED
    BY <1>1, <1>6, <1>8, <2>1, <2>4, <2>6, <2>7, <2>8, <2>9 DEF Supported, Holds
<1>9. QED
  BY <1>7, <1>8

(* The message arrives: from here on the owner has heard it.                *)
LEMMA SentStands ==
    ASSUME AlertTypes, SweepTypes, \A b \in Alerts : AlertStands(b),
           NEW a \in Alerts, TellSent(a)
    PROVE  \A b \in Alerts : AlertStands(b)'
<1>1. /\ a \in alertSweep.left /\ alertSweep.at = "checking"
      /\ alertSweep' = [alertSweep EXCEPT !.at = "sent", !.now = a, !.firing = Decision(a).firing]
      /\ UNCHANGED <<alertRow, blurred>>
      /\ lastTold' = IF SameRow(a) THEN [lastTold EXCEPT ![a] = Decision(a).firing] ELSE lastTold
      /\ cleared' = IF SameRow(a) THEN [cleared EXCEPT ![a] = FALSE] ELSE cleared
      /\ agreeing' = IF SameRow(a) THEN [agreeing EXCEPT ![a] = Agreed(a)] ELSE agreeing
  BY DEF TellSent, Attempts
<1>2. /\ \A b \in Alerts : ~AtWork(b)
      /\ DOMAIN lastTold = Alerts /\ DOMAIN agreeing = Alerts /\ DOMAIN cleared = Alerts
  BY <1>1 DEF AtWork, AtOne, AlertTypes, HistoryTypes
<1>3. /\ alertSweep'.at = "sent" /\ alertSweep'.now = a /\ alertSweep'.left = alertSweep.left
      /\ alertSweep'.taken = alertSweep.taken /\ alertSweep'.found = alertSweep.found
  BY <1>1 DEF SweepTypes, AlertSweepType
<1>4. ASSUME NEW b \in Alerts, b # a
      PROVE  AlertStands(b)'
  <2>1. lastTold'[b] = lastTold[b] /\ agreeing'[b] = agreeing[b] /\ cleared'[b] = cleared[b]
    BY <1>1, <1>2, <1>4
  <2>2. QED
    BY <1>1, <1>2, <1>3, <1>4, <2>1, StandsFramed DEF SameReading
<1>5. AlertStands(a)'
  <2>1. AtWork(a)' /\ (SameRow(a)' <=> SameRow(a))
    BY <1>1, <1>3 DEF AtWork, AtOne, SameRow
  <2>2. CopyStands(a)'
    BY <2>1 DEF CopyStands
  <2>3. RowStands(a)'
    <3>1. CASE SameRow(a)
      BY <2>1, <3>1 DEF RowStands
    <3>2. CASE ~SameRow(a)
      BY <1>1, <1>2, <3>2 DEF AlertStands, RowStands, Active, Supported, Holds
    <3>3. QED
      BY <3>1, <3>2
  <2>4. SentIsTold(a)'
    <3>1. CASE SameRow(a)
      <4>1. lastTold'[a] = Decision(a).firing
        BY <1>1, <1>2, <3>1
      <4>2. Decision(a)' = Decision(a)
        BY <1>3 DEF Decision
      <4>3. QED
        BY <4>1, <4>2 DEF SentIsTold
    <3>2. CASE ~SameRow(a)
      BY <2>1, <3>2 DEF SentIsTold
    <3>3. QED
      BY <3>1, <3>2
  <2>5. QED
    BY <2>2, <2>3, <2>4 DEF AlertStands
<1>6. QED
  BY <1>4, <1>5

(* Nothing is written: a check that is skipped, or a message that is not    *)
(* delivered.                                                               *)
LEMMA LostStands ==
    ASSUME AlertTypes, SweepTypes, \A b \in Alerts : AlertStands(b),
           NEW a \in Alerts, SkipRefused(a) \/ TellFailed(a) \/ TellRefused(a)
    PROVE  \A b \in Alerts : AlertStands(b)'
<1>1. /\ a \in alertSweep.left /\ alertSweep.at = "checking"
      /\ UNCHANGED <<alertRow, AlertHistory>>
      /\ \/ alertSweep' = Without(a)
         \/ alertSweep' = [alertSweep EXCEPT !.at = "refused", !.now = a]
  BY DEF SkipRefused, TellFailed, TellRefused, Attempts
<1>2. \A b \in Alerts : ~AtWork(b) /\ SameHistory(b)
  BY <1>1 DEF AtWork, AtOne, SameHistory, AlertHistory
<1>3. CASE alertSweep' = Without(a)
  BY <1>1, <1>2, <1>3, LeavingFrames DEF SameReading
<1>4. CASE alertSweep' = [alertSweep EXCEPT !.at = "refused", !.now = a]
  <2>1. /\ alertSweep'.at = "refused" /\ alertSweep'.left = alertSweep.left
        /\ alertSweep'.taken = alertSweep.taken
    BY <1>4 DEF SweepTypes, AlertSweepType
  <2>2. QED
    BY <1>1, <1>2, <2>1, StandsFramed DEF SameReading, SameHistory
<1>5. QED
  BY <1>1, <1>3, <1>4

(* The record of a message: the row says what was sent.                     *)
LEMMA RecordStands ==
    ASSUME AlertTypes, SweepTypes, \A b \in Alerts : AlertStands(b), RecordSent
    PROVE  \A b \in Alerts : AlertStands(b)'
<1> DEFINE a == alertSweep.now
           after == Decision(a)
<1>1. /\ a \in alertSweep.left /\ a \in Alerts /\ alertSweep.at = "sent" /\ alertSweep' = Without(a)
      /\ after.firing # None /\ UNCHANGED AlertHistory
      /\ alertRow' = [alertRow EXCEPT ![a] = Recorded(a, after.row)]
  BY DEF RecordSent, SweepTypes, AlertSweepType, AtOne
<1>2. DOMAIN alertRow = Alerts
  BY DEF AlertTypes, RowTypes
<1>3. ASSUME NEW b \in Alerts, b # a
      PROVE  AlertStands(b)'
  <2>1. ~AtWork(b)
    BY <1>3 DEF AtWork
  <2>2. alertRow'[b] = alertRow[b] /\ SameHistory(b)
    BY <1>1, <1>2, <1>3 DEF SameHistory, AlertHistory
  <2>3. QED
    BY <1>1, <2>1, <2>2, LeavingFrames DEF SameReading
<1>4. SUFFICES ASSUME Active(alertRow'[a]), a \notin blurred'
               PROVE  Supported(alertRow'[a], agreeing'[a], lastTold'[a], cleared'[a])
  BY <1>1, <1>3, LeavingStands
<1>5. a \notin blurred /\ lastTold' = lastTold /\ agreeing' = agreeing /\ cleared' = cleared
  BY <1>1, <1>4 DEF AlertHistory
<1>6. alertRow'[a] = Recorded(a, after.row)
  BY <1>1, <1>2
<1>7. /\ ~SameRow(a) => alertRow'[a] = alertRow[a]
      /\ SameRow(a) /\ Active(alertRow'[a]) =>
           /\ alertRow'[a].state = after.row.state /\ alertRow'[a].pending = after.row.pending
           /\ alertRow'[a].count = after.row.count /\ after.row.stopped = None
  BY <1>1, <1>6, DecisionIs, RecordedIs
<1>8. CASE ~SameRow(a)
  BY <1>1, <1>4, <1>5, <1>7, <1>8 DEF AlertStands, RowStands, Supported
<1>9. CASE SameRow(a)
  <2>1. lastTold[a] = after.firing
    BY <1>1, <1>5, <1>9 DEF AlertStands, SentIsTold
  <2>2. /\ after.row.count = 0 /\ Holds(after.firing, after.row)
        /\ after.row.state = "closed" => after.row.stopped # None
    BY <1>1, FiringSettles DEF Decision, SweepTypes, TakenTypes
  <2> HIDE DEF a, after
  <2>3. Holds(after.firing, alertRow'[a])
    BY <1>4, <1>7, <1>9, <2>2 DEF Holds
  <2>4. alertRow'[a].state # "closed" /\ alertRow'[a].count = 0
    BY <1>4, <1>7, <1>9, <2>2
  <2>5. QED
    BY <1>5, <2>1, <2>3, <2>4 DEF Supported
<1>10. QED
  BY <1>8, <1>9

(* A refusal: the reading is written, and then every alert of the person is *)
(* stopped.                                                                 *)
LEMMA RefusalStands ==
    ASSUME AlertTypes, SweepTypes, \A b \in Alerts : AlertStands(b), RecordRefused
    PROVE  \A b \in Alerts : AlertStands(b)'
<1>0. PICK a \in Alerts : a = alertSweep.now
  BY DEF RecordRefused, SweepTypes, AlertSweepType, AtOne
<1> DEFINE next == [Decision(a).row EXCEPT !.stopped = None]
<1>1. /\ a \in alertSweep.left /\ alertSweep.at = "refused"
      /\ alertSweep' = [alertSweep EXCEPT !.at = "stopping"] /\ UNCHANGED AlertHistory
      /\ alertRow' = [alertRow EXCEPT ![a] = Recorded(a, next)]
  BY <1>0 DEF RecordRefused, SweepTypes, AlertSweepType, AtOne
<1>2. DOMAIN alertRow = Alerts
  BY DEF AlertTypes, RowTypes
<1>3. /\ alertSweep'.at = "stopping" /\ alertSweep'.now = a /\ alertSweep'.left = alertSweep.left
      /\ alertSweep'.taken = alertSweep.taken
  BY <1>0, <1>1 DEF SweepTypes, AlertSweepType
<1>4. \A b \in Alerts : SameHistory(b) /\ (AtWork(b) => AtWork(b)')
  BY <1>1, <1>3 DEF SameHistory, AlertHistory, AtWork, AtOne
<1>5. ASSUME NEW b \in Alerts, alertRow'[b] = alertRow[b]
      PROVE  AlertStands(b)'
  BY <1>3, <1>4, <1>5, StandsFramed DEF SameReading, SameHistory
<1>6. AlertStands(a)'
  <2>1. AtWork(a) /\ AtWork(a)'
    BY <1>0, <1>1, <1>4 DEF AtWork, AtOne
  <2>2. alertRow'[a] = Recorded(a, next) /\ next.id = alertSweep.taken[a].id
    <3>1. /\ RowOK(a, Decision(a).row) /\ Decision(a).row.id = alertSweep.taken[a].id
      BY <1>1, DecisionIs
    <3>2. next.id = Decision(a).row.id
      BY <3>1 DEF RowOK, AlertRowType
    <3>3. QED
      BY <1>1, <1>2, <3>1, <3>2
  <2> HIDE DEF next
  <2>3. CASE ~SameRow(a)
    <3>1. alertRow'[a] = alertRow[a]
      BY <2>2, <2>3 DEF Recorded, SameRow
    <3>2. QED
      BY <1>1, <1>5, <3>1
  <2>4. CASE SameRow(a)
    <3>1. alertRow'[a].id = alertRow[a].id
      <4>1. alertRow[a] \in AlertRowType
        BY <1>1 DEF AlertTypes, RowTypes, RowOK
      <4>2. QED
        BY <2>2, <4>1 DEF Recorded, AlertRowType
    <3>2. SameRow(a)'
      BY <1>3, <2>4, <3>1 DEF SameRow
    <3>3. CopyStands(a)' /\ RowStands(a)' /\ SentIsTold(a)'
      BY <1>3, <2>1, <3>2 DEF CopyStands, RowStands, SentIsTold
    <3>4. QED
      BY <3>3 DEF AlertStands
  <2>5. QED
    BY <2>3, <2>4
<1>7. ASSUME NEW b \in Alerts, b # a
      PROVE  AlertStands(b)'
  BY <1>1, <1>2, <1>5, <1>7
<1>8. QED
  BY <1>6, <1>7

LEMMA StopStands ==
    ASSUME AlertTypes, SweepTypes, \A b \in Alerts : AlertStands(b), StopAll
    PROVE  \A b \in Alerts : AlertStands(b)'
<1>1. PICK a \in Alerts : a = alertSweep.now
  BY DEF StopAll, SweepTypes, AlertSweepType, AtOne
<1> DEFINE over(b) == [alertRow[b] EXCEPT !.stopped = "messages_closed"]
<1>2. /\ a \in alertSweep.left /\ alertSweep.at = "stopping" /\ UNCHANGED AlertHistory
      /\ alertRow' = [b \in Alerts |-> IF b \in ActiveOf(AlertOwner[a]) THEN over(b) ELSE alertRow[b]]
      /\ \/ alertSweep' = Without(a)
         \/ \E refused : alertSweep' = [Without(a) EXCEPT !.refused = refused]
  BY <1>1 DEF StopAll, SweepTypes, AlertSweepType, AtOne
<1>3. /\ alertSweep'.at = Without(a).at /\ alertSweep'.left = Without(a).left
      /\ alertSweep'.taken = Without(a).taken
  <2>1. Without(a) \in AlertSweepType
    BY <1>2, WithoutIs
  <2> DEFINE rest == Without(a)
  <2> HIDE DEF rest
  <2>2. rest \in AlertSweepType /\ (alertSweep' = rest
                                      \/ \E refused : alertSweep' = [rest EXCEPT !.refused = refused])
    BY <1>2, <2>1 DEF rest
  <2>3. QED
    BY <2>2 DEF rest, AlertSweepType
<1>4. ASSUME NEW b \in Alerts
      PROVE  /\ alertRow'[b] \in {alertRow[b], over(b)} /\ SameHistory(b)
             /\ over(b).id = alertRow[b].id /\ over(b).stopped # None
             /\ SameReading(alertRow[b], over(b))
             /\ b \in ActiveOf(AlertOwner[a]) => alertRow'[b] = over(b)
  <2>1. alertRow[b] \in AlertRowType
    BY DEF AlertTypes, RowTypes, RowOK
  <2>2. over(b).id = alertRow[b].id /\ over(b).stopped # None /\ SameReading(alertRow[b], over(b))
    BY <2>1 DEF AlertRowType, SameReading, None
  <2>3. QED
    BY <1>2, <2>2 DEF SameHistory, AlertHistory
<1> HIDE DEF over
<1>5. ASSUME NEW b \in Alerts, b # a
      PROVE  AlertStands(b)'
  <2>1. ~AtWork(b)
    BY <1>1, <1>5 DEF AtWork
  <2>2. QED
    BY <1>2, <1>3, <1>4, <2>1, LeavingFrames DEF SameReading
<1>6. ~Active(alertRow'[a])
  <2>1. CASE Active(alertRow[a])
    <3>1. a \in ActiveOf(AlertOwner[a])
      BY <2>1 DEF ActiveOf
    <3>2. QED
      BY <1>4, <3>1 DEF Active
  <2>2. CASE ~Active(alertRow[a])
    BY <1>4, <2>2 DEF Active
  <2>3. QED
    BY <2>1, <2>2
<1>7. AlertStands(a)'
  BY <1>2, <1>3, <1>6, LeavingStands
<1>8. QED
  BY <1>5, <1>7

(* The process stops with a message or its record half way: what the row    *)
(* says may not be what the owner heard.                                    *)
LEMMA AbandonStands ==
    ASSUME AlertTypes, SweepTypes, \A b \in Alerts : AlertStands(b), AbandonSweep
    PROVE  \A b \in Alerts : AlertStands(b)'
<1>1. /\ alertSweep' = IdleSweep /\ UNCHANGED <<alertRow, lastTold, cleared, agreeing>>
      /\ blurred' = IF alertSweep.at \in AtOne THEN blurred \cup {alertSweep.now} ELSE blurred
  BY DEF AbandonSweep, AtOne
<1>2. alertSweep'.at = "idle" /\ alertSweep'.left = {}
  BY <1>1, IdleSweepIs
<1>3. ASSUME NEW b \in Alerts
      PROVE  AlertStands(b)'
  <2>1. CASE AtWork(b)
    <3>1. b \in blurred'
      BY <1>1, <2>1 DEF AtWork
    <3>2. QED
      BY <3>1 DEF AlertStands, CopyStands, RowStands, SentIsTold
  <2>2. CASE ~AtWork(b)
    <3>1. b \in blurred => b \in blurred'
      BY <1>1
    <3>2. ~(alertSweep'.at = "sent" /\ alertSweep'.now = b) /\ b \notin alertSweep'.left
      BY <1>2
    <3>3. QED
      BY <1>1, <2>2, <3>1, <3>2, StandsFramed DEF SameReading
  <2>3. QED
    BY <2>1, <2>2
<1>4. QED
  BY <1>3

LEMMA ClaimStands ==
    ASSUME AlertTypes, SweepTypes, \A b \in Alerts : AlertStands(b), ClaimAlerts
    PROVE  \A b \in Alerts : AlertStands(b)'
<1> DEFINE due == {a \in alertDue : Active(alertRow[a])}
           taken == [a \in Alerts |-> IF a \in due THEN alertRow[a] ELSE NoRow]
<1>1. /\ alertSweep.at = "idle" /\ UNCHANGED <<alertRow, AlertHistory>>
      /\ alertSweep' = [IdleSweep EXCEPT !.at = "claimed", !.left = due, !.taken = taken]
  BY DEF ClaimAlerts
<1>2. \A b \in due : taken[b] = alertRow[b] /\ Active(alertRow[b])
  BY DEF AlertTypes
<1> HIDE DEF due, taken
<1>3. alertSweep'.at = "claimed" /\ alertSweep'.left = due /\ alertSweep'.taken = taken
  BY <1>1, IdleSweepIs DEF AlertSweepType
<1>4. UNCHANGED <<lastTold, cleared, agreeing, blurred>>
  BY <1>1 DEF AlertHistory
<1>5. ASSUME NEW b \in Alerts
      PROVE  AlertStands(b)'
  <2>1. ~AtWork(b) /\ ~(AtWork(b)') /\ SentIsTold(b)'
    BY <1>1, <1>3 DEF AtWork, AtOne, SentIsTold
  <2>2. ASSUME Active(alertRow[b]), b \notin blurred
        PROVE  Supported(alertRow[b], agreeing[b], lastTold[b], cleared[b])
    BY <2>1, <2>2 DEF AlertStands, RowStands
  <2>3. RowStands(b)'
    BY <1>1, <1>4, <2>2 DEF RowStands, Supported, Active, Holds
  <2>4. CopyStands(b)'
    <3> SUFFICES ASSUME b \in due, b \notin blurred
                 PROVE  /\ SameReading(taken[b], alertRow[b])
                        /\ Supported(taken[b], agreeing[b], lastTold[b], cleared[b])
      BY <1>1, <1>3, <1>4 DEF CopyStands, SameReading, Supported, Holds
    <3>1. QED
      BY <1>2, <2>2 DEF SameReading
  <2>5. QED
    BY <2>1, <2>3, <2>4 DEF AlertStands
<1>6. QED
  BY <1>5

(* A press of Confirm shows how things stand, and a sweep that holds the    *)
(* row may write over it.                                                   *)
LEMMA ConfirmStands ==
    ASSUME AlertTypes, SweepTypes, \A b \in Alerts : AlertStands(b),
           NEW p \in AlertOwners, Confirm(p)
    PROVE  \A b \in Alerts : AlertStands(b)'
<1>1. PICK a \in Alerts : a = proposal[p].alert
  BY DEF Confirm, AlertTypes, ProposalTypes
<1> DEFINE q == proposal[p]
           row == Created(a, q)
<1>2. /\ alertRow' = [alertRow EXCEPT ![a] = row] /\ UNCHANGED alertSweep
      /\ IF alertRow'[a] = alertRow[a]
         THEN UNCHANGED AlertHistory
         ELSE /\ lastTold' = [lastTold EXCEPT ![a] = Shown(AlertKind[a], q.state)]
              /\ cleared' = [cleared EXCEPT ![a] = FALSE]
              /\ agreeing' = [agreeing EXCEPT ![a] = NothingAgrees]
              /\ blurred' = IF alertRow'[a].id # alertRow[a].id THEN blurred \ {a}
                            ELSE IF HeldBySweep(a) THEN blurred \cup {a} ELSE blurred
  BY <1>1 DEF Confirm
<1>3. /\ q.state \in AlertStates \ {"unknown", "closed"} /\ row.id \in Nat /\ alertRow[a].id \in Nat
      /\ \/ row = alertRow[a]
         \/ row.id = alertRow[a].id + 1 /\ row.state = q.state /\ row.count = 0 /\ row.stopped = None
         \/ row.id = alertRow[a].id /\ row.state = q.state /\ row.count = 0
  BY <1>1, CreatedIs
<1>4. /\ DOMAIN alertRow = Alerts /\ DOMAIN lastTold = Alerts /\ DOMAIN cleared = Alerts
      /\ DOMAIN agreeing = Alerts
  BY DEF AlertTypes, RowTypes, HistoryTypes
<1> HIDE DEF q, row
<1>5. alertRow'[a] = row /\ \A b \in Alerts \ {a} : alertRow'[b] = alertRow[b]
  BY <1>2, <1>4
<1>6. ASSUME NEW b \in Alerts, alertRow'[b] = alertRow[b], SameHistory(b)
      PROVE  AlertStands(b)'
  <2>1. (AtWork(b) => AtWork(b)') /\ alertSweep' = alertSweep
    BY <1>2 DEF AtWork
  <2>2. QED
    BY <1>6, <2>1, StandsFramed DEF SameReading, SameHistory
<1>7. ASSUME NEW b \in Alerts, b # a
      PROVE  AlertStands(b)'
  <2>1. SameHistory(b)
    <3>1. CASE alertRow'[a] = alertRow[a]
      BY <1>2, <3>1 DEF SameHistory, AlertHistory
    <3>2. CASE alertRow'[a] # alertRow[a]
      BY <1>2, <1>4, <1>7, <3>2 DEF SameHistory
    <3>3. QED
      BY <3>1, <3>2
  <2>2. QED
    BY <1>5, <1>6, <1>7, <2>1
<1>8. CASE row = alertRow[a]
  BY <1>2, <1>5, <1>6, <1>7, <1>8 DEF SameHistory, AlertHistory
<1>9. CASE row # alertRow[a]
  <2>1. /\ lastTold'[a] = Shown(AlertKind[a], q.state) /\ cleared'[a] = FALSE
        /\ agreeing'[a] = NothingAgrees
        /\ row.id = alertRow[a].id => IF HeldBySweep(a) THEN a \in blurred' ELSE blurred' = blurred
    BY <1>2, <1>4, <1>5, <1>9
  <2>2. row.state = q.state /\ row.count = 0
    BY <1>3, <1>9
  <2>3. Supported(row, agreeing'[a], lastTold'[a], cleared'[a])
    <3>1. Holds(Shown(AlertKind[a], q.state), row)
      BY <2>2 DEF Holds, Shown, None
    <3>2. QED
      BY <1>3, <2>1, <2>2, <3>1 DEF Supported
  <2>4. RowStands(a)'
    BY <1>5, <2>3 DEF RowStands, Supported, Active, Holds
  <2>5. CASE row.id = alertRow[a].id + 1
    <3>1. ~(SameRow(a)')
      <4>1. alertSweep.taken[a].id \in Nat /\ alertSweep.taken[a].id <= alertRow[a].id
        BY DEF SweepTypes, TakenTypes, RowOK, AlertRowType
      <4>2. alertSweep.taken[a].id # row.id
        BY <1>3, <2>5, <4>1
      <4>3. QED
        BY <1>2, <1>5, <4>2 DEF SameRow
    <3>2. CopyStands(a)' /\ SentIsTold(a)'
      BY <3>1 DEF CopyStands, SentIsTold
    <3>3. QED
      BY <1>7, <2>4, <3>2 DEF AlertStands
  <2>6. CASE row.id = alertRow[a].id
    <3>1. CASE HeldBySweep(a)
      <4>1. a \in blurred'
        BY <2>1, <2>6, <3>1
      <4>2. CopyStands(a)' /\ SentIsTold(a)'
        BY <4>1 DEF CopyStands, SentIsTold
      <4>3. QED
        BY <1>7, <2>4, <4>2 DEF AlertStands
    <3>2. CASE ~HeldBySweep(a)
      <4>1. a \notin alertSweep.left /\ ~(alertSweep.at = "sent" /\ alertSweep.now = a)
        BY <3>2 DEF HeldBySweep, SweepTypes
      <4>2. CopyStands(a)' /\ SentIsTold(a)'
        BY <1>2, <4>1 DEF CopyStands, SentIsTold
      <4>3. QED
        BY <1>7, <2>4, <4>2 DEF AlertStands
    <3>3. QED
      BY <3>1, <3>2
  <2>7. QED
    BY <1>3, <1>9, <2>5, <2>6
<1>10. QED
  BY <1>8, <1>9

LEMMA AlertsStandStep ==
    ASSUME AlertTypes, SweepTypes, \A b \in Alerts : AlertStands(b), AlertsNext
    PROVE  \A b \in Alerts : AlertStands(b)'
<1>1. ASSUME UNCHANGED <<alertRow, alertSweep, AlertHistory>>, NEW b \in Alerts
      PROVE  AlertStands(b)'
  <2>1. SameHistory(b) /\ (AtWork(b) => AtWork(b)')
    BY <1>1 DEF SameHistory, AlertHistory, AtWork
  <2>2. QED
    BY <1>1, <2>1, StandsFramed DEF SameReading, SameHistory
<1>2. ASSUME NEW a \in Alerts, DeleteAlert(a), NEW b \in Alerts
      PROVE  AlertStands(b)'
  <2> DEFINE over == [alertRow[a] EXCEPT !.stopped = "deleted"]
  <2>1. UNCHANGED <<alertSweep, AlertHistory>> /\ alertRow' = [alertRow EXCEPT ![a] = over]
    BY <1>2 DEF DeleteAlert
  <2>2. SameHistory(b) /\ (AtWork(b) => AtWork(b)')
    BY <2>1 DEF SameHistory, AlertHistory, AtWork
  <2>3. over.id = alertRow[a].id /\ SameReading(alertRow[a], over) /\ over.stopped # None
    <3>1. alertRow[a] \in AlertRowType
      BY DEF AlertTypes, RowTypes
    <3>2. QED
      BY <3>1 DEF AlertRowType, SameReading, None
  <2> HIDE DEF over
  <2>4. IF b = a THEN alertRow'[b] = over ELSE alertRow'[b] = alertRow[b]
    BY <2>1 DEF AlertTypes, RowTypes
  <2>5. /\ alertRow'[b].id = alertRow[b].id /\ SameReading(alertRow[b], alertRow'[b])
        /\ alertRow'[b] = alertRow[b] \/ alertRow'[b].stopped # None
    BY <2>3, <2>4 DEF SameReading
  <2>6. QED
    BY <2>1, <2>2, <2>5, StandsFramed DEF SameHistory
<1>3. ASSUME NEW bad \in SUBSET Alerts, ReadAlerts(bad), NEW b \in Alerts
      PROVE  AlertStands(b)'
  <2>1. /\ alertSweep.at = "claimed" /\ alertSweep'.at = "checking"
        /\ alertSweep'.left = alertSweep.left /\ alertSweep'.taken = alertSweep.taken
        /\ UNCHANGED <<alertRow, AlertHistory>>
    BY <1>3 DEF ReadAlerts, SweepTypes, AlertSweepType
  <2>2. SameHistory(b) /\ ~AtWork(b)
    BY <2>1 DEF SameHistory, AlertHistory, AtWork, AtOne
  <2>3. QED
    BY <2>1, <2>2, StandsFramed DEF SameReading, SameHistory
<1>4. QED
  BY <1>1, <1>2, <1>3, ConfirmStands, ClaimStands, QuietStands, LostStands, SentStands, RecordStands,
     RefusalStands, StopStands, AbandonStands
  DEF AlertsNext, SweepStep, AlertSwing, AlertTick, AlertDoor, Propose

-----------------------------------------------------------------------------
(* Alerts: the theorems *)

LEMMA AlertsIInvInit == AlertsInit => AlertsIInv
<1> SUFFICES ASSUME AlertsInit PROVE AlertsIInv
  OBVIOUS
<1>1. /\ alertRow = [a \in Alerts |-> NoRow] /\ alertDue = {} /\ alertSweep = IdleSweep
      /\ proposal = [p \in AlertOwners |-> NoProposal] /\ lastTold = [a \in Alerts |-> None]
      /\ cleared = [a \in Alerts |-> TRUE] /\ agreeing = [a \in Alerts |-> NothingAgrees]
      /\ DOMAIN watched = Alerts /\ \A a \in Alerts : watched[a] \in Readings(AlertKind[a])
  BY DEF AlertsInit
<1>2. RowTypes
  BY <1>1, NoRowIs DEF RowTypes
<1>3. ProposalTypes
  BY <1>1, StatesAre DEF ProposalTypes, NoProposal
<1>4. HistoryTypes
  BY <1>1 DEF HistoryTypes, NothingAgrees
<1>5. AlertTypes
  BY <1>1, <1>2, <1>3, <1>4 DEF AlertTypes
<1>6. TakenTypes
  BY <1>1, IdleSweepIs, NoRowIs DEF TakenTypes, SameRow
<1>7. SweepTypes
  BY <1>1, <1>6, IdleSweepIs DEF SweepTypes, AtOne
<1>8. ASSUME NEW a \in Alerts
      PROVE  AlertStands(a)
  <2>1. alertSweep.at = "idle" /\ alertSweep.left = {}
    BY <1>1, IdleSweepIs
  <2>2. CopyStands(a) /\ SentIsTold(a)
    BY <2>1 DEF CopyStands, SentIsTold
  <2>3. ~Active(alertRow[a])
    BY <1>1, NoRowIs DEF Active
  <2>4. RowStands(a)
    BY <2>3 DEF RowStands
  <2>5. QED
    BY <2>2, <2>4 DEF AlertStands
<1>9. QED
  BY <1>5, <1>7, <1>8 DEF AlertsIInv

LEMMA AlertsIInvStep ==
    AlertsIInv /\ [AlertsNext]_alertVars => AlertsIInv'
<1>1. ASSUME AlertsIInv, AlertsNext
      PROVE  AlertsIInv'
  BY <1>1, AlertTypesStep, SweepTypesStep, AlertsStandStep DEF AlertsIInv
<1>2. ASSUME AlertsIInv, UNCHANGED alertVars
      PROVE  AlertsIInv'
  <2>1. UNCHANGED <<watched, alertRow, alertDue, proposal, alertSweep, lastTold, cleared, agreeing,
                    blurred>>
    BY <1>2 DEF alertVars
  <2>2. AlertTypes'
    BY <1>2, <2>1
    DEF AlertsIInv, AlertTypes, RowTypes, ProposalTypes, HistoryTypes, RowOK, AlertRowType
  <2>3. RowsGrow
    BY <1>2, <2>1 DEF RowsGrow, AlertsIInv, AlertTypes, RowTypes, AlertRowType
  <2>4. SweepTypes'
    BY <1>2, <2>1, <2>2, <2>3, SweepKept DEF AlertsIInv
  <2>5. ASSUME NEW b \in Alerts
        PROVE  AlertStands(b)'
    BY <1>2, <2>1, StandsFramed DEF AlertsIInv, SameReading, AtWork
  <2>6. QED
    BY <2>2, <2>4, <2>5 DEF AlertsIInv
<1>3. QED
  BY <1>1, <1>2

LEMMA AlertsGive == AlertsIInv => AlertsTypeOK
<1> SUFFICES ASSUME AlertsIInv PROVE AlertsTypeOK
  OBVIOUS
<1>1. AlertTypes /\ SweepTypes
  BY DEF AlertsIInv
<1>2. alertSweep.left \subseteq {a \in Alerts : alertSweep.taken[a].id > 0}
  BY <1>1 DEF SweepTypes, AlertSweepType, Active
<1>3. alertSweep.at \in {"sent", "refused", "stopping"} => alertSweep.now \in alertSweep.left
  BY <1>1 DEF SweepTypes, AtOne
<1>4. /\ alertRow \in [Alerts -> AlertRowType] /\ alertDue \subseteq Alerts
      /\ \A a \in Alerts : /\ alertRow[a].count < Confirmations[AlertKind[a]]
                           /\ (alertRow[a].count = 0) = (alertRow[a].pending = None)
  BY <1>1 DEF AlertTypes, RowTypes, RowOK
<1>5. QED
  BY <1>2, <1>3, <1>4 DEF AlertsTypeOK

(* Whoever is told something is told by TellSent, of a row whose copy still *)
(* stands: so the decision is news and rests on enough reads.               *)
LEMMA MessagesHaveCause ==
    ASSUME AlertsIInv, [AlertsNext]_alertVars, NEW a \in Alerts, Tells(a), SameRow(a), a \notin blurred
    PROVE  /\ alertSweep'.firing # lastTold[a] \/ cleared[a]
           /\ agreeing'[a].n >= Confirmations[AlertKind[a]]
<1>1. AlertTypes /\ SweepTypes /\ AlertStands(a)
  BY DEF AlertsIInv
<1>2. TellSent(a)
  <2>1. alertSweep.at = "checking" /\ alertSweep'.at = "sent" /\ alertSweep'.now = a
    BY DEF Tells
  <2>2. AlertsNext
    BY <2>1 DEF alertVars
  <2>3. ASSUME NEW b \in alertSweep.left, alertSweep' = Without(b)
        PROVE  FALSE
    <3>1. Without(b).at \in {"idle", "checking"}
      BY <1>1, WithoutIs
    <3>2. QED
      BY <2>1, <2>3, <3>1
  <2>4. ASSUME NEW b \in Alerts, TellSent(b)
        PROVE  b = a
    BY <1>1, <2>1, <2>4 DEF TellSent, SweepTypes, AlertSweepType
  <2>5. ASSUME NEW b \in Alerts, CheckQuietly(b) \/ SkipRefused(b) \/ TellFailed(b)
        PROVE  FALSE
    BY <2>3, <2>5 DEF CheckQuietly, SkipRefused, TellFailed, Attempts
  <2>6. ASSUME NEW b \in Alerts, TellRefused(b)
        PROVE  FALSE
    BY <1>1, <2>1, <2>6 DEF TellRefused, SweepTypes, AlertSweepType
  <2>7. ASSUME AbandonSweep
        PROVE  FALSE
    BY <2>1, <2>7, IdleSweepIs DEF AbandonSweep
  <2>8. QED
    BY <2>1, <2>2, <2>4, <2>5, <2>6, <2>7
    DEF AlertsNext, SweepStep, AlertSwing, AlertTick, DeleteAlert, AlertDoor, Confirm, Propose,
        ClaimAlerts, ReadAlerts, RecordSent, RecordRefused, StopAll
<1>3. /\ a \in alertSweep.left /\ alertSweep.at = "checking" /\ Decision(a).firing # None
      /\ alertSweep'.firing = Decision(a).firing /\ agreeing' = [agreeing EXCEPT ![a] = Agreed(a)]
  BY <1>1, <1>2 DEF TellSent, Attempts, SweepTypes, AlertSweepType
<1> DEFINE row == alertSweep.taken[a]
           r == alertSweep.found[a]
<1>4. Supported(row, agreeing[a], lastTold[a], cleared[a])
  BY <1>1, <1>3 DEF AlertStands, CopyStands, AtWork, AtOne
<1>5. /\ RowOK(a, row) /\ row.stopped = None /\ row.id > 0 /\ r \in Readings(AlertKind[a]) \cup {Failed}
      /\ agreeing[a] \in [state : AlertStates \cup {None}, n : Nat]
      /\ lastTold[a] \in MessagesOf(AlertKind[a]) \cup {None} /\ cleared[a] \in BOOLEAN
  BY <1>1, <1>3 DEF SweepTypes, TakenTypes, Active, AlertTypes, HistoryTypes
<1>6. Decision(a) = Evaluate(a, row, r)
  BY DEF Decision
<1>7. agreeing'[a] = Agreed(a)
  BY <1>1, <1>3 DEF AlertTypes, HistoryTypes
<1>8. Agreed(a) = IF r = Failed THEN agreeing[a]
                  ELSE AgreedAfter(agreeing[a], Observed(AlertKind[a], row.state, row.edge, r),
                                   Confirmations[AlertKind[a]])
  BY <1>1, AgreedIs DEF SeenAs
<1> HIDE DEF row, r
<1>9. /\ r # Failed /\ (Evaluate(a, row, r).firing # lastTold[a] \/ cleared[a])
      /\ AgreedAfter(agreeing[a], Observed(AlertKind[a], row.state, row.edge, r),
                     Confirmations[AlertKind[a]]).n >= Confirmations[AlertKind[a]]
  <2>1. Evaluate(a, row, r).firing # None
    BY <1>3, <1>6
  <2>2. QED
    BY <1>4, <1>5, <2>1, FiringIsNews
<1>10. QED
  BY <1>3, <1>6, <1>7, <1>8, <1>9

(* No sweep checks what it did not claim, and no count reaches what fires   *)
(* and stays (position_alert).                                              *)
THEOREM AlertsKeepTypes == AlertsSpec => []AlertsTypeOK
BY AlertsIInvInit, AlertsIInvStep, AlertsGive, PTL DEF AlertsSpec

(* Whatever people confirm, change and delete meanwhile, and wherever a     *)
(* sweep stops: nobody is told the same again without a reading past the    *)
(* re-arm band, and every message rests on as many reads as its kind asks   *)
(* for (AlertRunner._check_one, LP_CONFIRMATIONS).                          *)
THEOREM AlertsTellForCause == AlertsSpec => ToldForCause
<1>1. AlertsIInv /\ [AlertsNext]_alertVars
        => [\A a \in Alerts : Tells(a) /\ SameRow(a) /\ a \notin blurred
              => alertSweep'.firing # lastTold[a] \/ cleared[a]
                 \/ Clears(a, lastTold[a], alertSweep.found[a])]_alertVars
  BY MessagesHaveCause
<1>2. AlertsIInv /\ [AlertsNext]_alertVars
        => [\A a \in Alerts : Tells(a) /\ SameRow(a) /\ a \notin blurred
              => agreeing'[a].n >= Confirmations[AlertKind[a]]]_alertVars
  BY MessagesHaveCause
<1>3. QED
  BY <1>1, <1>2, AlertsIInvInit, AlertsIInvStep, PTL
  DEF AlertsSpec, ToldForCause, ToldOnlyAfterReturn, ConfirmedByReads
=============================================================================
