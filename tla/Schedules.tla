------------------------------ MODULE Schedules ------------------------------
(***************************************************************************)
(* Questions a person has asked on a schedule.  A sweep of the bot claims  *)
(* what is due and moves it on, asks each question on its owner's behalf,  *)
(* and messages an answer that found something.                            *)
(*                                                                         *)
(* Abstractions.  What a question finds is chosen by the environment.  A   *)
(* task's time is whether its next run has come.  Questions and intervals are not checked  *)
(* for their form.  PostgreSQL runs the insert at READ COMMITTED: it       *)
(* counts what was committed when the statement began (external).          *)
(***************************************************************************)
EXTENDS Integers, FiniteSets

CONSTANTS
    Tasks,          \* ids of tasks, used once each
    TaskOwner,      \* whose task it is
    TaskCap,        \* DEFAULT_TASKS_PER_PERSON
    TaskBatch,      \* DEFAULT_BATCH
    MaxDoors,       \* changes of a person's settings
    MaxBreaks       \* sweeps that stop half way

TaskOwners == {TaskOwner[t] : t \in Tasks}

ASSUME SchedulesAssumption ==
    /\ DOMAIN TaskOwner = Tasks /\ "none" \notin Tasks
    /\ {TaskCap, MaxDoors, MaxBreaks} \subseteq Nat /\ TaskBatch \in Nat \ {0}

VARIABLES
    task,        \* scheduled_task: "none", "active", "disabled" or "deleted"
    outcome,     \* last_outcome
    taskDue,     \* tasks whose next_run_at has come
    inserting,   \* CREATE_WITHIN_CAP statements at work, with what they counted
    taskSweep,   \* ScheduledTaskRunner.run_due
    taskDoor,    \* people who refuse direct messages
    noTasks,     \* person_opt_out
    doors, breaks,
    credit,      \* intervals begun that no answer was sent for, at most two (auxiliary)
    together     \* people who had two inserts at work at once (auxiliary)

taskVars == <<task, outcome, taskDue, inserting, taskSweep, taskDoor, noTasks,
              doors, breaks, credit, together>>

IdleTasks == [at |-> "idle", left |-> {}, now |-> "none"]

SchedulesInit ==
    /\ task = [t \in Tasks |-> "none"] /\ outcome = [t \in Tasks |-> "none"]
    /\ taskDue = {} /\ inserting = [t \in Tasks |-> -1]
    /\ taskSweep = IdleTasks /\ taskDoor = {} /\ noTasks = {}
    /\ doors = 0 /\ breaks = 0
    /\ credit = [t \in Tasks |-> 0] /\ together = {}

TasksOf(p) == {t \in Tasks : TaskOwner[t] = p /\ task[t] \in {"active", "disabled"}}

----------------------------------------------------------------------------
(* The owner *)

BeginInsert(t) ==
    /\ task[t] = "none" /\ inserting[t] = -1
    /\ inserting' = [inserting EXCEPT ![t] = Cardinality(TasksOf(TaskOwner[t]))]
    /\ together' = IF \E u \in Tasks : inserting[u] >= 0 /\ TaskOwner[u] = TaskOwner[t]
                   THEN together \cup {TaskOwner[t]} ELSE together
    /\ UNCHANGED <<task, outcome, taskDue, taskSweep, taskDoor, noTasks, doors, breaks, credit>>

(* The first run is one interval away.  A disabled task keeps its place.    *)
Insert(t) ==
    /\ inserting[t] >= 0
    /\ inserting' = [inserting EXCEPT ![t] = -1]
    /\ task' = [task EXCEPT ![t] = IF inserting[t] < TaskCap THEN "active" ELSE "deleted"]
    /\ UNCHANGED <<outcome, taskDue, taskSweep, taskDoor, noTasks, doors, breaks,
                   credit, together>>

DeleteTask(t) ==
    /\ task[t] \in {"active", "disabled"}
    /\ task' = [task EXCEPT ![t] = "deleted"] /\ taskDue' = taskDue \ {t}
    /\ UNCHANGED <<outcome, inserting, taskSweep, taskDoor, noTasks, doors, breaks,
                   credit, together>>

TaskDoor(p) ==
    /\ doors < MaxDoors /\ doors' = doors + 1
    /\ taskDoor' = IF p \in taskDoor THEN taskDoor \ {p} ELSE taskDoor \cup {p}
    /\ UNCHANGED <<task, outcome, taskDue, inserting, taskSweep, noTasks, breaks,
                   credit, together>>

(* purge_person_derived deletes the tasks of who opts out; a task written   *)
(* afterwards stays.                                                        *)
TasksOptOut(p) ==
    /\ p \notin noTasks /\ doors < MaxDoors /\ doors' = doors + 1
    /\ noTasks' = noTasks \cup {p}
    /\ task' = [t \in Tasks |-> IF t \in TasksOf(p) THEN "deleted" ELSE task[t]]
    /\ taskDue' = taskDue \ TasksOf(p)
    /\ UNCHANGED <<outcome, inserting, taskSweep, taskDoor, breaks, credit, together>>

----------------------------------------------------------------------------
(* The sweep *)

IntervalPasses(t) ==
    /\ task[t] \in {"active", "disabled"} /\ t \notin taskDue
    /\ credit' = [credit EXCEPT ![t] = IF @ < 2 THEN @ + 1 ELSE @]
    /\ taskDue' = taskDue \cup {t}
    /\ UNCHANGED <<task, outcome, inserting, taskSweep, taskDoor, noTasks, doors, breaks, together>>

Claimable == {t \in taskDue : task[t] = "active" /\ TaskOwner[t] \notin noTasks}

(* A mutant: the claim does not move the task on.                           *)
ClaimedInPlace(S) == taskDue

(* CLAIM_DUE: an interval from now, however many have been missed.          *)
Claimed(S) == taskDue \ S

ClaimTasks ==
    /\ taskSweep.at = "idle"
    /\ \E S \in SUBSET Claimable :
         /\ Cardinality(S) = IF Cardinality(Claimable) < TaskBatch
                             THEN Cardinality(Claimable) ELSE TaskBatch
         /\ S # {}
         /\ taskDue' = Claimed(S)
         /\ taskSweep' = [at |-> "next", left |-> S, now |-> "none"]
    /\ UNCHANGED <<task, outcome, inserting, taskDoor, noTasks, doors, breaks,
                   credit, together>>

Rest(t) ==
    IF taskSweep.left = {t} THEN IdleTasks
    ELSE [at |-> "next", left |-> taskSweep.left \ {t}, now |-> "none"]

(* RECORD_RUN is by id: a row that is gone is not there to record on.       *)
RecordRun(t, what) ==
    outcome' = IF task[t] = "deleted" THEN outcome ELSE [outcome EXCEPT ![t] = what]

(* The question is asked, and an answer composed or not.                    *)
AskTask(t) ==
    /\ taskSweep.at = "next" /\ t \in taskSweep.left
    /\ \/ taskSweep' = [taskSweep EXCEPT !.at = "found", !.now = t]
       \/ taskSweep' = [taskSweep EXCEPT !.at = "nothing", !.now = t]
       \/ taskSweep' = [taskSweep EXCEPT !.at = "failed", !.now = t]
    /\ UNCHANGED <<task, outcome, taskDue, inserting, taskDoor, noTasks, doors, breaks,
                   credit, together>>

RecordSilence ==
    /\ taskSweep.at \in {"nothing", "failed"}
    /\ RecordRun(taskSweep.now, taskSweep.at)
    /\ taskSweep' = Rest(taskSweep.now)
    /\ UNCHANGED <<task, taskDue, inserting, taskDoor, noTasks, doors, breaks,
                   credit, together>>

SendAnswer ==
    LET t == taskSweep.now IN
    /\ taskSweep.at = "found"
    /\ \/ /\ TaskOwner[t] \notin taskDoor
          /\ taskSweep' = [taskSweep EXCEPT !.at = "reported"]
          /\ credit' = [credit EXCEPT ![t] = @ - 1]
       \/ /\ taskSweep' = [taskSweep EXCEPT !.at = "failed"]
          /\ UNCHANGED credit
       \/ /\ TaskOwner[t] \in taskDoor
          /\ taskSweep' = [taskSweep EXCEPT !.at = "refused"]
          /\ UNCHANGED credit
    /\ UNCHANGED <<task, outcome, taskDue, inserting, taskDoor, noTasks, doors, breaks, together>>

RecordReport ==
    /\ taskSweep.at = "reported"
    /\ RecordRun(taskSweep.now, "reported")
    /\ taskSweep' = Rest(taskSweep.now)
    /\ UNCHANGED <<task, taskDue, inserting, taskDoor, noTasks, doors, breaks,
                   credit, together>>

(* DISABLE_FOR_PERSON stops every task; the record is a step of its own.    *)
DisableTasks ==
    LET p == TaskOwner[taskSweep.now] IN
    /\ taskSweep.at = "refused"
    /\ task' = [t \in Tasks |-> IF task[t] = "active" /\ TaskOwner[t] = p
                                THEN "disabled" ELSE task[t]]
    /\ taskSweep' = [taskSweep EXCEPT !.at = "disabled"]
    /\ UNCHANGED <<outcome, taskDue, inserting, taskDoor, noTasks, doors, breaks,
                   credit, together>>

RecordRefusal ==
    /\ taskSweep.at = "disabled"
    /\ RecordRun(taskSweep.now, "closed")
    /\ taskSweep' = Rest(taskSweep.now)
    /\ UNCHANGED <<task, taskDue, inserting, taskDoor, noTasks, doors, breaks,
                   credit, together>>

(* The process stops, or a statement raises and scheduled_task_loop logs it.*)
BreakSweep ==
    /\ taskSweep.at # "idle" /\ breaks < MaxBreaks /\ breaks' = breaks + 1
    /\ taskSweep' = IdleTasks
    /\ UNCHANGED <<task, outcome, taskDue, inserting, taskDoor, noTasks, doors,
                   credit, together>>

TaskSweepStep ==
    \/ \E t \in Tasks : AskTask(t)
    \/ RecordSilence \/ SendAnswer \/ RecordReport \/ DisableTasks \/ RecordRefusal

SchedulesNext ==
    \/ \E t \in Tasks : BeginInsert(t) \/ Insert(t) \/ DeleteTask(t) \/ IntervalPasses(t)
    \/ \E p \in TaskOwners : TaskDoor(p) \/ TasksOptOut(p)
    \/ ClaimTasks \/ TaskSweepStep \/ BreakSweep

SchedulesSpec == SchedulesInit /\ [][SchedulesNext]_taskVars

----------------------------------------------------------------------------
(* Properties *)

TaskStates == {"none", "active", "disabled", "deleted"}

(* A sweep is at one of the tasks it claimed, and only tasks that ran have  *)
(* an outcome (ScheduledTaskRunner, scheduled_task).                        *)
SchedulesTypeOK ==
    /\ task \in [Tasks -> TaskStates]
    /\ outcome \in [Tasks -> {"none", "nothing", "failed", "reported", "closed"}]
    /\ taskSweep.at \in {"idle", "next"} <=> taskSweep.now = "none"
    /\ taskSweep.now # "none" => taskSweep.now \in taskSweep.left
    /\ \A t \in Tasks : outcome[t] # "none" => task[t] # "none"

(* No interval is answered twice and none that was missed is made up for:   *)
(* the claim comes before the run, so a sweep that stops, in whichever      *)
(* step, costs an answer and repeats none (CLAIM_DUE).                      *)
OncePerInterval == \A t \in Tasks : credit[t] >= 0

(* The cap holds for who has never had two inserts at work together, tasks  *)
(* that are disabled included (CREATE_WITHIN_CAP).                          *)
CapUnlessTogether ==
    \A p \in TaskOwners \ together : Cardinality(TasksOf(p)) <= TaskCap

(* A task that stays active is asked again and again, whatever a sweep      *)
(* meets: one that dies is not the end of the feature                       *)
(* (scheduled_task_loop).                                                   *)
TasksKeepRunning ==
    \A t \in Tasks : <>[](task[t] = "active" /\ TaskOwner[t] \notin noTasks)
                       => []<>(taskSweep.now = t)
=============================================================================
