------------------------------- MODULE Erasure -------------------------------
(***************************************************************************)
(* One person's "Delete everything": the durable erasure_request, the      *)
(* processes that run its steps (the bot or the console while the person   *)
(* waits, ingest's sweep when they stop), and what goes on being written   *)
(* about the person meanwhile.                                             *)
(*                                                                         *)
(* A runner holds a copy of the request's row, runs the step after the     *)
(* last one recorded, and records it; a step is one or two transactions.   *)
(* The clock counts messages and requests, and is what created_at,         *)
(* requested_at and erased_before are compared by.                         *)
(*                                                                         *)
(* Abstractions.  Messages stand for what purge_person and the document    *)
(* purge delete; `derived` for what purge_person_derived does (memory,     *)
(* facts, tasks, alerts, tokens...), by the time each was written; a trace *)
(* for the one message of the person it quotes, until it is marked for     *)
(* deletion.                                                               *)
(***************************************************************************)
EXTENDS Integers, FiniteSets

CONSTANTS
    Askers,         \* processes in which the person can confirm an erasure
    Sweep,          \* ingest's sweep
    MaxAsks,        \* confirmations
    MaxClock,       \* messages and confirmations together
    MaxCharges,     \* seconds of voice charged to the person
    MaxFaults,      \* runners stopped by a crash or an error
    SlowUpserts     \* whether an upsert may span steps of an erasure

Runners == Askers \cup {Sweep}
Time == 0..MaxClock
Modes == {"erase", "erase_and_opt_out"}

ASSUME ErasureAssumption ==
    /\ Sweep \notin Askers
    /\ MaxAsks \in Nat /\ MaxClock \in Nat /\ MaxCharges \in Nat /\ MaxFaults \in Nat
    /\ SlowUpserts \in BOOLEAN

\* ErasureStep; 3 and 4 finish together.
RECORDED == 1
REIMPORT_STOPPED == 2
TRACES_MARKED == 4
PURGED == 5
VOICE_FOLDED == 6
TOMBSTONED == 7
COMPLETE == 8
ErasureStep == {RECORDED, REIMPORT_STOPPED, TRACES_MARKED, PURGED,
                VOICE_FOLDED, TOMBSTONED, COMPLETE}

Ids == 1..MaxAsks
Request == [st : {"none", "open", "closed", "gone"}, mode : Modes, step : ErasureStep, at : Time]
Run == [pc : {"idle", "work", "second", "advance"}, id : Ids \cup {0}, mode : Modes,
        step : ErasureStep, at : Time]
Person == [erased_before : Time, opted_out : BOOLEAN, named : BOOLEAN]

VARIABLES
    clock,
    posted,    \* creation times of the person's messages, on the platform
    writing,   \* messages in an upsert that has passed the guard
    stored,    \* their rows of table message
    derived,   \* when each row of the derived tables was written
    quoting,   \* messages quoted by an exported trace not marked for deletion
    voice,     \* seconds in media_usage
    anonymous, \* seconds in media_usage_anonymous
    charged,   \* seconds ever charged
    person,    \* the person row and person_opt_out
    reqs,      \* table erasure_request
    run,       \* what each runner is doing
    late,      \* messages that were being written when re-import was stopped
               \* and have not been purged (auxiliary)
    between,   \* messages quoted between the marking of the traces and the
               \* purge, in traces not marked since (auxiliary)
    outrun,    \* requests a step of which was recorded by a runner whose copy
               \* was older than the second button (auxiliary)
    faults

vars == <<clock, posted, writing, stored, derived, quoting, voice, anonymous,
          charged, person, reqs, run, late, between, outrun, faults>>

NoRequest == [st |-> "none", mode |-> "erase", step |-> RECORDED, at |-> 0]
IdleRun == [pc |-> "idle", id |-> 0, mode |-> "erase", step |-> RECORDED, at |-> 0]

Init ==
    /\ clock = 0
    /\ posted = {} /\ writing = {} /\ stored = {}
    /\ derived = {} /\ quoting = {}
    /\ voice = 0 /\ anonymous = 0 /\ charged = 0
    /\ person = [erased_before |-> 0, opted_out |-> FALSE, named |-> FALSE]
    /\ reqs = [k \in Ids |-> NoRequest]
    /\ run = [r \in Runners |-> IdleRun]
    /\ late = {} /\ between = {} /\ outrun = {} /\ faults = 0

corpus == <<posted, writing, stored, derived, quoting>>
ledger == <<voice, anonymous, charged>>
rest == <<late, between, outrun, faults>>

Larger(a, b) == IF a < b THEN b ELSE a

-----------------------------------------------------------------------------
(* What goes on being written about the person *)

Post ==
    /\ clock < MaxClock
    /\ clock' = clock + 1
    /\ posted' = posted \cup {clock'}
    /\ UNCHANGED <<writing, stored, derived, quoting, ledger, person, reqs, run, rest>>

\* A mutant: the guard does not look at erased_before.
AcceptedUnlessOptedOut(m) == ~person.opted_out

\* The guard reject_opted_out_message.
Accepted(m) == ~person.opted_out /\ ~(person.erased_before > m)

\* UPDATE_PERSON_DISPLAY: a re-read old message cannot write the name back.
MayName(m) ==
    \/ person.erased_before = 0
    \/ person.erased_before <= m /\ ~person.opted_out

\* Any write path reads a message of theirs that is not stored: capture, an
\* edit, reconciliation or a page of backfill.
Upsert(m) ==
    /\ m \in posted \ (stored \cup writing)
    /\ Accepted(m) \/ MayName(m)
    /\ person' = [person EXCEPT !.named = @ \/ MayName(m)]
    /\ IF Accepted(m) /\ SlowUpserts
       THEN writing' = writing \cup {m} /\ UNCHANGED stored
       ELSE stored' = (IF Accepted(m) THEN stored \cup {m} ELSE stored)
            /\ UNCHANGED writing
    /\ UNCHANGED <<clock, posted, derived, quoting, ledger, reqs, run, rest>>

UpsertCommit(m) ==
    /\ m \in writing
    /\ writing' = writing \ {m}
    /\ stored' = stored \cup {m}
    /\ UNCHANGED <<clock, posted, derived, quoting, ledger, person, reqs, run, rest>>

\* A remembered turn, a fact, a task...: dropped for an excluded person.
UseBot ==
    /\ ~person.opted_out
    /\ derived' = derived \cup {clock}
    /\ UNCHANGED <<clock, posted, writing, stored, quoting, ledger, person, reqs,
                   run, rest>>

Open == {k \in Ids : reqs[k].st = "open"}

\* The traces have been marked, and the messages they quote not purged: where
\* a runner is, or where a request was left.
TracesBehind ==
    \/ \E r \in Runners :
           \/ run[r].step = TRACES_MARKED /\ run[r].pc = "work"
           \/ run[r].step = REIMPORT_STOPPED /\ run[r].pc = "advance"
    \/ \E k \in Open : reqs[k].step = TRACES_MARKED

\* Somebody is answered from one of their messages, and the run is exported.
Answer(m) ==
    /\ m \in stored
    /\ quoting' = quoting \cup {m}
    /\ between' = IF TracesBehind THEN between \cup {m} ELSE between
    /\ UNCHANGED <<clock, posted, writing, stored, derived, ledger, person, reqs,
                   run, late, outrun, faults>>

Charge ==
    /\ charged < MaxCharges
    /\ voice' = voice + 1 /\ charged' = charged + 1
    /\ UNCHANGED <<clock, corpus, anonymous, person, reqs, run, rest>>

-----------------------------------------------------------------------------
(* Runners *)

\* The step a runner with this copy runs next.
NextStep(step) == CHOOSE s \in ErasureStep : s > step /\ \A t \in ErasureStep : t > step => s <= t

\* What resume does with a row: the next step, or nothing if it is complete.
Resumed(k, row) ==
    IF row.step = COMPLETE THEN IdleRun
    ELSE [pc |-> IF row.step = TOMBSTONED THEN "advance" ELSE "work", id |-> k,
          mode |-> row.mode, step |-> row.step, at |-> row.at]

\* OPEN_REQUEST: the open request is returned, upgraded and sent back to step 1
\* if this confirmation asks for more; without one a request is recorded.
Opened(mode) ==
    IF Open = {} THEN [st |-> "open", mode |-> mode, step |-> RECORDED, at |-> clock + 1]
    ELSE LET row == reqs[CHOOSE k \in Open : TRUE]
         IN  IF mode = "erase_and_opt_out" /\ row.mode = "erase"
             THEN [row EXCEPT !.mode = mode, !.step = RECORDED] ELSE row

Unused == {k \in Ids : reqs[k].st = "none"}

Ask(r, mode) ==
    /\ run[r].pc = "idle"
    /\ clock < MaxClock
    /\ clock' = clock + 1
    /\ \E k \in IF Open # {} THEN Open
                 ELSE {j \in Unused : \A i \in Unused : j <= i} :
           /\ reqs' = [reqs EXCEPT ![k] = Opened(mode)]
           /\ run' = [run EXCEPT ![r] = Resumed(k, Opened(mode))]
    /\ UNCHANGED <<corpus, ledger, person, rest>>

\* A mutant: the sweep leaves a request alone that has no step done.
SweepPickStarted(k) ==
    /\ run[Sweep].pc = "idle"
    /\ k \in Open /\ reqs[k].step \notin {RECORDED, COMPLETE}
    /\ \A r \in Askers : run[r].pc # "idle" => run[r].id # k
    /\ run' = [run EXCEPT ![Sweep] = Resumed(k, reqs[k])]
    /\ UNCHANGED <<clock, corpus, ledger, person, reqs, rest>>

\* OPEN_REQUESTS, idle for IDLE_BEFORE_RESUME: "longer than any one step takes,
\* so the sweep does not race the bot".
SweepPick(k) ==
    /\ run[Sweep].pc = "idle"
    /\ k \in Open /\ reqs[k].step # COMPLETE
    /\ \A r \in Askers : run[r].pc # "idle" => run[r].id # k
    /\ run' = [run EXCEPT ![Sweep] = Resumed(k, reqs[k])]
    /\ UNCHANGED <<clock, corpus, ledger, person, reqs, rest>>

\* Runner r is at this point of this step.
At(r, step, pc) == run[r].pc = pc /\ NextStep(run[r].step) = step

Then(r, pc) == run' = [run EXCEPT ![r].pc = pc]

StopReimport(r) ==
    /\ At(r, REIMPORT_STOPPED, "work")
    /\ person' = [person EXCEPT !.erased_before = Larger(@, run[r].at)]
    /\ late' = late \cup writing
    /\ Then(r, IF run[r].mode = "erase_and_opt_out" THEN "second" ELSE "advance")
    /\ UNCHANGED <<clock, corpus, ledger, reqs, between, outrun, faults>>

\* purge_person_derived keeps an open request: a resume reads it.
Kept == [k \in Ids |-> IF reqs[k].st = "closed" THEN [NoRequest EXCEPT !.st = "gone"]
                       ELSE reqs[k]]

\* record_opt_out, and the trigger on person_opt_out with it.
Exclude(r) ==
    /\ At(r, REIMPORT_STOPPED, "second")
    /\ person' = [person EXCEPT !.opted_out = TRUE]
    /\ derived' = {}
    /\ reqs' = Kept
    /\ Then(r, "advance")
    /\ UNCHANGED <<clock, posted, writing, stored, quoting, ledger, rest>>

\* The message rows say which traces quote the person.
WithdrawTraces(r) ==
    /\ At(r, TRACES_MARKED, "work")
    /\ quoting' = quoting \ stored /\ between' = between \ stored
    /\ Then(r, "advance")
    /\ UNCHANGED <<clock, posted, writing, stored, derived, ledger, person, reqs,
                   late, outrun, faults>>

PurgePerson(r) ==
    /\ At(r, PURGED, "work")
    /\ stored' = {} /\ late' = late \ stored
    /\ Then(r, "second")
    /\ UNCHANGED <<clock, posted, writing, derived, quoting, ledger, person, reqs,
                   between, outrun, faults>>

PurgeDerived(r) ==
    /\ At(r, PURGED, "second")
    /\ derived' = {}
    /\ reqs' = Kept
    /\ Then(r, "advance")
    /\ UNCHANGED <<clock, posted, writing, stored, quoting, ledger, person, rest>>

\* Under the voice ledger's lock.
FoldVoice(r) ==
    /\ At(r, VOICE_FOLDED, "work")
    /\ anonymous' = anonymous + voice /\ voice' = 0
    /\ Then(r, "advance")
    /\ UNCHANGED <<clock, corpus, charged, person, reqs, rest>>

TombstonePerson(r) ==
    /\ At(r, TOMBSTONED, "work")
    /\ person' = [person EXCEPT !.named = FALSE]
    /\ Then(r, "advance")
    /\ UNCHANGED <<clock, corpus, ledger, reqs, rest>>

\* ADVANCE: step never moves back, completed_at is set by the last step and
\* cleared by any other.  The statement finds no row when another runner's
\* purge has deleted the completed request, and breaks the unique index when
\* it reopens one beside an open one; the runner fails either way.
Advanced(r) ==
    LET step == NextStep(run[r].step)
    IN  [reqs[run[r].id] EXCEPT !.step = Larger(@, step),
             !.st = IF step = COMPLETE THEN "closed" ELSE "open"]

Refused(r) ==
    \/ reqs[run[r].id].st = "gone"
    \/ Advanced(r).st = "open" /\ Open \ {run[r].id} # {}

Advance(r) ==
    /\ run[r].pc = "advance"
    /\ ~Refused(r)
    /\ reqs' = [reqs EXCEPT ![run[r].id] = Advanced(r)]
    /\ run' = [run EXCEPT ![r] = Resumed(run[r].id, Advanced(r))]
    /\ outrun' = IF run[r].mode = reqs[run[r].id].mode THEN outrun ELSE outrun \cup {run[r].id}
    /\ UNCHANGED <<clock, corpus, ledger, person, late, between, faults>>

AdvanceFails(r) ==
    /\ run[r].pc = "advance"
    /\ Refused(r)
    /\ run' = [run EXCEPT ![r] = IdleRun]
    /\ UNCHANGED <<clock, corpus, ledger, person, reqs, rest>>

\* A runner's process stops, or a step of it raises.
RunnerStops(r) ==
    /\ run[r].pc # "idle"
    /\ faults < MaxFaults
    /\ run' = [run EXCEPT ![r] = IdleRun]
    /\ faults' = faults + 1
    /\ UNCHANGED <<clock, corpus, ledger, person, reqs, late, between, outrun>>

-----------------------------------------------------------------------------

Messages == \E m \in posted : Upsert(m) \/ UpsertCommit(m) \/ Answer(m)

Steps(r) ==
    \/ StopReimport(r) \/ Exclude(r) \/ WithdrawTraces(r)
    \/ PurgePerson(r) \/ PurgeDerived(r) \/ FoldVoice(r) \/ TombstonePerson(r)
    \/ Advance(r) \/ AdvanceFails(r)

Next ==
    \/ Post \/ Messages \/ UseBot \/ Charge
    \/ \E r \in Askers, mode \in Modes : Ask(r, mode)
    \/ \E k \in Ids : SweepPick(k)
    \/ \E r \in Runners : Steps(r) \/ RunnerStops(r)

Spec == Init /\ [][Next]_vars

\* A runner goes on until it returns, raises or stops; the sweep runs every
\* five minutes for as long as ingest does.
Fairness ==
    /\ \A r \in Runners : WF_vars(Steps(r))
    /\ WF_vars(\E k \in Ids : SweepPick(k))

FairSpec == Spec /\ Fairness

-----------------------------------------------------------------------------
(* Type invariant *)

TypeOK ==
    /\ clock \in Time
    /\ posted \subseteq 1..MaxClock
    /\ writing \subseteq posted /\ stored \subseteq posted /\ quoting \subseteq posted
    /\ derived \subseteq Time
    /\ voice \in 0..MaxCharges /\ anonymous \in 0..MaxCharges /\ charged \in 0..MaxCharges
    /\ person \in Person
    /\ reqs \in [Ids -> Request]
    /\ run \in [Runners -> Run]
    /\ late \subseteq writing \cup stored
    /\ between \subseteq quoting /\ outrun \subseteq Ids
    /\ faults \in 0..MaxFaults

(* Safety *)

\* The index ux_erasure_request_open, which Ask relies on to find the request.
OneOpen == Cardinality(Open) <= 1

\* A completed request has erased everything older than it, and whatever re-reads
\* history since has brought none of it back, but for an upsert that had passed
\* the guard before re-import was stopped: "their messages from before the
\* deletion SHALL NOT be archived again" does not hold of those.
CompletedErases ==
    \A k \in Ids : reqs[k].st = "closed" =>
        /\ \A m \in stored \ late : m >= reqs[k].at
        /\ \A d \in derived : d >= reqs[k].at

\* The server-wide total does not move, however often the fold is repeated.
VoiceConserved == voice + anonymous = charged

\* No trace outlives, unmarked, the message that says whose words it quotes,
\* but one exported between the marking of the traces and the purge.
TracesMarkedFirst == quoting \ between \subseteq stored

AtRest(k) == \A r \in Runners : run[r].id # k

\* A confirmation of the second button whose request was completed, and which
\* nobody is at work on any more, left the person out.
OptOutKept ==
    \A k \in Ids :
        (reqs[k].st = "closed" /\ reqs[k].mode = "erase_and_opt_out" /\ AtRest(k))
            => person.opted_out

\* It does, however many runners overlap and stop, unless a runner with a copy
\* from before the second button recorded a step of it; and then too, once
\* they have all gone, unless one stopped on the way.
OptOutKeptUnlessOutrun ==
    \A k \in Ids :
        (/\ reqs[k].st = "closed" /\ reqs[k].mode = "erase_and_opt_out"
         /\ k \in outrun => AtRest(k) /\ faults = 0)
            => person.opted_out

\* What an erasure promises, whoever else is at work on it and wherever a
\* runner stops (ErasureService.run).
ErasureInv == CompletedErases /\ VoiceConserved /\ TracesMarkedFirst /\ OptOutKeptUnlessOutrun

(* Liveness *)

\* "Resumed until complete if it is interrupted": no request stays open.
EveryRequestCloses == \A k \in Ids : reqs[k].st = "open" ~> reqs[k].st # "open"

\* Every request is carried out to its last step, however many runners overlap,
\* fail and stop; whether it then stands as closed is another matter.
EveryRequestCarriedOut ==
    \A k \in Ids : reqs[k].st = "open" ~> (reqs[k].st # "open" \/ reqs[k].step = COMPLETE)
=============================================================================
