---------------------------- MODULE ErasureProofs ----------------------------
(***************************************************************************)
(* Proofs about "Delete everything".                                       *)
(*                                                                         *)
(* What an erasure has done for a request's time is never undone: that is  *)
(* the first invariant, and it holds wherever runners stop, resume, repeat *)
(* steps or overlap.  The second relates what runners and rows say has     *)
(* been done to the traces and to the exclusion; it needs the first, and   *)
(* nobody's being alone: what it does not promise is what `between` and    *)
(* `outrun` name.                                                          *)
(***************************************************************************)
EXTENDS Erasure, FiniteSetTheorems, TLAPS

-----------------------------------------------------------------------------
(* The steps, in order *)

LEMMA StepsInOrder ==
    /\ NextStep(RECORDED) = REIMPORT_STOPPED /\ NextStep(REIMPORT_STOPPED) = TRACES_MARKED
    /\ NextStep(TRACES_MARKED) = PURGED /\ NextStep(PURGED) = VOICE_FOLDED
    /\ NextStep(VOICE_FOLDED) = TOMBSTONED /\ NextStep(TOMBSTONED) = COMPLETE
<1> USE DEF ErasureStep, RECORDED, REIMPORT_STOPPED, TRACES_MARKED, PURGED, VOICE_FOLDED,
            TOMBSTONED, COMPLETE
<1>1. ASSUME NEW step \in ErasureStep, NEW next \in ErasureStep,
             next > step, \A t \in ErasureStep : t > step => next <= t
      PROVE  NextStep(step) = next
  <2>1. \A s \in ErasureStep :
           (s > step /\ \A t \in ErasureStep : t > step => s <= t) => s = next
    BY <1>1
  <2>2. QED
    BY <1>1, <2>1 DEF NextStep
<1>2. QED
  BY <1>1

(* The same, as what can be told of any step but the last.                  *)
LEMMA NextStepFollows ==
    ASSUME NEW step \in ErasureStep, step # COMPLETE
    PROVE  /\ NextStep(step) \in ErasureStep /\ NextStep(step) > step
           /\ NextStep(step) >= REIMPORT_STOPPED
           /\ (NextStep(step) = REIMPORT_STOPPED) <=> (step = RECORDED)
           /\ (NextStep(step) = TRACES_MARKED) <=> (step = REIMPORT_STOPPED)
           /\ (NextStep(step) = PURGED) <=> (step = TRACES_MARKED)
           /\ (NextStep(step) = VOICE_FOLDED) <=> (step = PURGED)
           /\ (NextStep(step) = TOMBSTONED) <=> (step = VOICE_FOLDED)
           /\ (NextStep(step) = COMPLETE) <=> (step = TOMBSTONED)
BY StepsInOrder
DEF ErasureStep, RECORDED, REIMPORT_STOPPED, TRACES_MARKED, PURGED, VOICE_FOLDED,
    TOMBSTONED, COMPLETE

-----------------------------------------------------------------------------
(* What is never undone *)

(* Nothing from before t is let in again, but for an upsert that was past   *)
(* the guard already; of what is stored, nothing but those is older; and    *)
(* nothing derived is.                                                      *)
Stopped(t) == person.erased_before >= t /\ \A m \in writing \ late : m >= t
MessagesErased(t) == Stopped(t) /\ \A m \in stored \ late : m >= t
DerivedErased(t) == \A d \in derived : d >= t

(* What has been done for a time once these steps are behind a runner.      *)
DoneFor(step, t) ==
    /\ t <= clock
    /\ step >= REIMPORT_STOPPED => Stopped(t)
    /\ step >= PURGED => MessagesErased(t) /\ DerivedErased(t)

Standing(k) == reqs[k].st \in {"open", "closed"}

RowHolds(k) ==
    Standing(k) => /\ DoneFor(reqs[k].step, reqs[k].at)
                   /\ reqs[k].st = "closed" => reqs[k].step = COMPLETE

(* A runner's copy has the time of its row for as long as the row stands,   *)
(* and what the runner has done it knows.                                   *)
RunHolds(r) ==
    run[r].pc # "idle" =>
        /\ run[r].id \in Ids /\ run[r].step # COMPLETE
        /\ reqs[run[r].id].st # "none"
        /\ Standing(run[r].id) => reqs[run[r].id].at = run[r].at
        /\ DoneFor(run[r].step, run[r].at)
        /\ run[r].pc = "second" /\ run[r].step = RECORDED => Stopped(run[r].at)
        /\ run[r].pc = "second" /\ run[r].step = TRACES_MARKED => MessagesErased(run[r].at)
        /\ run[r].pc = "advance" => DoneFor(NextStep(run[r].step), run[r].at)

OneIsOpen == \A i \in Open : \A j \in Open : i = j

IInv ==
    /\ TypeOK /\ OneIsOpen /\ VoiceConserved
    /\ writing \cap stored = {}
    /\ \A k \in Ids : RowHolds(k)
    /\ \A r \in Runners : RunHolds(r)

-----------------------------------------------------------------------------
(* The traces and the exclusion *)

Second(copy) == copy.mode = "erase_and_opt_out"

(* From the marking of the traces to the purge none quotes but those        *)
(* exported since.                                                          *)
TracesHold == TracesMarkedFirst /\ (TracesBehind => quoting \subseteq between)

(* On its way to the exclusion of the second button.                        *)
Excluding(r, k) ==
    /\ run[r].id = k /\ Second(run[r]) /\ run[r].step = RECORDED
    /\ run[r].pc \in {"work", "second"}

(* The exclusion is behind a row that is past its step, unless the row was  *)
(* outrun; while no runner has stopped, somebody is on the way to it.       *)
RowExcludes(k) ==
    Standing(k) /\ Second(reqs[k]) =>
        /\ reqs[k].step >= REIMPORT_STOPPED /\ k \notin outrun => person.opted_out
        /\ faults = 0 /\ ~person.opted_out => \E r \in Runners : Excluding(r, k)

(* A runner with the second button has it from its row, and is past the     *)
(* exclusion only when it is made, unless the row was outrun.               *)
RunExcludes(r) ==
    run[r].pc # "idle" /\ Second(run[r]) =>
        /\ Standing(run[r].id) => Second(reqs[run[r].id])
        /\ (run[r].step >= REIMPORT_STOPPED \/ run[r].pc = "advance") /\ run[r].id \notin outrun
              => person.opted_out

ExclusionHolds == (\A k \in Ids : RowExcludes(k)) /\ (\A r \in Runners : RunExcludes(r))

-----------------------------------------------------------------------------
(* Types *)

LEMMA ErasureNumbers ==
    /\ Sweep \notin Askers
    /\ MaxAsks \in Nat /\ MaxClock \in Nat /\ MaxCharges \in Nat /\ MaxFaults \in Nat
BY ErasureAssumption DEF ErasureAssumption

LEMMA StepValues ==
    /\ {RECORDED, REIMPORT_STOPPED, TRACES_MARKED, PURGED, VOICE_FOLDED, TOMBSTONED,
        COMPLETE} = ErasureStep
    /\ ErasureStep \subseteq Nat
    /\ \A step \in ErasureStep : step >= RECORDED /\ step <= COMPLETE
    /\ RECORDED < REIMPORT_STOPPED /\ TRACES_MARKED < PURGED /\ PURGED < COMPLETE
    /\ RECORDED # TRACES_MARKED /\ RECORDED # COMPLETE
    /\ \A step \in ErasureStep : step >= PURGED => step >= REIMPORT_STOPPED
BY DEF ErasureStep, RECORDED, REIMPORT_STOPPED, TRACES_MARKED, PURGED, VOICE_FOLDED,
       TOMBSTONED, COMPLETE

LEMMA IdleIsRun == IdleRun \in Run
BY ErasureNumbers, StepValues DEF IdleRun, Run, Modes, Time

LEMMA ResumedType ==
    ASSUME NEW k \in Ids, NEW row \in Request
    PROVE  Resumed(k, row) \in Run
BY IdleIsRun DEF Resumed, Run, Request

(* The row a confirmation leaves, taken apart.                              *)
LEMMA OpenedCases ==
    ASSUME TypeOK, OneIsOpen, NEW mode \in Modes, clock < MaxClock, NEW k \in Ids,
           Open # {} => k \in Open
    PROVE  /\ Opened(mode) \in Request /\ Opened(mode).st = "open"
           /\ \/ /\ Open = {} /\ Opened(mode).at = clock + 1 /\ Opened(mode).mode = mode
                 /\ Opened(mode).step = RECORDED
              \/ /\ k \in Open /\ Opened(mode) = reqs[k]
              \/ /\ k \in Open /\ Opened(mode).at = reqs[k].at /\ Opened(mode).mode = mode
                 /\ Opened(mode).step = RECORDED
<1> USE ErasureNumbers, StepValues
<1>1. CASE Open = {}
  <2>1. clock + 1 \in Time
    BY DEF TypeOK, Time
  <2>2. Opened(mode) = [st |-> "open", mode |-> mode, step |-> RECORDED, at |-> clock + 1]
    BY <1>1 DEF Opened
  <2>3. QED
    BY <1>1, <2>1, <2>2 DEF Request
<1>2. CASE Open # {}
  <2>1. (CHOOSE j \in Open : TRUE) = k /\ k \in Open
    BY <1>2 DEF OneIsOpen
  <2>2. reqs[k] \in Request /\ reqs[k].st = "open"
    BY <2>1 DEF TypeOK, Open
  <2>3. CASE mode = "erase_and_opt_out" /\ reqs[k].mode = "erase"
    <3>1. Opened(mode) = [reqs[k] EXCEPT !.mode = mode, !.step = RECORDED]
      BY <1>2, <2>1, <2>3 DEF Opened
    <3>2. QED
      BY <2>1, <2>2, <3>1 DEF Request
  <2>4. CASE ~(mode = "erase_and_opt_out" /\ reqs[k].mode = "erase")
    <3>1. Opened(mode) = reqs[k]
      BY <1>2, <2>1, <2>4 DEF Opened
    <3>2. QED
      BY <2>1, <2>2, <3>1
  <2>5. QED
    BY <2>3, <2>4
<1>3. QED
  BY <1>1, <1>2

LEMMA KeptType == TypeOK => Kept \in [Ids -> Request]
<1> SUFFICES ASSUME TypeOK PROVE Kept \in [Ids -> Request]
  OBVIOUS
<1>1. [NoRequest EXCEPT !.st = "gone"] \in Request
  BY ErasureNumbers, StepValues DEF NoRequest, Request, Modes, Time
<1>2. QED
  BY <1>1 DEF Kept, TypeOK

LEMMA AdvancedType ==
    ASSUME TypeOK, NEW r \in Runners, run[r].id \in Ids, run[r].step # COMPLETE
    PROVE  /\ Advanced(r) \in Request
           /\ Advanced(r).at = reqs[run[r].id].at /\ Advanced(r).mode = reqs[run[r].id].mode
           /\ Advanced(r).step \in {reqs[run[r].id].step, NextStep(run[r].step)}
           /\ Advanced(r).step >= NextStep(run[r].step)
           /\ Advanced(r).step >= reqs[run[r].id].step
           /\ Advanced(r).st = "open" \/ (Advanced(r).st = "closed" /\ Advanced(r).step = COMPLETE)
           /\ Advanced(r).st = "closed" <=> NextStep(run[r].step) = COMPLETE
<1> DEFINE row == reqs[run[r].id]
           next == NextStep(run[r].step)
<1>1. row \in Request /\ run[r].step \in ErasureStep
  BY DEF TypeOK, Run
<1>2. next \in ErasureStep /\ next \in Nat /\ row.step \in ErasureStep /\ row.step \in Nat
  BY <1>1, NextStepFollows, StepValues DEF Request
<1>3. /\ Larger(row.step, next) \in {row.step, next} /\ Larger(row.step, next) >= next
      /\ Larger(row.step, next) >= row.step
      /\ next = COMPLETE => Larger(row.step, next) = COMPLETE
  BY <1>2, StepValues DEF Larger
<1>4. Advanced(r) = [row EXCEPT !.step = Larger(row.step, next),
                               !.st = IF next = COMPLETE THEN "closed" ELSE "open"]
  BY DEF Advanced
<1> HIDE DEF row, next
<1>5. QED
  <2>1. row \in Request
    BY <1>1
  <2>2. Larger(row.step, next) \in ErasureStep
    BY <1>2, <1>3
  <2>3. /\ Advanced(r) \in Request /\ Advanced(r).at = row.at /\ Advanced(r).mode = row.mode
        /\ Advanced(r).step = Larger(row.step, next)
        /\ Advanced(r).st = IF next = COMPLETE THEN "closed" ELSE "open"
    BY <1>4, <2>1, <2>2 DEF Request
  <2>4. QED
    BY <1>3, <2>3 DEF row, next

Runner(r) ==
    \/ StopReimport(r) \/ Exclude(r) \/ WithdrawTraces(r) \/ PurgePerson(r) \/ PurgeDerived(r)
    \/ FoldVoice(r) \/ TombstonePerson(r)

(* A runner at a step has a request, and the step's row is there.           *)
LEMMA StepsTaken ==
    ASSUME NEW r \in Runners, Runner(r)
    PROVE  /\ run[r].pc \in {"work", "second"} /\ UNCHANGED clock
           /\ \E pc \in {"second", "advance"} : run' = [run EXCEPT ![r].pc = pc]
           /\ reqs' \in {reqs, Kept}
BY DEF Runner, StopReimport, Exclude, WithdrawTraces, PurgePerson, PurgeDerived, FoldVoice,
       TombstonePerson, At, Then

LEMMA RowsAndRunsTyped ==
    ASSUME TypeOK, OneIsOpen, \A r \in Runners : RunHolds(r), Next
    PROVE  reqs' \in [Ids -> Request] /\ run' \in [Runners -> Run]
<1>0. reqs \in [Ids -> Request] /\ run \in [Runners -> Run] /\ Kept \in [Ids -> Request]
  BY KeptType DEF TypeOK
<1>1. ASSUME NEW r \in Runners, Runner(r)
      PROVE  reqs' \in [Ids -> Request] /\ run' \in [Runners -> Run]
  <2>1. PICK pc \in {"second", "advance"} : run' = [run EXCEPT ![r].pc = pc]
    BY <1>1, StepsTaken
  <2>2. [run[r] EXCEPT !.pc = pc] \in Run
    BY <1>0 DEF Run
  <2>3. run' \in [Runners -> Run]
    BY <1>0, <2>1, <2>2
  <2>4. QED
    BY <1>0, <1>1, <2>3, StepsTaken
<1>2. ASSUME NEW r \in Askers, NEW mode \in Modes, Ask(r, mode)
      PROVE  reqs' \in [Ids -> Request] /\ run' \in [Runners -> Run]
  <2>1. PICK k \in Ids : /\ Open # {} => k \in Open
                         /\ reqs' = [reqs EXCEPT ![k] = Opened(mode)]
                         /\ run' = [run EXCEPT ![r] = Resumed(k, Opened(mode))]
    BY <1>2 DEF Ask, Open, Unused
  <2>2. Opened(mode) \in Request
    BY <1>2, <2>1, OpenedCases DEF Ask
  <2>3. QED
    BY <1>0, <2>1, <2>2, ResumedType DEF Runners
<1>3. ASSUME NEW k \in Ids, SweepPick(k)
      PROVE  reqs' \in [Ids -> Request] /\ run' \in [Runners -> Run]
  BY <1>0, <1>3, ResumedType DEF SweepPick, Runners
<1>4. ASSUME NEW r \in Runners, Advance(r)
      PROVE  reqs' \in [Ids -> Request] /\ run' \in [Runners -> Run]
  <2>1. run[r].id \in Ids /\ run[r].step # COMPLETE
    BY <1>4 DEF Advance, RunHolds
  <2>2. Advanced(r) \in Request
    BY <2>1, AdvancedType
  <2>3. QED
    BY <1>0, <1>4, <2>1, <2>2, ResumedType DEF Advance
<1>5. ASSUME NEW r \in Runners, AdvanceFails(r) \/ RunnerStops(r)
      PROVE  reqs' \in [Ids -> Request] /\ run' \in [Runners -> Run]
  BY <1>0, <1>5, IdleIsRun DEF AdvanceFails, RunnerStops
<1>6. CASE UNCHANGED <<reqs, run>>
  BY <1>0, <1>6
<1>7. QED
  BY <1>1, <1>2, <1>3, <1>4, <1>5, <1>6
  DEF Next, Messages, Post, Upsert, UpsertCommit, UseBot, Answer, Charge, Steps, Runner

LEMMA SecondsConserved ==
    ASSUME TypeOK, VoiceConserved, Next
    PROVE  /\ VoiceConserved'
           /\ voice' \in 0..MaxCharges /\ anonymous' \in 0..MaxCharges /\ charged' \in 0..MaxCharges
<1> USE ErasureNumbers DEF TypeOK, VoiceConserved
<1>1. CASE Charge
  BY <1>1 DEF Charge
<1>2. ASSUME NEW r \in Runners, FoldVoice(r)
      PROVE  /\ VoiceConserved' /\ charged' = charged
             /\ voice' = 0 /\ anonymous' = charged
  BY <1>2 DEF FoldVoice
<1>3. CASE UNCHANGED ledger
  BY <1>3 DEF ledger
<1>4. QED
  BY <1>1, <1>2, <1>3
  DEF Next, Messages, Post, Upsert, UpsertCommit, UseBot, Answer, Steps, Ask, SweepPick,
      StopReimport, Exclude, WithdrawTraces, PurgePerson, PurgeDerived, TombstonePerson,
      Advance, AdvanceFails, RunnerStops

(* The person's messages, what was derived, and the row of the person.      *)
DataTypes ==
    /\ clock \in Time /\ posted \subseteq 1..MaxClock
    /\ writing \subseteq posted /\ stored \subseteq posted /\ quoting \subseteq posted
    /\ derived \subseteq Time /\ person \in Person
    /\ late \subseteq writing \cup stored /\ faults \in 0..MaxFaults
    /\ between \subseteq quoting
    /\ writing \cap stored = {}

LEMMA DataTyped ==
    ASSUME TypeOK, writing \cap stored = {}, Next
    PROVE  DataTypes'
<1> USE ErasureNumbers DEF TypeOK, DataTypes
<1>1. CASE Post
  <2>1. clock' \in 1..MaxClock /\ clock' \in Time
    BY <1>1 DEF Post, Time
  <2>2. QED
    BY <1>1, <2>1 DEF Post, rest
<1>2. ASSUME NEW m \in posted, Upsert(m)
      PROVE  DataTypes'
  <2>1. person' \in Person
    BY <1>2 DEF Upsert, Person, MayName
  <2>2. QED
    BY <1>2, <2>1 DEF Upsert, rest
<1>3. ASSUME NEW m \in posted, UpsertCommit(m) \/ Answer(m)
      PROVE  DataTypes'
  BY <1>3 DEF UpsertCommit, Answer, rest
<1>4. CASE UseBot \/ Charge
  BY <1>4 DEF UseBot, Charge, corpus, rest
<1>5. ASSUME NEW r \in Askers, NEW mode \in Modes, Ask(r, mode)
      PROVE  DataTypes'
  BY <1>5 DEF Ask, corpus, rest, Time
<1>6. ASSUME NEW k \in Ids, SweepPick(k)
      PROVE  DataTypes'
  BY <1>6 DEF SweepPick, corpus, rest
<1>7. ASSUME NEW r \in Runners, StopReimport(r)
      PROVE  DataTypes'
  <2>1. run[r].at \in Time
    BY DEF Run
  <2>2. Larger(person.erased_before, run[r].at) \in Time
    BY <2>1 DEF Person, Larger
  <2>3. person' \in Person
    BY <1>7, <2>2 DEF StopReimport, Person
  <2>4. QED
    BY <1>7, <2>3 DEF StopReimport, corpus
<1>8. ASSUME NEW r \in Runners, Exclude(r) \/ TombstonePerson(r)
      PROVE  DataTypes'
  <2>1. person' \in Person
    BY <1>8 DEF Exclude, TombstonePerson, Person
  <2>2. QED
    BY <1>8, <2>1 DEF Exclude, TombstonePerson, corpus, rest
<1>9. ASSUME NEW r \in Runners,
             WithdrawTraces(r) \/ PurgePerson(r) \/ PurgeDerived(r) \/ FoldVoice(r)
      PROVE  DataTypes'
  BY <1>9 DEF WithdrawTraces, PurgePerson, PurgeDerived, FoldVoice, corpus, rest
<1>10. ASSUME NEW r \in Runners, Advance(r) \/ AdvanceFails(r) \/ RunnerStops(r)
       PROVE  DataTypes'
  <2>1. /\ UNCHANGED <<clock, corpus, person, late, between>>
        /\ faults' = faults \/ (faults < MaxFaults /\ faults' = faults + 1)
    BY <1>10 DEF Advance, AdvanceFails, RunnerStops, rest
  <2>2. faults' \in 0..MaxFaults
    BY <2>1
  <2>3. QED
    BY <2>1, <2>2 DEF corpus
<1>11. QED
  BY <1>1, <1>2, <1>3, <1>4, <1>5, <1>6, <1>7, <1>8, <1>9, <1>10 DEF Next, Messages, Steps

LEMMA OutrunTyped ==
    ASSUME TypeOK, \A r \in Runners : RunHolds(r), Next
    PROVE  outrun' \subseteq Ids
<1>1. ASSUME NEW r \in Runners, Advance(r)
      PROVE  outrun' \subseteq Ids
  BY <1>1 DEF Advance, RunHolds, TypeOK
<1>2. CASE UNCHANGED outrun
  BY <1>2 DEF TypeOK
<1>3. QED
  BY <1>1, <1>2
  DEF Next, Messages, Post, Upsert, UpsertCommit, UseBot, Answer, Charge, Ask, SweepPick, Steps,
      StopReimport, Exclude, WithdrawTraces, PurgePerson, PurgeDerived, FoldVoice,
      TombstonePerson, AdvanceFails, RunnerStops, rest

LEMMA TypesStep ==
    ASSUME IInv, Next
    PROVE  TypeOK' /\ VoiceConserved' /\ (writing \cap stored = {})'
<1>1. DataTypes'
  BY DataTyped DEF IInv
<1>2. reqs' \in [Ids -> Request] /\ run' \in [Runners -> Run]
  BY RowsAndRunsTyped DEF IInv
<1>3. /\ VoiceConserved'
      /\ voice' \in 0..MaxCharges /\ anonymous' \in 0..MaxCharges /\ charged' \in 0..MaxCharges
  BY SecondsConserved DEF IInv
<1>4. outrun' \subseteq Ids
  BY OutrunTyped DEF IInv
<1>5. QED
  BY <1>1, <1>2, <1>3, <1>4 DEF TypeOK, DataTypes

-----------------------------------------------------------------------------
(* What is done stays done *)

LEMMA Stays ==
    ASSUME TypeOK, writing \cap stored = {}, Next, NEW t \in Time, t <= clock
    PROVE  /\ t <= clock'
           /\ Stopped(t) => Stopped(t)'
           /\ MessagesErased(t) => MessagesErased(t)'
           /\ DerivedErased(t) => DerivedErased(t)'
<1> USE ErasureNumbers DEF TypeOK, Stopped, MessagesErased, DerivedErased, Time
<1> DEFINE Kept1 == /\ t <= clock'
                    /\ Stopped(t) => Stopped(t)'
                    /\ MessagesErased(t) => MessagesErased(t)'
                    /\ DerivedErased(t) => DerivedErased(t)'
<1>1. CASE Post
  BY <1>1 DEF Post, rest
<1>2. ASSUME NEW m \in posted, Upsert(m)
      PROVE  Kept1
  <2>1. /\ person'.erased_before = person.erased_before /\ UNCHANGED <<clock, derived, late>>
        /\ (stored' = stored /\ writing' = writing) \/ Accepted(m)
        /\ writing' \subseteq writing \cup {m} /\ stored' \subseteq stored \cup {m}
    BY <1>2 DEF Upsert, rest, Person
  <2>2. person.erased_before >= t /\ Accepted(m) => m >= t
    BY DEF Accepted, Person
  <2>3. QED
    BY <2>1, <2>2
<1>3. ASSUME NEW m \in posted, UpsertCommit(m) \/ Answer(m)
      PROVE  Kept1
  BY <1>3 DEF UpsertCommit, Answer, rest
<1>4. CASE UseBot \/ Charge
  BY <1>4 DEF UseBot, Charge, corpus, rest
<1>5. ASSUME NEW r \in Askers, NEW mode \in Modes, Ask(r, mode)
      PROVE  Kept1
  BY <1>5 DEF Ask, corpus, rest
<1>6. ASSUME NEW k \in Ids, SweepPick(k)
      PROVE  Kept1
  BY <1>6 DEF SweepPick, corpus, rest
<1>7. ASSUME NEW r \in Runners, StopReimport(r)
      PROVE  Kept1
  <2>1. /\ person'.erased_before = Larger(person.erased_before, run[r].at)
        /\ late' = late \cup writing /\ UNCHANGED <<clock, corpus>>
    BY <1>7 DEF StopReimport, Person
  <2>2. person.erased_before \in Time /\ run[r].at \in Time
    BY DEF Person, Run
  <2>3. person'.erased_before >= person.erased_before /\ person'.erased_before \in Int
    BY <2>1, <2>2 DEF Larger
  <2>4. Stopped(t) => Stopped(t)'
    BY <2>1, <2>2, <2>3 DEF corpus
  <2>5. QED
    BY <2>1, <2>4 DEF corpus
<1>8. ASSUME NEW r \in Runners, Exclude(r) \/ TombstonePerson(r)
      PROVE  Kept1
  <2>1. /\ person'.erased_before = person.erased_before
        /\ UNCHANGED <<clock, stored, writing, late>> /\ derived' \in {derived, {}}
    BY <1>8 DEF Exclude, TombstonePerson, Person, corpus, rest
  <2>2. QED
    BY <2>1
<1>9. ASSUME NEW r \in Runners,
             WithdrawTraces(r) \/ PurgePerson(r) \/ PurgeDerived(r) \/ FoldVoice(r)
      PROVE  Kept1
  BY <1>9 DEF WithdrawTraces, PurgePerson, PurgeDerived, FoldVoice, corpus, rest
<1>10. ASSUME NEW r \in Runners, Advance(r) \/ AdvanceFails(r) \/ RunnerStops(r)
       PROVE  Kept1
  BY <1>10 DEF Advance, AdvanceFails, RunnerStops, corpus, rest
<1>11. QED
  BY <1>1, <1>2, <1>3, <1>4, <1>5, <1>6, <1>7, <1>8, <1>9, <1>10 DEF Next, Messages, Steps

LEMMA DoneStays ==
    ASSUME IInv, Next, NEW step, NEW t \in Time, DoneFor(step, t)
    PROVE  DoneFor(step, t)'
BY Stays DEF IInv, DoneFor

(* Nothing is owed for the first step, and less for an earlier step.        *)
LEMMA DoneForFirst ==
    ASSUME TypeOK, NEW t \in Time, t <= clock
    PROVE  DoneFor(RECORDED, t)
BY StepValues DEF DoneFor, RECORDED, REIMPORT_STOPPED, PURGED

(* What the steps of a runner do for its time.                              *)
LEMMA StepsDo ==
    ASSUME IInv, NEW r \in Runners, Runner(r),
           NEW t, t = run[r].at, NEW step, step = run[r].step
    PROVE  /\ run[r].pc = "work" /\ step = RECORDED => Stopped(t)'
           /\ run[r].pc = "work" /\ step = TRACES_MARKED => MessagesErased(t)'
           /\ run'[r].pc = "advance" => DoneFor(NextStep(step), t)'
<1>1. /\ step \in ErasureStep \ {COMPLETE} /\ t \in Time /\ t <= clock
      /\ DoneFor(step, t) /\ run \in [Runners -> Run]
  <2>1. run[r].pc # "idle"
    BY StepsTaken
  <2>2. QED
    BY <2>1 DEF IInv, RunHolds, TypeOK, Run, DoneFor
<1>2. Next
  BY DEF Runner, Steps, Next
<1>3. /\ t <= clock'
      /\ Stopped(t) => Stopped(t)'
      /\ MessagesErased(t) => MessagesErased(t)'
      /\ DerivedErased(t) => DerivedErased(t)'
      /\ DoneFor(step, t)'
  BY <1>1, <1>2, Stays, DoneStays DEF IInv
<1>4. CASE StopReimport(r)
  <2>1. run[r].pc = "work" /\ step = RECORDED
    BY <1>1, <1>4, NextStepFollows DEF StopReimport, At
  <2>2. /\ person'.erased_before = Larger(person.erased_before, t)
        /\ late' = late \cup writing /\ UNCHANGED writing
    BY <1>4 DEF StopReimport, TypeOK, IInv, Person, corpus
  <2>3. person'.erased_before >= t
    BY <1>1, <2>2, ErasureNumbers DEF Larger, IInv, TypeOK, Person, Time
  <2>4. Stopped(t)'
    BY <2>2, <2>3 DEF Stopped
  <2>5. DoneFor(REIMPORT_STOPPED, t)'
    BY <1>3, <2>4 DEF DoneFor, REIMPORT_STOPPED, PURGED
  <2>6. QED
    BY <2>1, <2>4, <2>5, StepsInOrder, StepValues
<1>5. CASE Exclude(r)
  <2>1. run[r].pc = "second" /\ step = RECORDED
    BY <1>1, <1>5, NextStepFollows DEF Exclude, At
  <2>2. Stopped(t)
    BY <2>1 DEF IInv, RunHolds
  <2>3. DoneFor(REIMPORT_STOPPED, t)'
    BY <1>3, <2>2 DEF DoneFor, REIMPORT_STOPPED, PURGED
  <2>4. QED
    BY <2>1, <2>3, StepsInOrder
<1>6. CASE WithdrawTraces(r)
  <2>1. step = REIMPORT_STOPPED
    BY <1>1, <1>6, NextStepFollows DEF WithdrawTraces, At
  <2>2. DoneFor(TRACES_MARKED, t)'
    BY <1>3, <2>1 DEF DoneFor, REIMPORT_STOPPED, TRACES_MARKED, PURGED
  <2>3. QED
    BY <2>1, <2>2, StepsInOrder DEF REIMPORT_STOPPED, TRACES_MARKED, RECORDED
<1>7. CASE PurgePerson(r)
  <2>1. run[r].pc = "work" /\ step = TRACES_MARKED /\ run'[r].pc = "second"
    BY <1>1, <1>7, NextStepFollows DEF PurgePerson, At, Then
  <2>2. Stopped(t)'
    BY <1>3, <2>1 DEF DoneFor, TRACES_MARKED, REIMPORT_STOPPED
  <2>3. MessagesErased(t)'
    BY <1>7, <2>2 DEF PurgePerson, MessagesErased
  <2>4. QED
    BY <2>1, <2>3, StepValues
<1>8. CASE PurgeDerived(r)
  <2>1. run[r].pc = "second" /\ step = TRACES_MARKED
    BY <1>1, <1>8, NextStepFollows DEF PurgeDerived, At
  <2>2. MessagesErased(t)' /\ DerivedErased(t)'
    BY <1>3, <1>8, <2>1 DEF PurgeDerived, DerivedErased, IInv, RunHolds
  <2>3. DoneFor(PURGED, t)'
    BY <1>3, <2>2 DEF DoneFor, MessagesErased
  <2>4. QED
    BY <2>1, <2>3, StepsInOrder
<1>9. CASE FoldVoice(r) \/ TombstonePerson(r)
  <2>1. step \in {PURGED, VOICE_FOLDED} /\ run[r].pc = "work"
    BY <1>1, <1>9, NextStepFollows DEF FoldVoice, TombstonePerson, At
  <2>2. DoneFor(NextStep(step), t)'
    BY <1>3, <2>1, StepsInOrder DEF DoneFor, MessagesErased, PURGED, VOICE_FOLDED,
       TOMBSTONED, REIMPORT_STOPPED
  <2>3. QED
    BY <2>1, <2>2 DEF PURGED, VOICE_FOLDED, RECORDED, TRACES_MARKED
<1>10. QED
  BY <1>4, <1>5, <1>6, <1>7, <1>8, <1>9 DEF Runner

-----------------------------------------------------------------------------
(* Rows and runners *)

(* A confirmation works on the open row, or on one not used.                *)
LEMMA AskCases ==
    ASSUME IInv, NEW r \in Askers, NEW mode \in Modes, Ask(r, mode)
    PROVE  \E k \in Ids :
              /\ reqs' = [reqs EXCEPT ![k] = Opened(mode)]
              /\ run' = [run EXCEPT ![r] = Resumed(k, Opened(mode))]
              /\ clock' = clock + 1
              /\ Opened(mode) \in Request /\ Opened(mode).st = "open"
              /\ \/ /\ Open = {} /\ reqs[k].st = "none"
                    /\ Opened(mode).at = clock' /\ Opened(mode).step = RECORDED
                 \/ /\ k \in Open /\ Opened(mode).at = reqs[k].at
                    /\ Opened(mode).step \in {RECORDED, reqs[k].step}
<1>1. PICK k \in Ids : /\ Open # {} => k \in Open
                       /\ Open = {} => reqs[k].st = "none"
                       /\ reqs' = [reqs EXCEPT ![k] = Opened(mode)]
                       /\ run' = [run EXCEPT ![r] = Resumed(k, Opened(mode))]
  BY DEF Ask, Open, Unused
<1>2. clock < MaxClock /\ clock' = clock + 1
  BY DEF Ask
<1>3. QED
  BY <1>1, <1>2, OpenedCases DEF IInv

(* An advance finds its row standing, with the runner's time.               *)
LEMMA AdvanceCases ==
    ASSUME IInv, NEW r \in Runners, Advance(r)
    PROVE  /\ run[r].id \in Ids /\ Standing(run[r].id) /\ reqs[run[r].id].at = run[r].at
           /\ run[r].step \in ErasureStep \ {COMPLETE} /\ run[r].at \in Time
           /\ Advanced(r) \in Request /\ Advanced(r).at = run[r].at
           /\ Advanced(r).step \in {reqs[run[r].id].step, NextStep(run[r].step)}
           /\ Advanced(r).st = "open" \/ (Advanced(r).st = "closed" /\ Advanced(r).step = COMPLETE)
           /\ Advanced(r).st = "open" => Open \subseteq {run[r].id}
           /\ DoneFor(NextStep(run[r].step), run[r].at)
           /\ reqs' = [reqs EXCEPT ![run[r].id] = Advanced(r)]
           /\ run' = [run EXCEPT ![r] = Resumed(run[r].id, Advanced(r))]
<1>1. run[r].pc = "advance" /\ ~Refused(r)
  BY DEF Advance
<1>2. /\ run[r].id \in Ids /\ reqs[run[r].id].st # "none" /\ run[r].step # COMPLETE
      /\ Standing(run[r].id) => reqs[run[r].id].at = run[r].at
      /\ DoneFor(NextStep(run[r].step), run[r].at)
  BY <1>1 DEF IInv, RunHolds
<1>3. reqs[run[r].id] \in Request /\ run[r] \in Run
  BY <1>2 DEF IInv, TypeOK
<1>4. Standing(run[r].id)
  BY <1>1, <1>2, <1>3 DEF Refused, Standing, Request
<1>5. Advanced(r).st = "open" => Open \subseteq {run[r].id}
  BY <1>1 DEF Refused
<1>6. QED
  BY <1>2, <1>3, <1>4, <1>5, AdvancedType DEF Advance, IInv, Run

(* A row that was recorded keeps its time for as long as it stands.         *)
LEMMA RowsStay ==
    ASSUME IInv, Next, NEW k \in Ids, reqs[k].st # "none"
    PROVE  /\ reqs'[k].st # "none"
           /\ Standing(k)' => Standing(k) /\ reqs'[k].at = reqs[k].at
<1>0. reqs \in [Ids -> Request]
  BY DEF IInv, TypeOK
<1>1. ASSUME NEW r \in Runners, Runner(r)
      PROVE  /\ reqs'[k].st # "none"
             /\ Standing(k)' => Standing(k) /\ reqs'[k].at = reqs[k].at
  BY <1>0, <1>1, StepsTaken DEF Kept, Standing, NoRequest, Request
<1>2. ASSUME NEW r \in Askers, NEW mode \in Modes, Ask(r, mode)
      PROVE  /\ reqs'[k].st # "none"
             /\ Standing(k)' => Standing(k) /\ reqs'[k].at = reqs[k].at
  BY <1>0, <1>2, AskCases DEF Standing, Open
<1>3. ASSUME NEW r \in Runners, Advance(r)
      PROVE  /\ reqs'[k].st # "none"
             /\ Standing(k)' => Standing(k) /\ reqs'[k].at = reqs[k].at
  BY <1>0, <1>3, AdvanceCases DEF Standing
<1>4. CASE UNCHANGED reqs
  BY <1>4 DEF Standing
<1>5. QED
  BY <1>1, <1>2, <1>3, <1>4
  DEF Next, Messages, Post, Upsert, UpsertCommit, UseBot, Answer, Charge, SweepPick, Steps,
      Runner, AdvanceFails, RunnerStops

LEMMA OneOpenStep ==
    ASSUME IInv, Next
    PROVE  OneIsOpen'
<1> USE DEF OneIsOpen, IInv, TypeOK
<1>1. ASSUME NEW r \in Runners, Runner(r)
      PROVE  OneIsOpen'
  <2>1. Open' \subseteq Open
    BY <1>1, StepsTaken DEF Kept, Open, NoRequest
  <2>2. QED
    BY <2>1
<1>2. ASSUME NEW r \in Askers, NEW mode \in Modes, Ask(r, mode)
      PROVE  OneIsOpen'
  <2>1. PICK k \in Ids : /\ reqs' = [reqs EXCEPT ![k] = Opened(mode)]
                         /\ Open = {} \/ k \in Open
    BY <1>2, AskCases
  <2>2. Open' \subseteq Open \cup {k}
    BY <2>1 DEF Open
  <2>3. QED
    BY <2>1, <2>2
<1>3. ASSUME NEW r \in Runners, Advance(r)
      PROVE  OneIsOpen'
  <2>1. /\ reqs' = [reqs EXCEPT ![run[r].id] = Advanced(r)]
        /\ Advanced(r).st = "open" => Open \subseteq {run[r].id}
        /\ run[r].id \in Ids /\ Advanced(r).st \in {"open", "closed"}
    BY <1>3, AdvanceCases
  <2>2. CASE Advanced(r).st = "open"
    <3>1. Open' \subseteq Open \cup {run[r].id}
      BY <2>1 DEF Open
    <3>2. QED
      BY <2>1, <2>2, <3>1
  <2>3. CASE Advanced(r).st = "closed"
    <3>1. Open' \subseteq Open
      BY <2>1, <2>3 DEF Open
    <3>2. QED
      BY <3>1
  <2>4. QED
    BY <2>1, <2>2, <2>3
<1>4. CASE UNCHANGED reqs
  BY <1>4 DEF Open
<1>5. QED
  BY <1>1, <1>2, <1>3, <1>4
  DEF Next, Messages, Post, Upsert, UpsertCommit, UseBot, Answer, Charge, SweepPick, Steps,
      Runner, AdvanceFails, RunnerStops

LEMMA RowsStep ==
    ASSUME IInv, Next, NEW k \in Ids
    PROVE  RowHolds(k)'
<1>0. /\ reqs \in [Ids -> Request] /\ reqs' \in [Ids -> Request] /\ TypeOK'
      /\ RowHolds(k) /\ clock \in Time /\ clock' \in Time
  BY RowsAndRunsTyped, TypesStep DEF IInv, TypeOK
<1>1. ASSUME NEW row \in Request, row = reqs[k], row = reqs'[k]
      PROVE  RowHolds(k)'
  <2>1. row.at \in Time
    BY DEF Request
  <2>2. DoneFor(row.step, row.at) => DoneFor(row.step, row.at)'
    BY <2>1, DoneStays
  <2>3. QED
    BY <1>0, <1>1, <2>2 DEF RowHolds, Standing
<1>2. CASE UNCHANGED reqs
  BY <1>0, <1>1, <1>2
<1>3. ASSUME NEW r \in Runners, Runner(r)
      PROVE  RowHolds(k)'
  <2>1. reqs'[k] = reqs[k] \/ ~Standing(k)'
    BY <1>0, <1>3, StepsTaken DEF Kept, Standing, NoRequest
  <2>2. QED
    BY <1>0, <1>1, <2>1 DEF RowHolds
<1>4. ASSUME NEW r \in Askers, NEW mode \in Modes, Ask(r, mode)
      PROVE  RowHolds(k)'
  <2>1. PICK j \in Ids :
           /\ reqs' = [reqs EXCEPT ![j] = Opened(mode)]
           /\ clock' = clock + 1
           /\ Opened(mode) \in Request /\ Opened(mode).st = "open"
           /\ \/ Opened(mode).at = clock' /\ Opened(mode).step = RECORDED
              \/ /\ j \in Open /\ Opened(mode).at = reqs[j].at
                 /\ Opened(mode).step \in {RECORDED, reqs[j].step}
    BY <1>4, AskCases
  <2>2. CASE j # k
    BY <1>0, <1>1, <2>1, <2>2
  <2>3. ASSUME j = k, NEW row \in Request, row = Opened(mode)
        PROVE  RowHolds(k)'
    <3>1. reqs'[k] = row /\ row.st = "open"
      BY <1>0, <2>1, <2>3
    <3>2. ASSUME NEW t \in Time, t = row.at, NEW step \in ErasureStep, step = row.step
          PROVE  DoneFor(step, t)'
      <4>1. CASE t = clock' /\ step = RECORDED
        BY <1>0, <4>1, ErasureNumbers DEF DoneFor, RECORDED, REIMPORT_STOPPED, PURGED, Time
      <4>2. CASE k \in Open /\ t = reqs[k].at /\ step \in {RECORDED, reqs[k].step}
        <5>1. DoneFor(reqs[k].step, t) /\ t <= clock
          BY <1>0, <4>2 DEF RowHolds, Standing, Open, DoneFor
        <5>2. DoneFor(step, t)
          BY <4>2, <5>1, DoneForFirst DEF IInv
        <5>3. QED
          BY <5>2, DoneStays
      <4>3. QED
        BY <2>1, <2>3, <3>2, <4>1, <4>2
    <3>3. QED
      BY <3>1, <3>2 DEF RowHolds, Request
  <2>4. QED
    BY <2>1, <2>2, <2>3
<1>5. ASSUME NEW r \in Runners, Advance(r)
      PROVE  RowHolds(k)'
  <2>1. CASE run[r].id # k
    BY <1>0, <1>1, <1>5, <2>1, AdvanceCases
  <2>2. ASSUME run[r].id = k, NEW row \in Request, row = Advanced(r)
        PROVE  RowHolds(k)'
    <3>1. /\ reqs'[k] = row
          /\ row.st = "closed" => row.step = COMPLETE
          /\ Standing(k) /\ row.at = run[r].at /\ reqs[k].at = run[r].at
          /\ row.step \in {reqs[k].step, NextStep(run[r].step)}
          /\ DoneFor(NextStep(run[r].step), run[r].at)
      BY <1>0, <1>5, <2>2, AdvanceCases
    <3>2. DoneFor(row.step, row.at)
      BY <1>0, <3>1 DEF RowHolds
    <3>3. ASSUME NEW t \in Time, t = row.at, NEW step \in ErasureStep, step = row.step
          PROVE  DoneFor(step, t)'
      BY <3>2, <3>3, DoneStays
    <3>4. QED
      BY <3>1, <3>3 DEF RowHolds, Request
  <2>3. QED
    BY <1>5, <2>1, <2>2, AdvanceCases
<1>6. QED
  BY <1>2, <1>3, <1>4, <1>5
  DEF Next, Messages, Post, Upsert, UpsertCommit, UseBot, Answer, Charge, SweepPick, Steps,
      Runner, AdvanceFails, RunnerStops

(* What a runner that takes up a row must know of it.                       *)
LEMMA ResumedHolds ==
    ASSUME NEW r \in Runners, NEW k \in Ids, NEW row \in Request,
           run' = [run EXCEPT ![r] = Resumed(k, row)], run \in [Runners -> Run],
           reqs'[k].st # "none", Standing(k)' => reqs'[k].at = row.at,
           DoneFor(row.step, row.at)'
    PROVE  RunHolds(r)'
<1>1. run'[r] = Resumed(k, row)
  OBVIOUS
<1>2. CASE row.step = COMPLETE
  BY <1>1, <1>2 DEF Resumed, RunHolds, IdleRun
<1>3. ASSUME row.step # COMPLETE, NEW copy, copy = run'[r], NEW t, t = row.at,
             NEW step, step = row.step
      PROVE  RunHolds(r)'
  <2>1. /\ copy.pc = IF step = TOMBSTONED THEN "advance" ELSE "work"
        /\ copy.id = k /\ copy.step = step /\ copy.at = t
    BY <1>1, <1>3 DEF Resumed
  <2>2. DoneFor(step, t)'
    BY <1>3
  <2>3. copy.pc = "advance" => DoneFor(NextStep(step), t)'
    BY <2>1, <2>2, StepsInOrder DEF DoneFor, TOMBSTONED, COMPLETE, PURGED, REIMPORT_STOPPED
  <2>4. QED
    BY <1>3, <2>1, <2>2, <2>3 DEF RunHolds
<1>4. QED
  BY <1>2, <1>3

(* What a runner that goes on knew it knows still.                          *)
LEMMA RunStays ==
    ASSUME IInv, Next, NEW r \in Runners, run'[r] = run[r]
    PROVE  RunHolds(r)'
<1>1. CASE run[r].pc = "idle"
  BY <1>1 DEF RunHolds
<1>2. ASSUME run[r].pc # "idle", NEW copy \in Run, copy = run[r],
             NEW t \in Time, t = copy.at, NEW step \in ErasureStep, step = copy.step
      PROVE  RunHolds(r)'
  <2>1. /\ copy.id \in Ids /\ step # COMPLETE
        /\ reqs[copy.id].st # "none"
        /\ Standing(copy.id) => reqs[copy.id].at = t
        /\ DoneFor(step, t)
        /\ copy.pc = "second" /\ step = RECORDED => Stopped(t)
        /\ copy.pc = "second" /\ step = TRACES_MARKED => MessagesErased(t)
        /\ copy.pc = "advance" => DoneFor(NextStep(step), t)
    BY <1>2 DEF IInv, RunHolds
  <2>2. /\ reqs'[copy.id].st # "none"
        /\ Standing(copy.id)' => reqs'[copy.id].at = t
    BY <2>1, RowsStay
  <2>3. t <= clock
    BY <2>1 DEF DoneFor
  <2>4. /\ DoneFor(step, t)'
        /\ copy.pc = "second" /\ step = RECORDED => Stopped(t)'
        /\ copy.pc = "second" /\ step = TRACES_MARKED => MessagesErased(t)'
    BY <2>1, <2>3, Stays, DoneStays DEF IInv
  <2>5. copy.pc = "advance" => DoneFor(NextStep(step), t)'
    BY <2>1, DoneStays
  <2>6. QED
    BY <1>2, <2>1, <2>2, <2>4, <2>5 DEF RunHolds
<1>3. QED
  BY <1>1, <1>2 DEF IInv, TypeOK, Run

LEMMA RunsStep ==
    ASSUME IInv, Next, NEW r \in Runners
    PROVE  RunHolds(r)'
<1>0. /\ run \in [Runners -> Run] /\ reqs \in [Ids -> Request] /\ reqs' \in [Ids -> Request]
      /\ RunHolds(r)
  BY RowsAndRunsTyped DEF IInv, TypeOK
<1>1. ASSUME Runner(r)
      PROVE  RunHolds(r)'
  <2>1. PICK pc \in {"second", "advance"} : run' = [run EXCEPT ![r].pc = pc]
    BY <1>1, StepsTaken
  <2>2. ASSUME NEW copy \in Run, copy = run[r],
               NEW t \in Time, t = copy.at, NEW step \in ErasureStep, step = copy.step
        PROVE  RunHolds(r)'
    <3>1. /\ run'[r].pc = pc /\ run'[r].id = copy.id /\ run'[r].step = step /\ run'[r].at = t
      BY <1>0, <2>1, <2>2 DEF Run
    <3>2. /\ copy.pc \in {"work", "second"} /\ copy.id \in Ids /\ step # COMPLETE
          /\ reqs[copy.id].st # "none" /\ DoneFor(step, t)
          /\ Standing(copy.id) => reqs[copy.id].at = t
      BY <1>0, <1>1, <2>2, StepsTaken DEF RunHolds
    <3>3. DoneFor(step, t)'
      BY <3>2, DoneStays
    <3>4. /\ reqs'[copy.id].st # "none"
          /\ Standing(copy.id)' => reqs'[copy.id].at = t
      BY <3>2, RowsStay
    <3>5. /\ copy.pc = "work" /\ step = RECORDED => Stopped(t)'
          /\ copy.pc = "work" /\ step = TRACES_MARKED => MessagesErased(t)'
          /\ pc = "advance" => DoneFor(NextStep(step), t)'
      BY <1>1, <2>2, <3>1, StepsDo
    <3>6. pc = "second" => copy.pc = "work"
      <4>1. StopReimport(r) \/ PurgePerson(r) => run[r].pc = "work"
        BY DEF StopReimport, PurgePerson, At
      <4>2. \/ StopReimport(r) \/ PurgePerson(r)
            \/ run' = [run EXCEPT ![r].pc = "advance"]
        BY <1>1 DEF Runner, Exclude, WithdrawTraces, PurgeDerived, FoldVoice, TombstonePerson, Then
      <4>3. QED
        <5>1. run' = [run EXCEPT ![r].pc = "advance"] => run'[r].pc = "advance"
          BY <1>0 DEF Run
        <5>2. QED
          BY <2>2, <3>1, <4>1, <4>2, <5>1
    <3>7. QED
      BY <3>1, <3>2, <3>3, <3>4, <3>5, <3>6 DEF RunHolds
  <2>3. QED
    BY <1>0, <2>2 DEF Run
<1>2. ASSUME NEW mode \in Modes, r \in Askers, Ask(r, mode)
      PROVE  RunHolds(r)'
  <2>1. PICK k \in Ids : /\ reqs' = [reqs EXCEPT ![k] = Opened(mode)]
                         /\ run' = [run EXCEPT ![r] = Resumed(k, Opened(mode))]
                         /\ Opened(mode) \in Request /\ Opened(mode).st = "open"
    BY <1>2, AskCases
  <2>2. ASSUME NEW row \in Request, row = Opened(mode)
        PROVE  RunHolds(r)'
    <3>1. /\ reqs'[k] = row /\ row.st = "open" /\ run' = [run EXCEPT ![r] = Resumed(k, row)]
      BY <1>0, <2>1, <2>2
    <3>2. DoneFor(row.step, row.at)'
      <4>1. RowHolds(k)'
        BY RowsStep
      <4>2. QED
        BY <3>1, <4>1 DEF RowHolds, Standing
    <3>3. QED
      BY <1>0, <3>1, <3>2, ResumedHolds
  <2>3. QED
    BY <2>1, <2>2
<1>3. ASSUME NEW k \in Ids, r = Sweep, SweepPick(k)
      PROVE  RunHolds(r)'
  <2>1. ASSUME NEW row \in Request, row = reqs[k]
        PROVE  RunHolds(r)'
    <3>1. /\ reqs'[k] = row /\ row.st = "open" /\ run' = [run EXCEPT ![r] = Resumed(k, row)]
      BY <1>3, <2>1 DEF SweepPick, Open
    <3>2. DoneFor(row.step, row.at)'
      <4>1. RowHolds(k)'
        BY RowsStep
      <4>2. QED
        BY <3>1, <4>1 DEF RowHolds, Standing
    <3>3. QED
      BY <1>0, <3>1, <3>2, ResumedHolds
  <2>2. QED
    BY <1>0, <2>1
<1>4. CASE Advance(r)
  <2>1. ASSUME NEW row \in Request, row = Advanced(r), NEW k \in Ids, k = run[r].id
        PROVE  RunHolds(r)'
    <3>1. /\ reqs'[k] = row /\ row.st \in {"open", "closed"}
          /\ run' = [run EXCEPT ![r] = Resumed(k, row)]
      BY <1>0, <1>4, <2>1, AdvanceCases
    <3>2. DoneFor(row.step, row.at)'
      <4>1. RowHolds(k)'
        BY RowsStep
      <4>2. QED
        BY <3>1, <4>1 DEF RowHolds, Standing
    <3>3. QED
      BY <1>0, <3>1, <3>2, ResumedHolds
  <2>2. QED
    BY <1>4, <2>1, AdvanceCases
<1>5. CASE AdvanceFails(r) \/ RunnerStops(r)
  BY <1>0, <1>5 DEF AdvanceFails, RunnerStops, RunHolds, IdleRun
<1>6. CASE run'[r] = run[r]
  BY <1>6, RunStays
<1>7. QED
  <2>1. ASSUME NEW q \in Runners, Runner(q) \/ Advance(q) \/ AdvanceFails(q) \/ RunnerStops(q)
        PROVE  RunHolds(r)'
    <3>1. CASE q = r
      BY <1>1, <1>4, <1>5, <2>1, <3>1
    <3>2. CASE q # r
      <4>1. run'[r] = run[r]
        BY <1>0, <2>1, <3>2, StepsTaken DEF Advance, AdvanceFails, RunnerStops
      <4>2. QED
        BY <1>6, <4>1
    <3>3. QED
      BY <3>1, <3>2
  <2>2. ASSUME NEW q \in Askers, NEW mode \in Modes, Ask(q, mode)
        PROVE  RunHolds(r)'
    <3>1. q = r \/ run'[r] = run[r]
      BY <1>0, <2>2 DEF Ask
    <3>2. QED
      BY <1>2, <1>6, <2>2, <3>1
  <2>3. ASSUME NEW k \in Ids, SweepPick(k)
        PROVE  RunHolds(r)'
    <3>1. Sweep = r \/ run'[r] = run[r]
      BY <1>0, <2>3 DEF SweepPick
    <3>2. QED
      BY <1>3, <1>6, <2>3, <3>1
  <2>4. CASE UNCHANGED run
    BY <1>6, <2>4
  <2>5. QED
    BY <2>1, <2>2, <2>3, <2>4
    DEF Next, Messages, Post, Upsert, UpsertCommit, UseBot, Answer, Charge, Steps, Runner

LEMMA ErasureInit == Init => IInv
<1> SUFFICES ASSUME Init PROVE IInv
  OBVIOUS
<1> USE ErasureNumbers DEF Init
<1>1. TypeOK /\ writing \cap stored = {}
  <2>1. NoRequest \in Request /\ person \in Person
    BY StepValues DEF NoRequest, Request, Modes, Time, Person
  <2>2. QED
    BY <2>1, IdleIsRun DEF TypeOK, Time
<1>2. VoiceConserved /\ OneIsOpen
  BY DEF VoiceConserved, OneIsOpen, Open, NoRequest
<1>3. \A k \in Ids : RowHolds(k)
  BY DEF RowHolds, Standing, NoRequest
<1>4. \A r \in Runners : RunHolds(r)
  BY DEF RunHolds, IdleRun
<1>5. QED
  BY <1>1, <1>2, <1>3, <1>4 DEF IInv

LEMMA ErasureStutters == IInv /\ UNCHANGED vars => IInv'
BY DEF vars, IInv, TypeOK, OneIsOpen, Open, VoiceConserved, RowHolds, RunHolds, Standing,
       DoneFor, Stopped, MessagesErased, DerivedErased

LEMMA ErasureInvariant == Spec => []IInv
<1>1. IInv /\ [Next]_vars => IInv'
  BY TypesStep, OneOpenStep, RowsStep, RunsStep, ErasureStutters DEF IInv
<1>2. QED
  BY ErasureInit, <1>1, PTL DEF Spec

LEMMA DoneMeansErased == IInv => CompletedErases /\ VoiceConserved
BY StepValues DEF IInv, RowHolds, Standing, DoneFor, MessagesErased, DerivedErased,
                  CompletedErases, PURGED, COMPLETE

(* A completed request has erased what is older than it, and it stays       *)
(* erased, and the voice total does not move, wherever runners stop, resume *)
(* and repeat, also when a person confirms twice at a time and runners      *)
(* overlap (ErasureService.run, resume; reject_opted_out_message; the fold  *)
(* of the voice ledger).                                                    *)
THEOREM CompletedStaysErased == Spec => [](CompletedErases /\ VoiceConserved)
BY ErasureInvariant, DoneMeansErased, PTL

(* There is never a second open request for a person (the statement         *)
(* OPEN_REQUEST and the index ux_erasure_request_open).                     *)
THEOREM OneRequestOpen == Spec => []OneOpen
<1>1. IInv => OneOpen
  <2> SUFFICES ASSUME IInv PROVE OneOpen
    OBVIOUS
  <2>1. CASE Open = {}
    BY <2>1, FS_EmptySet DEF OneOpen
  <2>2. ASSUME NEW k \in Open
        PROVE  OneOpen
    <3>1. Open = {k}
      BY <2>2 DEF IInv, OneIsOpen
    <3>2. QED
      BY <3>1, FS_Singleton DEF OneOpen
  <2>3. QED
    BY <2>1, <2>2
<1>2. QED
  BY ErasureInvariant, <1>1, PTL

(* The steps of one runner, by what they leave of rows and runners.         *)
LEMMA RunnerLeaves ==
    ASSUME IInv, NEW r \in Runners, Runner(r), NEW step, step = run[r].step
    PROVE  /\ run[r].pc \in {"work", "second"}
           /\ run'[r].id = run[r].id /\ run'[r].step = step /\ run'[r].mode = run[r].mode
           /\ run'[r].pc \in {"second", "advance"}
           /\ \A q \in Runners : q # r => run'[q] = run[q]
           /\ Open' = Open /\ \A k \in Open : reqs'[k] = reqs[k]
           /\ \A k \in Ids : Standing(k)' => reqs'[k] = reqs[k]
           /\ UNCHANGED <<outrun, faults>>
           /\ person.opted_out => person'.opted_out
           /\ run'[r].pc = "advance" /\ step = RECORDED /\ run[r].mode = "erase_and_opt_out"
                 => person'.opted_out
           /\ run'[r].pc = "advance" /\ step = REIMPORT_STOPPED => WithdrawTraces(r)
<1>0. /\ run \in [Runners -> Run] /\ reqs \in [Ids -> Request] /\ person \in Person
      /\ step \in ErasureStep \ {COMPLETE}
  <2>1. run[r].pc # "idle"
    BY StepsTaken
  <2>2. QED
    BY <2>1 DEF IInv, RunHolds, TypeOK, Run
<1>1. PICK pc \in {"second", "advance"} : run' = [run EXCEPT ![r].pc = pc]
  BY StepsTaken
<1>2. /\ run'[r].pc = pc /\ run'[r].id = run[r].id /\ run'[r].step = step
      /\ run'[r].mode = run[r].mode /\ run[r].pc \in {"work", "second"}
      /\ \A q \in Runners : q # r => run'[q] = run[q]
  BY <1>0, <1>1, StepsTaken DEF Run
<1>3. /\ Open' = Open /\ \A k \in Open : reqs'[k] = reqs[k]
      /\ \A k \in Ids : Standing(k)' => reqs'[k] = reqs[k]
  BY <1>0, StepsTaken DEF Kept, Open, Standing, NoRequest
<1>4. UNCHANGED <<outrun, faults>> /\ (person.opted_out => person'.opted_out)
  BY <1>0 DEF Runner, StopReimport, Exclude, WithdrawTraces, PurgePerson, PurgeDerived,
              FoldVoice, TombstonePerson, Person, rest
<1>5. CASE StopReimport(r)
  <2>1. step = RECORDED
    BY <1>0, <1>5, NextStepFollows DEF StopReimport, At
  <2>2. pc = "advance" => run[r].mode # "erase_and_opt_out"
    <3>1. run' = [run EXCEPT ![r].pc = IF run[r].mode = "erase_and_opt_out" THEN "second"
                                       ELSE "advance"]
      BY <1>5 DEF StopReimport, Then
    <3>2. run'[r].pc = IF run[r].mode = "erase_and_opt_out" THEN "second" ELSE "advance"
      BY <1>0, <3>1 DEF Run
    <3>3. QED
      BY <1>2, <3>2
  <2>3. QED
    BY <1>2, <1>3, <1>4, <2>1, <2>2 DEF RECORDED, REIMPORT_STOPPED
<1>6. CASE Exclude(r)
  <2>1. person'.opted_out /\ step = RECORDED
    BY <1>0, <1>6, NextStepFollows DEF Exclude, Person, At
  <2>2. QED
    BY <1>2, <1>3, <1>4, <2>1 DEF RECORDED, REIMPORT_STOPPED
<1>7. CASE WithdrawTraces(r)
  <2>1. step = REIMPORT_STOPPED
    BY <1>0, <1>7, NextStepFollows DEF WithdrawTraces, At
  <2>2. QED
    BY <1>2, <1>3, <1>4, <1>7, <2>1 DEF RECORDED, REIMPORT_STOPPED
<1>8. CASE PurgePerson(r) \/ PurgeDerived(r) \/ FoldVoice(r) \/ TombstonePerson(r)
  <2>1. step \in {TRACES_MARKED, PURGED, VOICE_FOLDED}
    BY <1>0, <1>8, NextStepFollows DEF PurgePerson, PurgeDerived, FoldVoice, TombstonePerson, At
  <2>2. QED
    BY <1>2, <1>3, <1>4, <2>1
    DEF RECORDED, REIMPORT_STOPPED, TRACES_MARKED, PURGED, VOICE_FOLDED
<1>9. QED
  BY <1>5, <1>6, <1>7, <1>8 DEF Runner

-----------------------------------------------------------------------------
(* The traces *)

(* That the traces are behind is a runner's doing who marks them now, or    *)
(* was so before: whoever takes up a row, or puts one back, finds it so.    *)
LEMMA BehindCases ==
    ASSUME IInv, Next, TracesBehind'
    PROVE  TracesBehind \/ (\E r \in Runners : WithdrawTraces(r))
<1> SUFFICES ASSUME ~TracesBehind, \A r \in Runners : ~WithdrawTraces(r)
             PROVE  FALSE
  OBVIOUS
<1>0. /\ run \in [Runners -> Run] /\ reqs \in [Ids -> Request]
      /\ TRACES_MARKED # COMPLETE /\ TRACES_MARKED # RECORDED /\ REIMPORT_STOPPED # TOMBSTONED
      /\ TRACES_MARKED # TOMBSTONED
  BY DEF IInv, TypeOK, TRACES_MARKED, COMPLETE, RECORDED, REIMPORT_STOPPED, TOMBSTONED
<1>1. ASSUME NEW r \in Runners, NEW k \in Ids, NEW row \in Request,
             run' = [run EXCEPT ![r] = Resumed(k, row)],
             reqs' = [reqs EXCEPT ![k] = row],
             row.step # TRACES_MARKED
      PROVE  FALSE
  <2>1. /\ run'[r] = Resumed(k, row) /\ \A q \in Runners : q # r => run'[q] = run[q]
        /\ reqs'[k] = row /\ \A j \in Ids : j # k => reqs'[j] = reqs[j]
    BY <1>0, <1>1
  <2>2. /\ ~(run'[r].step = TRACES_MARKED /\ run'[r].pc = "work")
        /\ ~(run'[r].step = REIMPORT_STOPPED /\ run'[r].pc = "advance")
    <3>1. CASE row.step = COMPLETE
      BY <2>1, <3>1 DEF Resumed, IdleRun
    <3>2. CASE row.step # COMPLETE
      <4>1. run'[r].step = row.step /\ (run'[r].pc = "advance" => row.step = TOMBSTONED)
        BY <2>1, <3>2 DEF Resumed
      <4>2. QED
        BY <1>0, <1>1, <4>1
    <3>3. QED
      BY <3>1, <3>2
  <2>3. QED
    BY <1>1, <2>1, <2>2 DEF TracesBehind, Open
<1>2. ASSUME NEW r \in Runners, Runner(r)
      PROVE  FALSE
  <2>1. /\ run'[r].step = run[r].step /\ run'[r].pc \in {"second", "advance"}
        /\ ~(run'[r].pc = "advance" /\ run[r].step = REIMPORT_STOPPED)
        /\ \A q \in Runners : q # r => run'[q] = run[q]
        /\ Open' = Open /\ \A k \in Open : reqs'[k] = reqs[k]
    BY <1>2, RunnerLeaves
  <2>2. QED
    BY <2>1 DEF TracesBehind
<1>3. ASSUME NEW r \in Askers, NEW mode \in Modes, Ask(r, mode)
      PROVE  FALSE
  <2>1. PICK k \in Ids :
           /\ reqs' = [reqs EXCEPT ![k] = Opened(mode)]
           /\ run' = [run EXCEPT ![r] = Resumed(k, Opened(mode))]
           /\ Opened(mode) \in Request
           /\ \/ Opened(mode).step = RECORDED
              \/ k \in Open /\ Opened(mode).step \in {RECORDED, reqs[k].step}
    BY <1>3, AskCases
  <2>2. r \in Runners
    BY DEF Runners
  <2>3. Opened(mode).step # TRACES_MARKED
    BY <1>0, <2>1 DEF TracesBehind
  <2>4. QED
    BY <1>1, <2>1, <2>2, <2>3
<1>4. ASSUME NEW k \in Ids, SweepPick(k)
      PROVE  FALSE
  <2>1. /\ k \in Open /\ run' = [run EXCEPT ![Sweep] = Resumed(k, reqs[k])]
        /\ reqs' = reqs /\ Sweep \in Runners
    BY <1>4 DEF SweepPick, Runners
  <2>2. reqs[k].step # TRACES_MARKED /\ reqs' = [reqs EXCEPT ![k] = reqs[k]]
    BY <1>0, <2>1 DEF TracesBehind
  <2>3. QED
    BY <1>0, <1>1, <2>1, <2>2
<1>5. ASSUME NEW r \in Runners, Advance(r)
      PROVE  FALSE
  <2>1. /\ run[r].id \in Ids /\ Standing(run[r].id) /\ Advanced(r) \in Request
        /\ Advanced(r).step \in {reqs[run[r].id].step, NextStep(run[r].step)}
        /\ run[r].step \in ErasureStep \ {COMPLETE} /\ run[r].pc = "advance"
        /\ reqs' = [reqs EXCEPT ![run[r].id] = Advanced(r)]
        /\ run' = [run EXCEPT ![r] = Resumed(run[r].id, Advanced(r))]
    BY <1>5, AdvanceCases DEF Advance
  <2>2. reqs[run[r].id].step # TRACES_MARKED
    BY <1>0, <2>1 DEF IInv, RowHolds, Standing, TracesBehind, Open
  <2>3. NextStep(run[r].step) # TRACES_MARKED
    BY <2>1, NextStepFollows DEF TracesBehind
  <2>4. QED
    BY <1>1, <2>1, <2>2, <2>3
<1>6. ASSUME NEW r \in Runners, AdvanceFails(r) \/ RunnerStops(r)
      PROVE  FALSE
  <2>1. run' = [run EXCEPT ![r] = IdleRun] /\ UNCHANGED reqs
    BY <1>6 DEF AdvanceFails, RunnerStops
  <2>2. run'[r].pc = "idle" /\ \A q \in Runners : q # r => run'[q] = run[q]
    BY <1>0, <2>1 DEF IdleRun
  <2>3. QED
    BY <2>1, <2>2 DEF TracesBehind, Open
<1>7. CASE UNCHANGED <<reqs, run>>
  BY <1>7 DEF TracesBehind, Open
<1>8. QED
  BY <1>2, <1>3, <1>4, <1>5, <1>6, <1>7
  DEF Next, Messages, Post, Upsert, UpsertCommit, UseBot, Answer, Charge, Steps, Runner

LEMMA TracesStep ==
    ASSUME IInv, TracesHold, Next
    PROVE  TracesHold'
<1> USE DEF TracesHold, TracesMarkedFirst
<1>1. ASSUME NEW r \in Runners, WithdrawTraces(r)
      PROVE  TracesHold'
  BY <1>1 DEF WithdrawTraces
<1>2. ASSUME NEW m \in posted, Answer(m)
      PROVE  TracesHold'
  <2>1. TracesBehind' = TracesBehind
    BY <1>2 DEF Answer, TracesBehind, Open
  <2>2. QED
    BY <1>2, <2>1 DEF Answer
<1>3. ASSUME NEW r \in Runners, PurgePerson(r)
      PROVE  TracesHold'
  <2>1. run[r].step = TRACES_MARKED /\ run[r].pc = "work"
    <3>1. run[r].step \in ErasureStep \ {COMPLETE}
      BY <1>3 DEF PurgePerson, At, IInv, RunHolds, TypeOK, Run
    <3>2. QED
      BY <1>3, <3>1, NextStepFollows DEF PurgePerson, At
  <2>2. TracesBehind /\ UNCHANGED <<quoting, between>>
    BY <1>3, <2>1 DEF TracesBehind, PurgePerson
  <2>3. QED
    BY <2>2
<1>4. ASSUME UNCHANGED <<quoting, between>>, stored \subseteq stored',
             TracesBehind' => TracesBehind
      PROVE  TracesHold'
  BY <1>4
<1>5. ASSUME \A r \in Runners : ~WithdrawTraces(r)
      PROVE  TracesBehind' => TracesBehind
  BY <1>5, BehindCases
<1>6. ASSUME NEW m \in posted, Upsert(m) \/ UpsertCommit(m)
      PROVE  UNCHANGED <<quoting, between>> /\ stored \subseteq stored'
  BY <1>6 DEF Upsert, UpsertCommit, rest
<1>7. QED
  BY <1>1, <1>2, <1>3, <1>4, <1>5, <1>6
  DEF Next, Messages, Post, UseBot, Charge, Ask, SweepPick, Steps, StopReimport, Exclude,
      PurgeDerived, FoldVoice, TombstonePerson, Advance, AdvanceFails, RunnerStops, corpus, rest

-----------------------------------------------------------------------------
(* The exclusion *)

(* A runner that takes up a row, or puts one back, has not the exclusion    *)
(* before it, or begins with it.                                            *)
TakenUp(r, k, row) ==
    /\ run' = [run EXCEPT ![r] = Resumed(k, row)] /\ reqs' = [reqs EXCEPT ![k] = row]
    /\ run[r].pc \in {"idle", "advance"}
    /\ reqs[k].st = "none" \/ Standing(k)
    /\ outrun \subseteq outrun' /\ UNCHANGED <<person, faults>>

LEMMA TakenKeepsExclusion ==
    ASSUME IInv, ExclusionHolds, NEW r \in Runners, NEW k \in Ids, NEW row \in Request,
           TakenUp(r, k, row),
           Standing(k) /\ Second(reqs[k]) => Second(row),
           Second(row) => row.step = RECORDED \/ (Standing(k) /\ Second(reqs[k])),
           Second(row) /\ row.step >= REIMPORT_STOPPED /\ k \notin outrun' => person.opted_out
    PROVE  ExclusionHolds'
<1>1. run \in [Runners -> Run] /\ reqs \in [Ids -> Request]
  BY DEF IInv, TypeOK
<1>2. /\ run'[r] = Resumed(k, row) /\ reqs'[k] = row
      /\ \A q \in Runners : q # r => run'[q] = run[q]
      /\ \A j \in Ids : j # k => reqs'[j] = reqs[j]
      /\ outrun \subseteq outrun' /\ UNCHANGED <<person, faults>>
  BY <1>1 DEF TakenUp
<1>3. \/ run'[r].pc = "idle" /\ row.step = COMPLETE
      \/ /\ run'[r].id = k /\ run'[r].step = row.step /\ run'[r].mode = row.mode
         /\ run'[r].pc = "work" \/ (run'[r].pc = "advance" /\ row.step = TOMBSTONED)
  BY <1>2 DEF Resumed, IdleRun
<1>4. ASSUME NEW j \in Ids, \E q \in Runners : Excluding(q, j)
      PROVE  \E q \in Runners : Excluding(q, j)'
  <2>1. PICK q \in Runners : Excluding(q, j)
    BY <1>4
  <2>2. q # r
    BY <2>1 DEF Excluding, TakenUp
  <2>3. Excluding(q, j)'
    BY <1>2, <2>1, <2>2 DEF Excluding
  <2>4. QED
    BY <2>3
<1>5. ASSUME NEW j \in Ids
      PROVE  RowExcludes(j)'
  <2>1. CASE j # k
    <3>1. RowExcludes(j)
      BY DEF ExclusionHolds
    <3>2. QED
      BY <1>2, <1>4, <2>1, <3>1 DEF RowExcludes, Standing
  <2>2. CASE j = k
    <3>1. ASSUME Second(row), faults = 0, ~person.opted_out
          PROVE  \E q \in Runners : Excluding(q, k)'
      <4>1. CASE row.step = RECORDED
        <5>1. Excluding(r, k)'
          BY <1>2, <1>3, <3>1, <4>1 DEF Excluding, Second, RECORDED, COMPLETE, TOMBSTONED
        <5>2. QED
          BY <5>1
      <4>2. CASE Standing(k) /\ Second(reqs[k])
        BY <1>4, <3>1, <4>2 DEF ExclusionHolds, RowExcludes
      <4>3. QED
        BY <3>1, <4>1, <4>2
    <3>2. QED
      BY <1>2, <2>2, <3>1 DEF RowExcludes, Second
  <2>3. QED
    BY <2>1, <2>2
<1>6. ASSUME NEW q \in Runners
      PROVE  RunExcludes(q)'
  <2>1. CASE q = r
    BY <1>2, <1>3, <2>1 DEF RunExcludes, Second, TOMBSTONED, REIMPORT_STOPPED
  <2>2. ASSUME q # r, run[q].pc # "idle", Second(run[q])
        PROVE  RunExcludes(q)'
    <3>1. RunExcludes(q) /\ reqs[run[q].id].st # "none" /\ run[q].id \in Ids
      BY <2>2 DEF ExclusionHolds, IInv, RunHolds
    <3>2. run[q].id = k => Second(row)
      BY <2>2, <3>1 DEF TakenUp, RunExcludes
    <3>3. QED
      BY <1>2, <2>2, <3>1, <3>2 DEF RunExcludes, Standing, Second
  <2>3. QED
    BY <1>2, <2>1, <2>2 DEF RunExcludes
<1>7. QED
  BY <1>5, <1>6 DEF ExclusionHolds

LEMMA ExclusionStep ==
    ASSUME IInv, ExclusionHolds, Next
    PROVE  ExclusionHolds'
<1>0. run \in [Runners -> Run] /\ reqs \in [Ids -> Request]
  BY DEF IInv, TypeOK
<1>1. ASSUME NEW r \in Runners, Runner(r), NEW step, step = run[r].step
      PROVE  ExclusionHolds'
  <2>1. /\ run[r].pc \in {"work", "second"}
        /\ run'[r].id = run[r].id /\ run'[r].step = step /\ run'[r].mode = run[r].mode
        /\ run'[r].pc \in {"second", "advance"}
        /\ \A q \in Runners : q # r => run'[q] = run[q]
        /\ \A k \in Ids : Standing(k)' => reqs'[k] = reqs[k]
        /\ UNCHANGED <<outrun, faults>>
        /\ person.opted_out => person'.opted_out
        /\ run'[r].pc = "advance" /\ step = RECORDED /\ Second(run[r]) => person'.opted_out
    BY <1>1, RunnerLeaves DEF Second
  <2>2. step >= REIMPORT_STOPPED \/ step = RECORDED
    <3>1. step \in ErasureStep
      BY <1>0, <1>1 DEF Run
    <3>2. QED
      BY <3>1 DEF ErasureStep, RECORDED, REIMPORT_STOPPED, TRACES_MARKED, PURGED, VOICE_FOLDED,
                  TOMBSTONED, COMPLETE
  <2>3. \A k \in Ids : Standing(k)' => Standing(k)
    BY <2>1 DEF Standing
  <2>4. ASSUME NEW k \in Ids, NEW q \in Runners, Excluding(q, k), ~person'.opted_out
        PROVE  Excluding(q, k)'
    <3>1. CASE q = r
      BY <1>1, <2>1, <2>4, <3>1 DEF Excluding, Second
    <3>2. CASE q # r
      BY <2>1, <2>4, <3>2 DEF Excluding, Second
    <3>3. QED
      BY <3>1, <3>2
  <2>5. ASSUME NEW k \in Ids
        PROVE  RowExcludes(k)'
    <3>1. RowExcludes(k)
      BY DEF ExclusionHolds
    <3>2. QED
      BY <2>1, <2>3, <2>4, <3>1 DEF RowExcludes, Second
  <2>6. ASSUME NEW q \in Runners
        PROVE  RunExcludes(q)'
    <3>1. RunExcludes(q) /\ (run[q].pc # "idle" => run[q].id \in Ids)
      BY DEF ExclusionHolds, IInv, RunHolds
    <3>2. CASE q # r
      BY <2>1, <2>3, <3>1, <3>2 DEF RunExcludes, Second
    <3>3. CASE q = r
      BY <1>1, <2>1, <2>2, <2>3, <3>1, <3>3 DEF RunExcludes, Second
    <3>4. QED
      BY <3>2, <3>3
  <2>7. QED
    BY <2>5, <2>6 DEF ExclusionHolds
<1>2. ASSUME NEW r \in Askers, NEW mode \in Modes, Ask(r, mode)
      PROVE  ExclusionHolds'
  <2>1. PICK k \in Ids : /\ reqs' = [reqs EXCEPT ![k] = Opened(mode)]
                         /\ run' = [run EXCEPT ![r] = Resumed(k, Opened(mode))]
                         /\ Open # {} => k \in Open
                         /\ Open = {} => reqs[k].st = "none"
    BY <1>2 DEF Ask, Open, Unused
  <2>2. /\ Opened(mode) \in Request
        /\ \/ Open = {} /\ Opened(mode).step = RECORDED
           \/ k \in Open /\ Opened(mode) = reqs[k]
           \/ k \in Open /\ Opened(mode).mode = mode /\ Opened(mode).step = RECORDED
    BY <1>2, <2>1, OpenedCases DEF Ask, IInv
  <2>3. /\ r \in Runners /\ run[r].pc = "idle" /\ UNCHANGED <<person, outrun, faults>>
    BY <1>2 DEF Ask, rest, Runners
  <2>4. k \in Open /\ Second(reqs[k]) => Second(Opened(mode))
    <3>1. ASSUME k \in Open, Second(reqs[k])
          PROVE  Opened(mode) = reqs[k]
      <4>1. (CHOOSE j \in Open : TRUE) = k
        BY <3>1 DEF IInv, OneIsOpen
      <4>2. QED
        BY <3>1, <4>1 DEF Opened, Second
    <3>2. QED
      BY <3>1 DEF Second
  <2>5. ASSUME NEW row \in Request, row = Opened(mode)
        PROVE  ExclusionHolds'
    <3>1. TakenUp(r, k, row)
      BY <2>1, <2>3, <2>5 DEF TakenUp, Standing, Open
    <3>2. Standing(k) /\ Second(reqs[k]) => Second(row)
      BY <2>1, <2>4, <2>5 DEF Standing, Open
    <3>3. Second(row) => row.step = RECORDED \/ (Standing(k) /\ Second(reqs[k]))
      BY <2>2, <2>5 DEF Standing, Open, Second
    <3>4. Second(row) /\ row.step >= REIMPORT_STOPPED /\ k \notin outrun' => person.opted_out
      <4>1. RowExcludes(k)
        BY DEF ExclusionHolds
      <4>2. QED
        BY <2>2, <2>3, <2>5, <4>1
        DEF RowExcludes, Standing, Open, Second, RECORDED, REIMPORT_STOPPED
    <3>5. QED
      BY <2>3, <3>1, <3>2, <3>3, <3>4, TakenKeepsExclusion
  <2>6. QED
    BY <2>2, <2>5
<1>3. ASSUME NEW k \in Ids, SweepPick(k)
      PROVE  ExclusionHolds'
  <2>1. /\ k \in Open /\ run' = [run EXCEPT ![Sweep] = Resumed(k, reqs[k])]
        /\ run[Sweep].pc = "idle" /\ Sweep \in Runners
        /\ UNCHANGED <<person, reqs, outrun, faults>>
    BY <1>3 DEF SweepPick, Runners, rest
  <2>2. ASSUME NEW row \in Request, row = reqs[k]
        PROVE  ExclusionHolds'
    <3>1. TakenUp(Sweep, k, row)
      BY <1>0, <2>1, <2>2 DEF TakenUp, Standing, Open
    <3>2. Standing(k)
      BY <2>1 DEF Standing, Open
    <3>3. RowExcludes(k)
      BY DEF ExclusionHolds
    <3>4. QED
      BY <2>1, <2>2, <3>1, <3>2, <3>3, TakenKeepsExclusion DEF RowExcludes
  <2>3. QED
    BY <1>0, <2>2
<1>4. ASSUME NEW r \in Runners, Advance(r)
      PROVE  ExclusionHolds'
  <2>1. ASSUME NEW row \in Request, row = Advanced(r), NEW k \in Ids, k = run[r].id
        PROVE  ExclusionHolds'
    <3>1. /\ run[r].pc = "advance" /\ UNCHANGED <<person, faults>>
          /\ outrun' = IF run[r].mode = reqs[k].mode THEN outrun ELSE outrun \cup {k}
      BY <1>4, <2>1 DEF Advance
    <3>2. Standing(k) /\ row.mode = reqs[k].mode
      BY <1>4, <2>1, AdvanceCases, AdvancedType DEF IInv
    <3>3. TakenUp(r, k, row)
      BY <1>4, <2>1, <3>1, <3>2, AdvanceCases DEF TakenUp
    <3>4. Second(row) /\ k \notin outrun' => person.opted_out
      <4>1. Second(row) /\ k \notin outrun' => Second(run[r]) /\ k \notin outrun
        BY <3>1, <3>2 DEF Second
      <4>2. RunExcludes(r)
        BY DEF ExclusionHolds
      <4>3. QED
        BY <2>1, <3>1, <4>1, <4>2 DEF RunExcludes
    <3>5. QED
      BY <3>2, <3>3, <3>4, TakenKeepsExclusion DEF Second
  <2>2. QED
    BY <1>4, <2>1, AdvanceCases
<1>5. ASSUME NEW r \in Runners, AdvanceFails(r) \/ RunnerStops(r)
      PROVE  ExclusionHolds'
  <2>1. /\ run' = [run EXCEPT ![r] = IdleRun] /\ UNCHANGED <<reqs, person, outrun>>
        /\ faults' # 0 \/ (faults' = faults /\ run[r].pc = "advance")
    BY <1>5 DEF AdvanceFails, RunnerStops, rest, IInv, TypeOK
  <2>2. run'[r].pc = "idle" /\ \A q \in Runners : q # r => run'[q] = run[q]
    BY <1>0, <2>1 DEF IdleRun
  <2>3. ASSUME NEW k \in Ids, faults' = 0, \E q \in Runners : Excluding(q, k)
        PROVE  faults = 0 /\ \E q \in Runners : Excluding(q, k)'
    <3>1. PICK q \in Runners : Excluding(q, k)
      BY <2>3
    <3>2. q # r /\ faults = 0
      BY <2>1, <2>3, <3>1 DEF Excluding
    <3>3. Excluding(q, k)'
      BY <2>2, <3>1, <3>2 DEF Excluding
    <3>4. QED
      BY <3>2, <3>3
  <2>4. ASSUME NEW k \in Ids
        PROVE  RowExcludes(k)'
    <3>1. RowExcludes(k) /\ (faults' = 0 => faults = 0)
      BY <2>1 DEF ExclusionHolds
    <3>2. QED
      BY <2>1, <2>3, <3>1 DEF RowExcludes, Standing
  <2>5. \A q \in Runners : RunExcludes(q)'
    BY <2>1, <2>2 DEF ExclusionHolds, RunExcludes, Standing
  <2>6. QED
    BY <2>4, <2>5 DEF ExclusionHolds
<1>6. CASE UNCHANGED <<run, reqs, outrun, faults>> /\ person'.opted_out = person.opted_out
  BY <1>6 DEF ExclusionHolds, RowExcludes, RunExcludes, Excluding, Standing, Second
<1>7. ASSUME NEW m \in posted, Upsert(m)
      PROVE  person'.opted_out = person.opted_out
  BY <1>7 DEF Upsert, IInv, TypeOK, Person
<1>8. QED
  BY <1>1, <1>2, <1>3, <1>4, <1>5, <1>6, <1>7
  DEF Next, Messages, Post, Upsert, UpsertCommit, UseBot, Answer, Charge, Steps, Runner, rest

LEMMA PromisesInvariant == Spec => [](IInv /\ TracesHold /\ ExclusionHolds)
<1>1. Init => TracesHold /\ ExclusionHolds
  BY DEF Init, TracesHold, TracesMarkedFirst, ExclusionHolds, RowExcludes, RunExcludes, Standing,
         NoRequest, IdleRun
<1>2. TracesHold /\ ExclusionHolds /\ UNCHANGED vars => TracesHold' /\ ExclusionHolds'
  BY DEF vars, TracesHold, TracesMarkedFirst, TracesBehind, Open, ExclusionHolds, RowExcludes,
         RunExcludes, Excluding, Standing, Second
<1>3. IInv /\ TracesHold /\ ExclusionHolds /\ [Next]_vars => TracesHold' /\ ExclusionHolds'
  BY <1>2, TracesStep, ExclusionStep
<1>4. QED
  BY ErasureInvariant, <1>1, <1>3, PTL DEF Spec

(* The first button erases, the second keeps the person out as well, the    *)
(* voice total does not move and no trace outlives unmarked the message     *)
(* that says whose words it quotes, for any number of runners that overlap, *)
(* repeat each other's steps and stop, and whatever is written about the    *)
(* person and quoted of them meanwhile (ErasureService.run; ADVANCE).  What *)
(* is not promised is named: an upsert past the guard before re-import was  *)
(* stopped (`late`), a message quoted between the marking and the purge     *)
(* (`between`), and an exclusion still to come where a runner with an older *)
(* copy recorded a step (`outrun`), which is made before the runners are    *)
(* gone unless one of them stopped.                                         *)
THEOREM ErasurePromises == Spec => []ErasureInv
<1>1. ASSUME IInv, ExclusionHolds
      PROVE  OptOutKeptUnlessOutrun
  <2>1. SUFFICES ASSUME NEW k \in Ids, reqs[k].st = "closed",
                        reqs[k].mode = "erase_and_opt_out",
                        k \in outrun => AtRest(k) /\ faults = 0
                 PROVE  person.opted_out
    BY DEF OptOutKeptUnlessOutrun
  <2>2. RowExcludes(k) /\ Standing(k) /\ Second(reqs[k])
    BY <1>1, <2>1 DEF ExclusionHolds, Standing, Second
  <2>3. CASE k \in outrun
    BY <2>1, <2>2, <2>3 DEF RowExcludes, Excluding, AtRest
  <2>4. CASE k \notin outrun
    <3>1. reqs[k].step = COMPLETE
      BY <1>1, <2>1, <2>2 DEF IInv, RowHolds
    <3>2. QED
      BY <2>2, <2>4, <3>1 DEF RowExcludes, COMPLETE, REIMPORT_STOPPED
  <2>5. QED
    BY <2>3, <2>4
<1>2. IInv /\ TracesHold /\ ExclusionHolds => ErasureInv
  BY <1>1, DoneMeansErased DEF TracesHold, ErasureInv
<1>3. QED
  BY PromisesInvariant, <1>2, PTL
=============================================================================
