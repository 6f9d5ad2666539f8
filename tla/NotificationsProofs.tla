------------------------- MODULE NotificationsProofs -------------------------
(***************************************************************************)
(* Theorems about Notifications, for any people, asks, intervals and       *)
(* bounds.                                                                 *)
(***************************************************************************)
EXTENDS Notifications, TLAPS

-----------------------------------------------------------------------------
(* Typing of the helpers *)

LEMMA Numbers ==
    /\ RowAge \in Nat /\ HeardAge \in Nat /\ MaxPass \in Nat
    /\ MinInterval \in Nat \ {0} /\ MaxAge \in Nat
    /\ MaxMoves \in Nat /\ MaxFaults \in Nat
BY NotificationsAssumption DEF RowAge, HeardAge

LEMMA OlderType ==
    ASSUME NEW cap \in Nat, NEW n \in 0..cap
    PROVE  Older(n, cap) \in 0..cap
BY DEF Older, AtMost

LEMMA SettledType ==
    ASSUME row \in [Asks -> Row], NEW S, NEW o \in Outcomes \cup {"none", "pending"}
    PROVE  Settled(S, o) \in [Asks -> Row]
BY Numbers DEF Settled, Row

LEMMA IdleType == IdleDrain \in Pass
BY Numbers DEF IdleDrain, Pass

LEMMA OnwardType ==
    ASSUME drain \in Pass, NEW p
    PROVE  Onward(p) \in Pass
<1>1. CASE drain.todo = {p}
  BY <1>1, IdleType DEF Onward
<1>2. CASE drain.todo # {p}
  <2>1. drain.age \in 0..MaxPass /\ drain.todo \ {p} \in SUBSET People
        /\ drain.first \in SUBSET People
    BY DEF Pass
  <2>2. Onward(p) = [pc |-> "resolve", age |-> drain.age, todo |-> drain.todo \ {p},
                     first |-> drain.first, who |-> Nobody, viewer |-> {}, items |-> {},
                     result |-> "none", arrived |-> "nothing"]
    BY <1>2 DEF Onward, IdleDrain
  <2>3. QED
    BY <2>1, <2>2 DEF Pass
<1>3. QED
  BY <1>1, <1>2

-----------------------------------------------------------------------------
(* Type correctness *)

LEMMA TypeInit == Init => TypeOK
<1> SUFFICES ASSUME Init PROVE TypeOK
  OBVIOUS
<1>1. row \in [Asks -> Row] /\ pref \in [People -> Preference]
  BY Numbers DEF Init, NoRow, Row, Preference
<1>2. drain \in Pass
  BY IdleType DEF Init
<1>3. heard \in [People -> 0..HeardAge] /\ status \in [Asks -> Statuses]
  BY Numbers DEF Init, Statuses
<1>4. sweep \in Sweeping
  BY Numbers DEF Init, Sweeping
<1>5. asked \in 0..(MaxAge + 1) /\ moves \in 0..MaxMoves /\ faults \in 0..MaxFaults
  BY Numbers DEF Init
<1>6. QED
  BY <1>1, <1>2, <1>3, <1>4, <1>5 DEF Init, TypeOK

LEMMA TypeTick == ASSUME TypeOK, Tick PROVE TypeOK'
<1>1. asked' \in 0..(MaxAge + 1)
  <2>1. asked \in 0..(MaxAge + 1) /\ MaxAge + 1 \in Nat
    BY Numbers DEF TypeOK
  <2>2. QED
    BY <2>1, OlderType DEF Tick
<1>2. row' \in [Asks -> Row]
  <2>1. SUFFICES ASSUME NEW a \in Asks
                 PROVE  [row[a] EXCEPT !.age = Older(@, RowAge)] \in Row /\ row[a] \in Row
    BY DEF Tick
  <2>2. row[a] \in Row
    BY DEF TypeOK
  <2>3. Older(row[a].age, RowAge) \in 0..RowAge
    BY <2>2, OlderType, Numbers DEF Row
  <2>4. QED
    BY <2>2, <2>3 DEF Row
<1>3. pref' \in [People -> Preference]
  <2>1. SUFFICES ASSUME NEW p \in People
                 PROVE  [pref[p] EXCEPT !.last = Older(@, MinInterval),
                                        !.attempt = Older(@, MinInterval)] \in Preference
    BY DEF Tick
  <2>2. pref[p] \in Preference
    BY DEF TypeOK
  <2>3. Older(pref[p].last, MinInterval) \in 0..MinInterval
    BY <2>2, OlderType, Numbers DEF Preference
  <2>4. Older(pref[p].attempt, MinInterval) \in 0..MinInterval
    BY <2>2, OlderType, Numbers DEF Preference
  <2>5. QED
    BY <2>2, <2>3, <2>4 DEF Preference
<1>4. heard' \in [People -> 0..HeardAge]
  <2>1. ASSUME NEW p \in People PROVE Older(heard[p], HeardAge) \in 0..HeardAge
    BY OlderType, Numbers DEF TypeOK
  <2>2. QED
    BY <2>1 DEF Tick
<1>5. sweep' \in Sweeping
  <2>1. sweep \in Sweeping /\ (sweep.pc # "queue" => sweep.age < MaxPass)
    BY DEF TypeOK, Tick
  <2>2. sweep' = IF sweep.pc = "queue" THEN sweep ELSE [sweep EXCEPT !.age = @ + 1]
    BY DEF Tick
  <2>3. sweep.pc # "queue" => sweep.age + 1 \in 0..MaxPass
    BY <2>1, Numbers DEF Sweeping
  <2>4. QED
    BY <2>1, <2>2, <2>3 DEF Sweeping
<1>6. drain' \in Pass
  <2>1. CASE drain.pc = "idle"
    BY <2>1 DEF TypeOK, Tick
  <2>2. CASE drain.pc # "idle"
    <3>1. drain \in Pass /\ drain.age + 1 \in 0..MaxPass
      <4>1. drain \in Pass
        BY DEF TypeOK
      <4>2. drain.age < MaxPass
        BY <2>2 DEF Tick
      <4>3. drain.age \in 0..MaxPass
        BY <4>1 DEF Pass
      <4>4. QED
        BY <4>1, <4>2, <4>3, Numbers
    <3>2. drain' = [drain EXCEPT !.age = drain.age + 1]
      BY <2>2 DEF Tick
    <3>3. QED
      BY <3>1, <3>2 DEF Pass
  <2>3. QED
    BY <2>1, <2>2
<1>7. QED
  BY <1>1, <1>2, <1>3, <1>4, <1>5, <1>6
  DEF TypeOK, Tick, obligations, access

LEMMA TypeMove == ASSUME TypeOK, Move PROVE moves' \in 0..MaxMoves
BY Numbers DEF TypeOK, Move

\* What becomes of the asks, and of what their addressees may read.
LEMMA TypeAsk ==
    ASSUME TypeOK, NEW a \in Asks,
           \/ RecordAsk(a) \/ PruneAsk(a) \/ RecordReaction(a) \/ RemoveReaction(a)
           \/ Reply(a) \/ Correct(a) \/ DeleteSource(a) \/ Revoke(a) \/ Regain(a)
    PROVE  TypeOK'
<1> USE DEF obligations, access, ghosts
<1>1. CASE RecordAsk(a)
  BY <1>1 DEF TypeOK, RecordAsk, Statuses
<1>2. CASE PruneAsk(a)
  <2>1. NoRow \in Row
    BY Numbers DEF NoRow, Row
  <2>2. QED
    BY <1>2, <2>1, TypeMove DEF TypeOK, PruneAsk, Statuses
<1>3. CASE RecordReaction(a)
  BY <1>3, TypeMove DEF TypeOK, RecordReaction, Statuses
<1>4. CASE RemoveReaction(a)
  BY <1>4 DEF TypeOK, RemoveReaction, Statuses
<1>5. CASE Reply(a)
  BY <1>5, TypeMove DEF TypeOK, Reply
<1>6. CASE Correct(a)
  BY <1>6, TypeMove DEF TypeOK, Correct
<1>7. CASE DeleteSource(a)
  BY <1>7, TypeMove DEF TypeOK, DeleteSource
<1>8. CASE Revoke(a)
  BY <1>8, TypeMove DEF TypeOK, Revoke
<1>9. CASE Regain(a)
  BY <1>9 DEF TypeOK, Regain
<1>10. QED
  BY <1>1, <1>2, <1>3, <1>4, <1>5, <1>6, <1>7, <1>8, <1>9

LEMMA TypeRefresh == ASSUME TypeOK, RefreshState PROVE TypeOK'
<1>1. status' \in [Asks -> Statuses]
  BY DEF TypeOK, RefreshState, Statuses
<1>2. QED
  BY <1>1 DEF TypeOK, RefreshState, access, ghosts

LEMMA TypePerson ==
    ASSUME TypeOK, NEW p \in People,
           Resolvable(p) \/ OptOut(p) \/ \E enabled \in BOOLEAN : SetEnabled(p, enabled)
    PROVE  TypeOK'
<1> USE DEF obligations, access, ghosts
<1>1. CASE Resolvable(p)
  BY <1>1, TypeMove DEF TypeOK, Resolvable
<1>2. CASE OptOut(p)
  <2>1. row' \in [Asks -> Row]
    BY <1>2, Numbers DEF TypeOK, OptOut, NoRow, Row
  <2>2. QED
    BY <1>2, <2>1, TypeMove DEF TypeOK, OptOut
<1>3. ASSUME NEW enabled \in BOOLEAN, SetEnabled(p, enabled) PROVE TypeOK'
  <2>1. WithEnabled(pref[p], enabled) \in Preference
    BY DEF TypeOK, WithEnabled, Preference
  <2>2. pref' \in [People -> Preference]
    BY <1>3, <2>1 DEF TypeOK, SetEnabled
  <2>3. QED
    BY <1>3, <2>2, TypeMove DEF TypeOK, SetEnabled
<1>4. QED
  BY <1>1, <1>2, <1>3

LEMMA TypeSweep == ASSUME TypeOK, Sweep \/ SweepFails PROVE TypeOK'
<1> USE DEF obligations, access, ghosts, ingestUnchanged
<1>1. CASE QueueObligations
  <2>1. row' \in [Asks -> Row]
    BY <1>1, SettledType DEF TypeOK, QueueObligations
  <2>2. sweep' \in Sweeping
    BY <1>1, Numbers DEF QueueObligations, Sweeping
  <2>3. QED
    BY <1>1, <2>1, <2>2 DEF TypeOK, QueueObligations
<1>2. CASE WithdrawSettled
  <2>1. row' \in [Asks -> Row]
    BY <1>2, SettledType DEF TypeOK, WithdrawSettled, Outcomes
  <2>2. sweep' \in Sweeping
    BY <1>2 DEF TypeOK, WithdrawSettled, Sweeping
  <2>3. QED
    BY <1>2, <2>1, <2>2 DEF TypeOK, WithdrawSettled
<1>3. CASE ExpirePending
  <2>1. row' \in [Asks -> Row]
    BY <1>3, SettledType DEF TypeOK, ExpirePending, Outcomes
  <2>2. sweep' \in Sweeping
    BY <1>3, Numbers DEF ExpirePending, Sweeping
  <2>3. QED
    BY <1>3, <2>1, <2>2 DEF TypeOK, ExpirePending
<1>4. CASE SweepFails
  <2>1. sweep' \in Sweeping
    BY <1>4, Numbers DEF SweepFails, Sweeping
  <2>2. faults' \in 0..MaxFaults
    BY <1>4, Numbers DEF TypeOK, SweepFails
  <2>3. QED
    BY <1>4, <2>1, <2>2 DEF TypeOK, SweepFails
<1>5. QED
  BY <1>1, <1>2, <1>3, <1>4 DEF Sweep

-----------------------------------------------------------------------------
(* A pass *)

Working == {"read", "settle", "send", "record"}

\* Whom a pass is busy with is one of its recipients, and what arrived is
\* forgotten with the recipient.  TypeOK needs it: only people become lost.
PassInv ==
    /\ drain.pc \in Working => drain.who \in drain.todo
    /\ drain.arrived # "nothing" => drain.pc = "record"

LEMMA OnwardFields ==
    ASSUME NEW p
    PROVE  /\ Onward(p).pc \in {"idle", "resolve"}
           /\ Onward(p).arrived = "nothing"
           /\ Onward(p).todo \subseteq drain.todo
           /\ Onward(p).todo = {} \/ Onward(p).first = drain.first
<1>1. CASE drain.todo = {p}
  BY <1>1 DEF Onward, IdleDrain
<1>2. CASE drain.todo # {p}
  BY <1>2 DEF Onward, IdleDrain
<1>3. QED
  BY <1>1, <1>2

LEMMA TypeClaim == ASSUME TypeOK, Claim PROVE drain' \in Pass /\ PassInv'
<1>1. PICK S \in SUBSET Due :
         drain' = [IdleDrain EXCEPT !.pc = "resolve", !.todo = S,
                                    !.first = {p \in S : ~pref[p].first}]
  BY DEF Claim
<1>2. S \subseteq People
  BY DEF Due
<1>3. drain' = [pc |-> "resolve", age |-> 0, todo |-> S, first |-> {p \in S : ~pref[p].first},
                who |-> Nobody, viewer |-> {}, items |-> {}, result |-> "none",
                arrived |-> "nothing"]
  BY <1>1 DEF IdleDrain
<1>4. drain' \in Pass
  BY <1>2, <1>3, Numbers DEF Pass
<1>5. QED
  BY <1>3, <1>4 DEF PassInv, Working

LEMMA TypeResolve == ASSUME TypeOK, PassInv, Resolve PROVE drain' \in Pass /\ PassInv'
<1>1. PICK p \in drain.todo :
         drain' = IF p \in cold THEN Onward(p)
                  ELSE [drain EXCEPT !.pc = "read", !.who = p,
                                     !.viewer = AsksOf(p) \cap readable]
  BY DEF Resolve
<1>2. CASE p \in cold
  BY <1>1, <1>2, OnwardType, OnwardFields DEF TypeOK, PassInv, Working
<1>3. CASE p \notin cold
  <2>1. drain \in Pass /\ drain.pc = "resolve"
    BY DEF TypeOK, Resolve
  <2>2. p \in People /\ AsksOf(p) \cap readable \in SUBSET Asks
    BY <2>1 DEF Pass, AsksOf
  <2>3. drain' = [drain EXCEPT !.pc = "read", !.who = p, !.viewer = AsksOf(p) \cap readable]
    BY <1>1, <1>3
  <2>4. drain' \in Pass
    BY <2>1, <2>2, <2>3 DEF Pass
  <2>5. drain.arrived = "nothing"
    BY <2>1 DEF PassInv
  <2>6. drain'.who = p /\ drain'.todo = drain.todo /\ drain'.arrived = drain.arrived
    BY <2>1, <2>3 DEF Pass
  <2>7. QED
    BY <2>4, <2>5, <2>6, <1>1 DEF PassInv
<1>4. QED
  BY <1>2, <1>3

LEMMA TypePendingFor == ASSUME TypeOK, PassInv, PendingFor PROVE drain' \in Pass /\ PassInv'
<1>1. PICK shown \in Oldest(MaxItems, Tellable(drain.who)) :
         drain' = [drain EXCEPT !.pc = "settle", !.items = shown]
  BY DEF PendingFor
<1>2. shown \in SUBSET Asks
  BY DEF Oldest, Tellable, PendingOf, AsksOf
<1>3. drain \in Pass /\ drain.pc = "read"
  BY DEF TypeOK, PendingFor
<1>4. drain' \in Pass
  BY <1>1, <1>2, <1>3 DEF Pass
<1>5. drain'.pc = "settle" /\ drain'.who = drain.who /\ drain'.todo = drain.todo
      /\ drain'.arrived = drain.arrived
  BY <1>1, <1>3 DEF Pass
<1>6. QED
  BY <1>3, <1>4, <1>5 DEF PassInv, Working

LEMMA TypeSettleUnreadable ==
    ASSUME TypeOK, PassInv, SettleUnreadable PROVE drain' \in Pass /\ PassInv'
<1>1. drain \in Pass /\ drain.pc = "settle"
  BY DEF TypeOK, SettleUnreadable
<1>2. CASE drain.items = {}
  <2>1. drain' = Onward(drain.who)
    BY <1>2 DEF SettleUnreadable
  <2>2. QED
    BY <1>1, <2>1, OnwardType, OnwardFields DEF PassInv, Working
<1>3. CASE drain.items # {}
  <2>1. drain' = [drain EXCEPT !.pc = "send"]
    BY <1>3 DEF SettleUnreadable
  <2>2. drain' \in Pass
    BY <1>1, <2>1 DEF Pass
  <2>3. drain'.pc = "send" /\ drain'.who = drain.who /\ drain'.todo = drain.todo
        /\ drain'.arrived = drain.arrived
    BY <1>1, <2>1 DEF Pass
  <2>4. QED
    BY <1>1, <2>2, <2>3 DEF PassInv, Working
<1>4. QED
  BY <1>2, <1>3

LEMMA TypeSend == ASSUME TypeOK, PassInv, Send PROVE TypeOK' /\ PassInv'
<1>1. drain \in Pass /\ drain.pc = "send" /\ drain.who \in drain.todo
  BY DEF TypeOK, Send, PassInv, Working
<1>2. PICK d \in Deliveries :
         /\ drain' = [drain EXCEPT !.pc = "record", !.result = d[1], !.arrived = d[2]]
         /\ told' = IF d[2] = "all" THEN told \cup drain.items ELSE told
         /\ knows' = IF d[2] = "all" /\ drain.who \in drain.first
                     THEN knows \cup {drain.who} ELSE knows
         /\ heard' = IF d[2] = "nothing" THEN heard
                     ELSE [heard EXCEPT ![drain.who] = drain.age]
  BY DEF Send
<1>3. d[1] \in {"sent", "failed", "closed"} /\ d[2] \in {"nothing", "part", "all"}
  BY DEF Deliveries
<1>4. drain' \in Pass
  BY <1>1, <1>2, <1>3 DEF Pass
<1>5. PassInv'
  <2>1. drain'.pc = "record" /\ drain'.who = drain.who /\ drain'.todo = drain.todo
    BY <1>1, <1>2 DEF Pass
  <2>2. QED
    BY <1>1, <2>1 DEF PassInv
<1>6. told' \subseteq Asks /\ knows' \subseteq People
  BY <1>1, <1>2 DEF TypeOK, Pass
<1>7. heard' \in [People -> 0..HeardAge]
  <2>1. drain.age \in 0..HeardAge
    BY <1>1, Numbers DEF Pass, HeardAge
  <2>2. QED
    BY <1>2, <2>1 DEF TypeOK
<1>8. QED
  BY <1>4, <1>5, <1>6, <1>7 DEF TypeOK, Send, drainUnchanged, obligations, access

LEMMA BeganType == ASSUME TypeOK PROVE Began \in 0..MinInterval
BY Numbers DEF TypeOK, Pass, Began, AtMost

LEMMA TypeMarkSent == ASSUME TypeOK, PassInv, MarkSent PROVE TypeOK' /\ PassInv'
<1> DEFINE p == drain.who
<1>1. /\ row' = Settled(PendingOf(p) \cap drain.items, "sent")
      /\ pref' = [pref EXCEPT ![p] = [pref[p] EXCEPT !.first = TRUE, !.last = Began]]
      /\ drain' = Onward(p)
      /\ lost' = lost \ {p}
      /\ delivered' = delivered \cup {a \in Asks : row'[a].state = "sent"}
  BY DEF MarkSent, Marked
<1>2. row' \in [Asks -> Row]
  BY <1>1, SettledType DEF TypeOK, Outcomes
<1>3. pref' \in [People -> Preference]
  BY <1>1, BeganType DEF TypeOK, Preference
<1>4. drain' \in Pass /\ PassInv'
  BY <1>1, OnwardType, OnwardFields DEF TypeOK, PassInv, Working
<1>5. delivered' \subseteq Asks /\ lost' \subseteq People
  BY <1>1 DEF TypeOK
<1>6. QED
  BY <1>2, <1>3, <1>4, <1>5 DEF TypeOK, MarkSent, drainUnchanged, obligations, access

LEMMA TypeRecordAttempt ==
    ASSUME TypeOK, PassInv, RecordAttempt PROVE TypeOK' /\ PassInv'
<1>1. /\ pref' = [pref EXCEPT ![drain.who] = [@ EXCEPT !.attempt = Began]]
      /\ drain' = Onward(drain.who)
      /\ lost' = lost \ {drain.who}
  BY DEF RecordAttempt, Stamped
<1>2. pref' \in [People -> Preference]
  BY <1>1, BeganType DEF TypeOK, Preference
<1>3. drain' \in Pass /\ PassInv'
  BY <1>1, OnwardType, OnwardFields DEF TypeOK, PassInv, Working
<1>4. QED
  BY <1>1, <1>2, <1>3 DEF TypeOK, RecordAttempt, drainUnchanged, obligations, access

LEMMA TypeRecordUndeliverable ==
    ASSUME TypeOK, PassInv, RecordUndeliverable PROVE TypeOK' /\ PassInv'
<1>1. /\ pref' = [pref EXCEPT ![drain.who].undeliverable = TRUE]
      /\ row' = Settled(PendingOf(drain.who), "undeliverable")
      /\ drain' = Onward(drain.who)
  BY DEF RecordUndeliverable
<1>2. pref' \in [People -> Preference]
  BY <1>1 DEF TypeOK, Preference
<1>3. row' \in [Asks -> Row]
  BY <1>1, SettledType DEF TypeOK, Outcomes
<1>4. drain' \in Pass /\ PassInv'
  BY <1>1, OnwardType, OnwardFields DEF TypeOK, PassInv, Working
<1>5. lost' \subseteq People
  <2>1. drain.who \in People
    BY DEF TypeOK, PassInv, Pass, Working, RecordUndeliverable
  <2>2. QED
    BY <2>1 DEF TypeOK, RecordUndeliverable
<1>6. QED
  BY <1>2, <1>3, <1>4, <1>5
  DEF TypeOK, RecordUndeliverable, drainUnchanged, obligations, access

LEMMA TypeDrainFails == ASSUME TypeOK, PassInv, DrainFails PROVE TypeOK' /\ PassInv'
<1>1. drain' \in Pass /\ PassInv'
  BY IdleType DEF DrainFails, PassInv, IdleDrain, Working
<1>2. lost' \subseteq People
  BY DEF TypeOK, PassInv, Pass, Working, DrainFails
<1>3. faults' \in 0..MaxFaults
  BY Numbers DEF TypeOK, DrainFails
<1>4. QED
  BY <1>1, <1>2, <1>3 DEF TypeOK, DrainFails, drainUnchanged, obligations, access

\* The steps that leave the pass alone.
LEMMA PassKept ==
    ASSUME TypeOK, PassInv,
           drain' = drain \/ (drain.pc # "idle" /\ drain' = [drain EXCEPT !.age = @ + 1])
    PROVE  PassInv'
BY DEF TypeOK, Pass, PassInv, Working

LEMMA TypeDrain == ASSUME TypeOK, PassInv, Drain \/ DrainFails PROVE TypeOK' /\ PassInv'
<1> USE DEF drainUnchanged, obligations, access, ghosts
<1>1. CASE Claim
  BY <1>1, TypeClaim DEF TypeOK, Claim
<1>2. CASE Resolve
  BY <1>2, TypeResolve DEF TypeOK, Resolve
<1>3. CASE PendingFor
  BY <1>3, TypePendingFor DEF TypeOK, PendingFor
<1>4. CASE SettleUnreadable
  <2>1. row' \in [Asks -> Row]
    BY <1>4, SettledType DEF TypeOK, SettleUnreadable, Outcomes
  <2>2. QED
    BY <1>4, <2>1, TypeSettleUnreadable DEF TypeOK, SettleUnreadable
<1>5. QED
  BY <1>1, <1>2, <1>3, <1>4, TypeSend, TypeMarkSent, TypeRecordAttempt,
     TypeRecordUndeliverable, TypeDrainFails DEF Drain

LEMMA TypeNext == ASSUME TypeOK, PassInv, [Next]_vars PROVE TypeOK' /\ PassInv'
<1> USE DEF obligations, access, ghosts
<1>1. CASE Tick
  BY <1>1, TypeTick, PassKept DEF Tick
<1>2. ASSUME NEW a \in Asks,
             \/ RecordAsk(a) \/ PruneAsk(a) \/ RecordReaction(a) \/ RemoveReaction(a)
             \/ Reply(a) \/ Correct(a) \/ DeleteSource(a) \/ Revoke(a) \/ Regain(a)
      PROVE TypeOK' /\ PassInv'
  <2>1. drain' = drain
    BY <1>2 DEF RecordAsk, PruneAsk, RecordReaction, RemoveReaction, Reply, Correct,
                DeleteSource, Revoke, Regain
  <2>2. QED
    BY <1>2, <2>1, TypeAsk, PassKept
<1>3. CASE RefreshState
  BY <1>3, TypeRefresh, PassKept DEF RefreshState
<1>4. ASSUME NEW p \in People,
             Resolvable(p) \/ OptOut(p) \/ \E enabled \in BOOLEAN : SetEnabled(p, enabled)
      PROVE TypeOK' /\ PassInv'
  <2>1. drain' = drain
    BY <1>4 DEF Resolvable, OptOut, SetEnabled
  <2>2. QED
    BY <1>4, <2>1, TypePerson, PassKept
<1>5. CASE Sweep \/ SweepFails
  <2>1. drain' = drain
    BY <1>5 DEF Sweep, SweepFails, QueueObligations, WithdrawSettled, ExpirePending,
                ingestUnchanged
  <2>2. QED
    BY <1>5, <2>1, TypeSweep, PassKept
<1>6. CASE Drain \/ DrainFails
  BY <1>6, TypeDrain
<1>7. CASE UNCHANGED vars
  BY <1>7 DEF TypeOK, PassInv, vars
<1>8. QED
  BY <1>1, <1>2, <1>3, <1>4, <1>5, <1>6, <1>7 DEF Next

\* Every variable keeps its type, whoever is due and however long a pass takes
\* (the columns of notification and notification_preference, and the Recipient
\* and Viewer that a pass holds on to).
THEOREM TypeCorrect == Spec => []TypeOK
<1>1. Init => TypeOK /\ PassInv
  BY TypeInit DEF Init, PassInv, IdleDrain, Working
<1>2. TypeOK /\ PassInv /\ [Next]_vars => (TypeOK /\ PassInv)'
  BY TypeNext
<1>3. QED
  BY <1>1, <1>2, PTL DEF Spec

-----------------------------------------------------------------------------
(* What the sweep, the people and the pass do to the rows *)

\* A row gets another outcome only from the statement that settles it with it.
LEMMA RowStep ==
    ASSUME TypeOK, [Next]_vars, NEW a \in Asks, row'[a].state # row[a].state
    PROVE  \/ row'[a].state \in {"none", "pending", "withdrawn", "expired", "undeliverable"}
           \/ SettleUnreadable /\ a \in PendingOf(drain.who) \ drain.viewer
              /\ row'[a].state = "unreadable"
           \/ MarkSent /\ a \in drain.items /\ row'[a].state = "sent"
<1> DEFINE Harmless == {"none", "pending", "withdrawn", "expired", "undeliverable"}
<1> USE DEF obligations, access, ghosts, ingestUnchanged, drainUnchanged
<1>1. ASSUME NEW S, NEW o, row' = Settled(S, o)
      PROVE  a \in S /\ row'[a].state = o
  BY <1>1 DEF Settled
<1>2. CASE Tick
  <2>1. row'[a] = row[a] \/ row'[a] = [row[a] EXCEPT !.age = Older(row[a].age, RowAge)]
    BY <1>2 DEF Tick
  <2>2. row[a] \in Row
    BY DEF TypeOK
  <2>3. QED
    BY <2>1, <2>2 DEF Row
<1>3. ASSUME NEW b \in Asks,
             \/ RecordAsk(b) \/ PruneAsk(b) \/ RecordReaction(b) \/ RemoveReaction(b)
             \/ Reply(b) \/ Correct(b) \/ DeleteSource(b) \/ Revoke(b) \/ Regain(b)
      PROVE row'[a].state \in Harmless
  <2>1. row' = row \/ row' = [row EXCEPT ![b] = NoRow]
    BY <1>3 DEF RecordAsk, PruneAsk, RecordReaction, RemoveReaction, Reply, Correct,
                DeleteSource, Revoke, Regain
  <2>2. QED
    BY <2>1 DEF NoRow, TypeOK
<1>4. CASE RefreshState
  BY <1>4 DEF RefreshState
<1>5. ASSUME NEW p \in People,
             Resolvable(p) \/ OptOut(p) \/ \E enabled \in BOOLEAN : SetEnabled(p, enabled)
      PROVE row'[a].state \in Harmless
  <2>1. row' = row \/ row' = [b \in Asks |-> IF b \in AsksOf(p) THEN NoRow ELSE row[b]]
    BY <1>5 DEF Resolvable, OptOut, SetEnabled
  <2>2. QED
    BY <2>1 DEF NoRow
<1>6. CASE QueueObligations
  BY <1>6, <1>1 DEF QueueObligations
<1>7. CASE WithdrawSettled
  BY <1>7, <1>1 DEF WithdrawSettled
<1>8. CASE ExpirePending
  BY <1>8, <1>1 DEF ExpirePending
<1>9. CASE SettleUnreadable
  BY <1>9, <1>1 DEF SettleUnreadable
<1>10. CASE MarkSent
  BY <1>10, <1>1 DEF MarkSent, Marked
<1>11. CASE RecordUndeliverable
  BY <1>11, <1>1 DEF RecordUndeliverable
<1>12. CASE SweepFails \/ Claim \/ Resolve \/ PendingFor \/ Send \/ RecordAttempt
            \/ DrainFails \/ UNCHANGED vars
  BY <1>12 DEF SweepFails, Claim, Resolve, PendingFor, Send, RecordAttempt, DrainFails, vars
<1>13. QED
  BY <1>2, <1>3, <1>4, <1>5, <1>6, <1>7, <1>8, <1>9, <1>10, <1>11, <1>12
  DEF Next, Sweep, Drain

\* The stamps of p are what they were.
SameStamps(p) == pref'[p].last = pref[p].last /\ pref'[p].attempt = pref[p].attempt

\* What people, extraction and the sweep leave alone.
LEMMA OthersStep ==
    ASSUME TypeOK, [Next]_vars, ~Tick, ~Drain, ~DrainFails
    PROVE  /\ UNCHANGED <<drain, told, knows, heard, lost>>
           /\ \A p \in People : SameStamps(p) /\ pref'[p].first = pref[p].first
<1> DEFINE Kept == UNCHANGED <<drain, told, knows, heard, lost, pref>>
<1> USE DEF ghosts, ingestUnchanged, SameStamps
<1>1. CASE RefreshState \/ Sweep \/ SweepFails \/ UNCHANGED vars
  <2>1. Kept
    BY <1>1 DEF RefreshState, Sweep, SweepFails, QueueObligations, WithdrawSettled,
                ExpirePending, vars
  <2>2. QED
    BY <2>1
<1>2. ASSUME NEW b \in Asks,
             \/ RecordAsk(b) \/ PruneAsk(b) \/ RecordReaction(b) \/ RemoveReaction(b)
             \/ Reply(b) \/ Correct(b) \/ DeleteSource(b)
      PROVE Kept
  BY <1>2 DEF RecordAsk, PruneAsk, RecordReaction, RemoveReaction, Reply, Correct,
              DeleteSource
<1>3. ASSUME NEW b \in Asks, Revoke(b) \/ Regain(b)
      PROVE Kept
  BY <1>3 DEF Revoke, Regain
<1>4. ASSUME NEW q \in People, Resolvable(q) \/ OptOut(q)
      PROVE Kept
  BY <1>4 DEF Resolvable, OptOut
<1>5. ASSUME NEW q \in People, NEW enabled \in BOOLEAN, SetEnabled(q, enabled)
      PROVE /\ UNCHANGED <<drain, told, knows, heard, lost>>
            /\ \A p \in People : SameStamps(p) /\ pref'[p].first = pref[p].first
  <2>1. /\ pref' = [pref EXCEPT ![q] = WithEnabled(pref[q], enabled)]
        /\ UNCHANGED <<drain, told, knows, heard, lost>>
    BY <1>5 DEF SetEnabled
  <2>2. /\ WithEnabled(pref[q], enabled).last = pref[q].last
        /\ WithEnabled(pref[q], enabled).attempt = pref[q].attempt
        /\ WithEnabled(pref[q], enabled).first = pref[q].first
    BY DEF TypeOK, WithEnabled, Preference
  <2>3. QED
    BY <2>1, <2>2 DEF TypeOK
<1>6. QED
  BY <1>1, <1>2, <1>3, <1>4, <1>5 DEF Next

\* How a pass goes on: where it was, one step further, or with nobody.
LEMMA PassStep ==
    ASSUME TypeOK, [Next]_vars
    PROVE  \/ UNCHANGED <<drain.pc, drain.todo, drain.first, drain.who, drain.viewer,
                          drain.items, drain.result, drain.arrived>>
           \/ drain'.pc \in {"idle", "resolve"}
           \/ Resolve \/ PendingFor \/ SettleUnreadable \/ Send
<1>1. CASE Tick
  <2>1. drain' = drain \/ drain' = [drain EXCEPT !.age = @ + 1]
    BY <1>1 DEF Tick
  <2>2. QED
    BY <2>1 DEF TypeOK, Pass
<1>2. CASE Claim
  BY <1>2 DEF Claim, IdleDrain
<1>3. CASE MarkSent \/ RecordAttempt \/ RecordUndeliverable
  BY <1>3, OnwardFields DEF MarkSent, RecordAttempt, RecordUndeliverable
<1>4. CASE DrainFails
  BY <1>4 DEF DrainFails, IdleDrain
<1>5. QED
  BY <1>1, <1>2, <1>3, <1>4, OthersStep DEF Drain

-----------------------------------------------------------------------------
(* Sent means told *)

\* A pass that is about to record a delivery has put all it read before them.
ToldInv ==
    drain.pc = "record" /\ drain.result = "sent" => drain.items \subseteq told

LEMMA ToldGrows == ASSUME TypeOK, [Next]_vars PROVE told \subseteq told'
<1>1. CASE Tick
  BY <1>1 DEF Tick
<1>2. CASE Drain \/ DrainFails
  BY <1>2 DEF Drain, DrainFails, Claim, Resolve, PendingFor, SettleUnreadable, Send,
              MarkSent, RecordAttempt, RecordUndeliverable, ghosts
<1>3. QED
  BY <1>1, <1>2, OthersStep

LEMMA ToldStep ==
    ASSUME TypeOK, ToldInv, SentMeansTold, [Next]_vars
    PROVE  ToldInv' /\ SentMeansTold'
<1>1. ToldInv'
  <2>1. CASE UNCHANGED <<drain.pc, drain.todo, drain.first, drain.who, drain.viewer,
                         drain.items, drain.result, drain.arrived>>
    BY <2>1, ToldGrows DEF ToldInv
  <2>2. CASE drain'.pc \in {"idle", "resolve"}
    BY <2>2 DEF ToldInv
  <2>3. CASE Resolve \/ PendingFor \/ SettleUnreadable
    <3>1. drain \in Pass
      BY DEF TypeOK
    <3>2. drain'.pc # "record"
      BY <2>3, <3>1, OnwardFields DEF Resolve, PendingFor, SettleUnreadable, Pass
    <3>3. QED
      BY <3>2 DEF ToldInv
  <2>4. CASE Send
    <3>1. PICK d \in Deliveries :
             /\ drain' = [drain EXCEPT !.pc = "record", !.result = d[1], !.arrived = d[2]]
             /\ told' = IF d[2] = "all" THEN told \cup drain.items ELSE told
      BY <2>4 DEF Send
    <3>2. d[1] = "sent" => d[2] = "all"
      BY DEF Deliveries
    <3>3. drain'.result = d[1] /\ drain'.items = drain.items
      BY <3>1 DEF TypeOK, Pass
    <3>4. QED
      BY <3>1, <3>2, <3>3 DEF ToldInv
  <2>5. QED
    BY <2>1, <2>2, <2>3, <2>4, PassStep
<1>2. SentMeansTold'
  <2>1. SUFFICES ASSUME NEW a \in Asks, row'[a].state = "sent"
                 PROVE  a \in told'
    BY DEF SentMeansTold
  <2>2. CASE row[a].state = "sent"
    BY <2>2, ToldGrows DEF SentMeansTold
  <2>3. CASE row[a].state # "sent"
    <3>1. MarkSent /\ a \in drain.items
      BY <2>1, <2>3, RowStep
    <3>2. a \in told
      BY <3>1 DEF ToldInv, MarkSent
    <3>3. QED
      BY <3>2, ToldGrows
  <2>4. QED
    BY <2>2, <2>3
<1>3. QED
  BY <1>1, <1>2

\* Nothing is recorded as sent that was not in a message that arrived, however
\* the sweep, extraction, the people, crashes and failed passes interleave with
\* the pass that read, sent and marked it (mark_sent).
THEOREM NothingUnsentIsMarked == Spec => []SentMeansTold
<1>1. Init => TypeOK /\ PassInv /\ ToldInv /\ SentMeansTold
  BY TypeInit DEF Init, PassInv, IdleDrain, Working, ToldInv, SentMeansTold, NoRow
<1>2. TypeOK /\ PassInv /\ ToldInv /\ SentMeansTold /\ [Next]_vars
        => (TypeOK /\ PassInv /\ ToldInv /\ SentMeansTold)'
  BY TypeNext, ToldStep
<1>3. QED
  BY <1>1, <1>2, PTL DEF Spec

-----------------------------------------------------------------------------
(* Unreadable means revoked *)

\* What somebody may not read was revoked, now or when the pass resolved them.
RevokedInv ==
    /\ Asks \ readable \subseteq revoked
    /\ drain.pc \in {"read", "settle"} => AsksOf(drain.who) \ drain.viewer \subseteq revoked

LEMMA RevokedGrows ==
    ASSUME [Next]_vars, Asks \ readable \subseteq revoked
    PROVE  revoked \subseteq revoked' /\ Asks \ readable' \subseteq revoked'
<1> USE DEF access, ghosts, ingestUnchanged, drainUnchanged
<1>1. CASE Tick \/ RefreshState \/ Sweep \/ SweepFails \/ UNCHANGED vars
  BY <1>1 DEF Tick, RefreshState, Sweep, SweepFails, QueueObligations, WithdrawSettled,
              ExpirePending, vars
<1>2. ASSUME NEW b \in Asks,
             \/ RecordAsk(b) \/ PruneAsk(b) \/ RecordReaction(b) \/ RemoveReaction(b)
             \/ Reply(b) \/ Correct(b) \/ DeleteSource(b)
      PROVE UNCHANGED <<readable, revoked>>
  BY <1>2 DEF RecordAsk, PruneAsk, RecordReaction, RemoveReaction, Reply, Correct,
              DeleteSource
<1>3. ASSUME NEW b \in Asks, Revoke(b) \/ Regain(b)
      PROVE revoked \subseteq revoked' /\ Asks \ readable' \subseteq revoked'
  BY <1>3 DEF Revoke, Regain
<1>4. ASSUME NEW p \in People,
             Resolvable(p) \/ OptOut(p) \/ \E enabled \in BOOLEAN : SetEnabled(p, enabled)
      PROVE UNCHANGED <<readable, revoked>>
  BY <1>4 DEF Resolvable, OptOut, SetEnabled
<1>5. CASE Drain \/ DrainFails
  BY <1>5 DEF Drain, DrainFails, Claim, Resolve, PendingFor, SettleUnreadable, Send,
              MarkSent, RecordAttempt, RecordUndeliverable
<1>6. QED
  BY <1>1, <1>2, <1>3, <1>4, <1>5 DEF Next

LEMMA RevokedStep ==
    ASSUME TypeOK, RevokedInv, UnreadableMeansRevoked, [Next]_vars
    PROVE  RevokedInv' /\ UnreadableMeansRevoked'
<1>1. revoked \subseteq revoked' /\ Asks \ readable' \subseteq revoked'
  BY RevokedGrows DEF RevokedInv
<1>2. ASSUME drain'.pc \in {"read", "settle"}
      PROVE  AsksOf(drain'.who) \ drain'.viewer \subseteq revoked'
  <2>1. CASE UNCHANGED <<drain.pc, drain.todo, drain.first, drain.who, drain.viewer,
                         drain.items, drain.result, drain.arrived>>
    BY <1>1, <1>2, <2>1 DEF RevokedInv
  <2>2. CASE Resolve
    <3>1. PICK p \in drain.todo :
             drain' = IF p \in cold THEN Onward(p)
                      ELSE [drain EXCEPT !.pc = "read", !.who = p,
                                         !.viewer = AsksOf(p) \cap readable]
      BY <2>2 DEF Resolve
    <3>2. drain' = [drain EXCEPT !.pc = "read", !.who = p,
                                 !.viewer = AsksOf(p) \cap readable]
      BY <1>2, <3>1, OnwardFields
    <3>3. drain'.who = p /\ drain'.viewer = AsksOf(p) \cap readable
      BY <3>2 DEF TypeOK, Pass
    <3>4. QED
      BY <1>1, <3>3 DEF RevokedInv, AsksOf
  <2>3. CASE PendingFor
    <3>1. drain'.who = drain.who /\ drain'.viewer = drain.viewer /\ drain.pc = "read"
      BY <2>3 DEF PendingFor, TypeOK, Pass
    <3>2. QED
      BY <1>1, <3>1 DEF RevokedInv
  <2>4. CASE SettleUnreadable \/ Send
    BY <1>2, <2>4, OnwardFields DEF SettleUnreadable, Send, TypeOK, Pass
  <2>5. QED
    BY <1>2, <2>1, <2>2, <2>3, <2>4, PassStep
<1>3. UnreadableMeansRevoked'
  <2>1. SUFFICES ASSUME NEW a \in Asks, row'[a].state = "unreadable"
                 PROVE  a \in revoked'
    BY DEF UnreadableMeansRevoked
  <2>2. CASE row[a].state = "unreadable"
    BY <1>1, <2>2 DEF UnreadableMeansRevoked
  <2>3. CASE row[a].state # "unreadable"
    <3>1. SettleUnreadable /\ a \in PendingOf(drain.who) \ drain.viewer
      BY <2>1, <2>3, RowStep
    <3>2. a \in AsksOf(drain.who) \ drain.viewer /\ drain.pc = "settle"
      BY <3>1 DEF PendingOf, SettleUnreadable
    <3>3. QED
      BY <1>1, <3>2 DEF RevokedInv
  <2>4. QED
    BY <2>2, <2>3
<1>4. QED
  BY <1>1, <1>2, <1>3 DEF RevokedInv, AsksOf

\* Only what was closed to its addressee is ever settled as unreadable: no
\* reconnect, departure, crash or change of mind makes the bot discard the rest
\* (_deliver_to, settle_unreadable).
THEOREM NothingReadableIsDiscarded == Spec => []UnreadableMeansRevoked
<1>1. Init => TypeOK /\ PassInv /\ RevokedInv /\ UnreadableMeansRevoked
  BY TypeInit
  DEF Init, PassInv, IdleDrain, Working, RevokedInv, UnreadableMeansRevoked, NoRow
<1>2. TypeOK /\ PassInv /\ RevokedInv /\ UnreadableMeansRevoked /\ [Next]_vars
        => (TypeOK /\ PassInv /\ RevokedInv /\ UnreadableMeansRevoked)'
  BY TypeNext, RevokedStep
<1>3. QED
  BY <1>1, <1>2, PTL DEF Spec

-----------------------------------------------------------------------------
(* Knows how to stop *)

\* A pass takes nobody for somebody it messaged before who was not; and one
\* that is about to record a delivery has said how to stop, if it had to.
FirstInv ==
    /\ \A p \in drain.todo \ drain.first : pref[p].first
    /\ drain.pc = "record" /\ drain.result = "sent" /\ drain.who \in drain.first =>
          drain.who \in knows

\* first_notified_at is never taken back, and set by MARK_SENT alone.
LEMMA FirstStep ==
    ASSUME TypeOK, [Next]_vars, NEW p \in People
    PROVE  /\ knows \subseteq knows'
           /\ pref[p].first => pref'[p].first
           /\ pref'[p].first => pref[p].first \/ (MarkSent /\ p = drain.who)
<1> USE DEF ghosts
<1>0. pref \in [People -> Preference]
  BY DEF TypeOK
<1>1. CASE Tick
  <2>1. pref'[p] = [pref[p] EXCEPT !.last = Older(@, MinInterval),
                                   !.attempt = Older(@, MinInterval)]
    BY <1>1 DEF Tick
  <2>2. pref'[p].first = pref[p].first
    BY <1>0, <2>1 DEF Preference
  <2>3. QED
    BY <1>1, <2>2 DEF Tick
<1>2. CASE Claim \/ Resolve \/ PendingFor \/ SettleUnreadable \/ Send \/ DrainFails
  BY <1>2 DEF Claim, Resolve, PendingFor, SettleUnreadable, Send, DrainFails
<1>3. CASE MarkSent
  <2>1. /\ pref' = [pref EXCEPT ![drain.who] = [pref[drain.who] EXCEPT !.first = TRUE,
                                                                       !.last = Began]]
        /\ knows' = knows
    BY <1>3 DEF MarkSent, Marked
  <2>2. p # drain.who => pref'[p] = pref[p]
    BY <1>0, <2>1
  <2>3. p = drain.who => pref'[p].first
    BY <1>0, <2>1 DEF Preference
  <2>4. QED
    BY <1>3, <2>1, <2>2, <2>3
<1>4. CASE RecordAttempt
  <2>1. /\ pref' = [pref EXCEPT ![drain.who] = [pref[drain.who] EXCEPT !.attempt = Began]]
        /\ knows' = knows
    BY <1>4 DEF RecordAttempt, Stamped
  <2>2. pref'[p].first = pref[p].first
    BY <1>0, <2>1 DEF Preference
  <2>3. QED
    BY <2>1, <2>2
<1>5. CASE RecordUndeliverable
  <2>1. /\ pref' = [pref EXCEPT ![drain.who].undeliverable = TRUE]
        /\ knows' = knows
    BY <1>5 DEF RecordUndeliverable
  <2>2. pref'[p].first = pref[p].first
    BY <1>0, <2>1 DEF Preference
  <2>3. QED
    BY <2>1, <2>2
<1>6. QED
  BY <1>1, <1>2, <1>3, <1>4, <1>5, OthersStep DEF Drain

\* The recipients of a pass are those it claimed, or fewer.
LEMMA RecipientsStep ==
    ASSUME TypeOK, [Next]_vars
    PROVE  \/ drain'.todo \subseteq drain.todo /\ drain'.first = drain.first
           \/ drain'.todo = {}
           \/ /\ Claim
              /\ drain'.todo \subseteq People
              /\ drain'.first = {p \in drain'.todo : ~pref[p].first}
<1>0. drain \in Pass
  BY DEF TypeOK
<1>1. CASE Claim
  <2>1. PICK S \in SUBSET Due :
           drain' = [IdleDrain EXCEPT !.pc = "resolve", !.todo = S,
                                      !.first = {p \in S : ~pref[p].first}]
    BY <1>1 DEF Claim
  <2>2. S \subseteq People /\ drain'.todo = S /\ drain'.first = {p \in S : ~pref[p].first}
    BY <2>1 DEF Due, IdleDrain
  <2>3. QED
    BY <1>1, <2>2
<1>2. CASE Resolve
  BY <1>0, <1>2, OnwardFields DEF Resolve, Pass
<1>3. CASE PendingFor \/ Send
  BY <1>0, <1>3 DEF PendingFor, Send, Pass
<1>4. CASE SettleUnreadable \/ MarkSent \/ RecordAttempt \/ RecordUndeliverable
  <2>1. drain' = Onward(drain.who) \/ drain' = [drain EXCEPT !.pc = "send"]
    BY <1>4 DEF SettleUnreadable, MarkSent, RecordAttempt, RecordUndeliverable
  <2>2. QED
    BY <1>0, <2>1, OnwardFields DEF Pass
<1>5. CASE DrainFails
  BY <1>5 DEF DrainFails, IdleDrain
<1>6. CASE Tick
  BY <1>0, <1>6 DEF Tick, Pass
<1>7. QED
  BY <1>1, <1>2, <1>3, <1>4, <1>5, <1>6, OthersStep DEF Drain

LEMMA KnowsStep ==
    ASSUME TypeOK, PassInv, FirstInv, KnowsHowToStop, [Next]_vars
    PROVE  FirstInv' /\ KnowsHowToStop'
<1>0. drain \in Pass
  BY DEF TypeOK
<1>1. ASSUME NEW p \in drain'.todo \ drain'.first PROVE pref'[p].first
  <2>1. CASE drain'.todo \subseteq drain.todo /\ drain'.first = drain.first
    <3>1. p \in People /\ pref[p].first
      BY <1>0, <1>1, <2>1 DEF Pass, FirstInv
    <3>2. QED
      BY <3>1, FirstStep
  <2>2. CASE /\ drain'.todo \subseteq People
             /\ drain'.first = {q \in drain'.todo : ~pref[q].first}
    BY <1>1, <2>2, FirstStep
  <2>3. QED
    BY <1>1, <2>1, <2>2, RecipientsStep
<1>2. ASSUME drain'.pc = "record", drain'.result = "sent", drain'.who \in drain'.first
      PROVE  drain'.who \in knows'
  <2>1. CASE UNCHANGED <<drain.pc, drain.todo, drain.first, drain.who, drain.viewer,
                         drain.items, drain.result, drain.arrived>>
    <3>1. drain'.who \in People
      BY <1>0, <1>2, <2>1 DEF Pass
    <3>2. QED
      BY <1>2, <2>1, <3>1, FirstStep DEF FirstInv
  <2>2. CASE Resolve \/ PendingFor \/ SettleUnreadable
    BY <1>0, <1>2, <2>2, OnwardFields DEF Resolve, PendingFor, SettleUnreadable, Pass
  <2>3. CASE Send
    <3>1. PICK d \in Deliveries :
             /\ drain' = [drain EXCEPT !.pc = "record", !.result = d[1], !.arrived = d[2]]
             /\ knows' = IF d[2] = "all" /\ drain.who \in drain.first
                         THEN knows \cup {drain.who} ELSE knows
      BY <2>3 DEF Send
    <3>2. drain'.result = d[1] /\ drain'.who = drain.who /\ drain'.first = drain.first
      BY <1>0, <3>1 DEF Pass
    <3>3. d[2] = "all"
      BY <1>2, <3>2 DEF Deliveries
    <3>4. QED
      BY <1>2, <3>1, <3>2, <3>3
  <2>4. QED
    BY <1>2, <2>1, <2>2, <2>3, PassStep
<1>3. KnowsHowToStop'
  <2>1. SUFFICES ASSUME NEW p \in People, pref'[p].first PROVE p \in knows'
    BY DEF KnowsHowToStop
  <2>2. CASE pref[p].first
    BY <2>2, FirstStep DEF KnowsHowToStop
  <2>3. CASE MarkSent /\ p = drain.who
    <3>1. drain.pc = "record" /\ drain.result = "sent" /\ p \in drain.todo
      BY <2>3 DEF MarkSent, PassInv, Working
    <3>2. p \in knows
      BY <2>3, <3>1 DEF FirstInv, KnowsHowToStop
    <3>3. QED
      BY <3>2, FirstStep
  <2>4. QED
    BY <2>1, <2>2, <2>3, FirstStep
<1>4. QED
  BY <1>1, <1>2, <1>3 DEF FirstInv

\* Whoever is on record as having been messaged was told how to stop, though
\* the pass decides that it is the first message when it claims its recipients,
\* and failed, refused and unrecorded deliveries lie in between
\* (first_notified_at, Recipient.first_time).
THEOREM FirstSaysHowToStop == Spec => []KnowsHowToStop
<1>1. Init => TypeOK /\ PassInv /\ FirstInv /\ KnowsHowToStop
  BY TypeInit DEF Init, PassInv, IdleDrain, Working, FirstInv, KnowsHowToStop
<1>2. TypeOK /\ PassInv /\ FirstInv /\ KnowsHowToStop /\ [Next]_vars
        => (TypeOK /\ PassInv /\ FirstInv /\ KnowsHowToStop)'
  BY TypeNext, KnowsStep
<1>3. QED
  BY <1>1, <1>2, PTL DEF Spec

-----------------------------------------------------------------------------
(* The rate *)

\* The pass has put something before p and has not recorded it yet.
InHand(p) == drain.arrived # "nothing" /\ p = drain.who

StampedSince(p)    == pref[p].last <= heard[p] \/ pref[p].attempt <= heard[p]
Rested(p)  == heard[p] >= drain.age + MinInterval \/ heard[p] = HeardAge

\* What was last put before somebody is at least as old as the pass under way,
\* and as a stamp of theirs, unless it is being recorded or was lost; so the
\* recipients of a pass have had their rest.
RateInv ==
    /\ \A p \in People : drain.pc # "idle" => heard[p] >= drain.age
    /\ \A p \in People : InHand(p) => heard[p] = drain.age
    /\ \A p \in People \ lost : InHand(p) \/ StampedSince(p)
    /\ \A p \in drain.todo \ lost : InHand(p) \/ Rested(p)

LEMMA OnwardRest ==
    ASSUME NEW p
    PROVE  /\ p \notin Onward(p).todo
           /\ Onward(p).pc = "idle" \/ Onward(p).age = drain.age
<1>1. CASE drain.todo = {p}
  BY <1>1 DEF Onward, IdleDrain
<1>2. CASE drain.todo # {p}
  BY <1>2 DEF Onward, IdleDrain
<1>3. QED
  BY <1>1, <1>2

\* A step that puts nothing before anybody, and after which nothing is in hand.
LEMMA RateCalm ==
    ASSUME TypeOK, PassInv, RateInv, heard' = heard, drain'.arrived = "nothing",
           drain.pc # "idle", drain'.pc = "idle" \/ drain'.age = drain.age,
           drain'.todo = {} \/ drain'.age = drain.age,
           drain'.todo \subseteq drain.todo,
           \A p \in drain'.todo \ lost' : p \notin lost /\ ~InHand(p),
           \A p \in People \ lost' : \/ p \notin lost /\ ~InHand(p) /\ SameStamps(p)
                                     \/ StampedSince(p)'
    PROVE  RateInv'
<1>1. \A p \in People : drain'.pc # "idle" => heard'[p] >= drain'.age
  BY DEF RateInv
<1>2. \A p \in People : ~InHand(p)'
  BY DEF InHand
<1>3. \A p \in People \ lost' : StampedSince(p)'
  BY DEF RateInv, StampedSince, SameStamps
<1>4. \A p \in drain'.todo \ lost' : Rested(p)'
  BY DEF RateInv, Rested
<1>5. QED
  BY <1>1, <1>2, <1>3, <1>4 DEF RateInv

LEMMA RateTick == ASSUME TypeOK, PassInv, RateInv, Tick PROVE RateInv'
<1>1. /\ drain \in Pass /\ drain.age \in Nat
      /\ \A p \in People : heard[p] \in 0..HeardAge
      /\ \A p \in People : /\ pref[p].last \in 0..MinInterval
                           /\ pref[p].attempt \in 0..MinInterval
      /\ HeardAge = MinInterval + MaxPass
  BY Numbers DEF TypeOK, Pass, Preference, HeardAge
<1>2. \A p \in People : heard'[p] = IF heard[p] + 1 < HeardAge THEN heard[p] + 1 ELSE HeardAge
  BY DEF Tick, Older, AtMost
<1>3. ASSUME NEW p \in People
      PROVE  /\ pref'[p].last = Older(pref[p].last, MinInterval)
             /\ pref'[p].attempt = Older(pref[p].attempt, MinInterval)
  <2>1. pref'[p] = [pref[p] EXCEPT !.last = Older(@, MinInterval),
                                   !.attempt = Older(@, MinInterval)]
    BY DEF Tick
  <2>2. QED
    BY <2>1 DEF TypeOK, Preference
<1>4. /\ drain'.pc = drain.pc /\ drain'.todo = drain.todo /\ drain'.who = drain.who
      /\ drain'.arrived = drain.arrived
      /\ drain.pc = "idle" => drain'.age = drain.age
      /\ drain.pc # "idle" => drain'.age = drain.age + 1 /\ drain.age < MaxPass
  BY <1>1 DEF Tick, Pass
<1>5. lost' = lost /\ (drain.arrived # "nothing" => drain.pc # "idle")
  BY DEF Tick, PassInv
<1>6. ASSUME NEW p \in People PROVE InHand(p)' <=> InHand(p)
  BY <1>4 DEF InHand
<1>7. ASSUME NEW p \in People, drain'.pc # "idle" PROVE heard'[p] >= drain'.age
  BY <1>1, <1>2, <1>4, <1>7, Numbers DEF RateInv
<1>8. ASSUME NEW p \in People, InHand(p)' PROVE heard'[p] = drain'.age
  <2>1. heard[p] = drain.age /\ drain.pc # "idle"
    BY <1>5, <1>6, <1>8 DEF RateInv, InHand
  <2>2. QED
    BY <1>1, <1>2, <1>4, <2>1, Numbers
<1>9. ASSUME NEW p \in People \ lost', ~InHand(p)' PROVE StampedSince(p)'
  <2>1. pref[p].last <= heard[p] \/ pref[p].attempt <= heard[p]
    BY <1>5, <1>6, <1>9 DEF RateInv, StampedSince
  <2>2. QED
    BY <1>1, <1>2, <1>3, <2>1, Numbers DEF StampedSince, Older, AtMost
<1>10. ASSUME NEW p \in drain'.todo \ lost', ~InHand(p)' PROVE Rested(p)'
  <2>1. p \in People /\ Rested(p)
    BY <1>1, <1>4, <1>5, <1>6, <1>10 DEF RateInv, Pass
  <2>2. HeardAge' = HeardAge
    BY DEF HeardAge
  <2>3. QED
    BY <1>1, <1>2, <1>4, <2>1, <2>2, Numbers DEF Rested
<1>11. QED
  BY <1>4, <1>7, <1>8, <1>9, <1>10 DEF RateInv

LEMMA RateClaim == ASSUME TypeOK, PassInv, RateInv, Claim PROVE RateInv'
<1>1. PICK S \in SUBSET Due :
         drain' = [IdleDrain EXCEPT !.pc = "resolve", !.todo = S,
                                    !.first = {p \in S : ~pref[p].first}]
  BY DEF Claim
<1>2. /\ drain'.todo = S /\ drain'.age = 0 /\ drain'.arrived = "nothing"
      /\ UNCHANGED <<heard, lost, pref>>
  BY <1>1 DEF IdleDrain, Claim, ghosts
<1>3. \A p \in People : ~InHand(p) /\ ~InHand(p)'
  BY <1>2 DEF InHand, Claim, PassInv
<1>4. ASSUME NEW p \in S \ lost PROVE Rested(p)'
  <2>1. /\ p \in People /\ pref[p].last >= MinInterval /\ pref[p].attempt >= MinInterval
    BY DEF Due
  <2>2. StampedSince(p)
    BY <1>3, <1>4, <2>1 DEF RateInv
  <2>3. /\ pref[p].last \in Nat /\ pref[p].attempt \in Nat /\ heard[p] \in Nat
    BY <2>1, Numbers DEF TypeOK, Preference
  <2>4. heard[p] >= 0 + MinInterval
    BY <2>1, <2>2, <2>3, Numbers DEF StampedSince
  <2>5. QED
    BY <1>2, <2>4 DEF Rested
<1>5. \A p \in People : heard[p] >= 0
  BY Numbers DEF TypeOK
<1>6. \A p \in People \ lost : StampedSince(p)'
  BY <1>2, <1>3 DEF RateInv, StampedSince
<1>7. QED
  BY <1>2, <1>3, <1>4, <1>5, <1>6 DEF RateInv

\* The pass goes on, or stops, without a new stamp.
LEMMA RateUnstamped ==
    ASSUME TypeOK, PassInv, RateInv,
           Resolve \/ PendingFor \/ SettleUnreadable \/ RecordUndeliverable \/ DrainFails
    PROVE  RateInv'
<1> DEFINE Calm == /\ drain'.arrived = "nothing" /\ drain'.todo \subseteq drain.todo
                   /\ drain'.pc = "idle" \/ drain'.age = drain.age
                   /\ drain'.todo = {} \/ drain'.age = drain.age
<1>1. /\ drain \in Pass /\ heard' = heard /\ lost \subseteq lost' /\ drain.pc # "idle"
      /\ drain.arrived # "nothing" => drain.who \in lost'
  BY DEF TypeOK, PassInv, Resolve, PendingFor, SettleUnreadable, RecordUndeliverable,
         DrainFails, ghosts
<1>2. \/ drain' = IdleDrain
      \/ \E p : drain' = Onward(p)
      \/ \E p, v : drain' = [drain EXCEPT !.pc = "read", !.who = p, !.viewer = v]
      \/ \E i : drain' = [drain EXCEPT !.pc = "settle", !.items = i]
      \/ drain' = [drain EXCEPT !.pc = "send"]
  BY DEF Resolve, PendingFor, SettleUnreadable, RecordUndeliverable, DrainFails
<1>3. drain' = IdleDrain \/ (\E p : drain' = Onward(p)) \/ drain.arrived = "nothing"
  BY DEF PassInv, Resolve, PendingFor, SettleUnreadable, RecordUndeliverable, DrainFails
<1>4. Calm
  <2>1. CASE drain' = IdleDrain
    BY <2>1 DEF IdleDrain
  <2>2. ASSUME NEW p, drain' = Onward(p)
        PROVE  Calm
    <3>1. Onward(p).todo = {} \/ Onward(p).age = drain.age
      BY DEF Onward, IdleDrain
    <3>2. QED
      BY <2>2, <3>1, OnwardFields, OnwardRest
  <2>3. ASSUME NEW p, NEW v, drain.arrived = "nothing",
               drain' = [drain EXCEPT !.pc = "read", !.who = p, !.viewer = v]
        PROVE  Calm
    BY <1>1, <2>3 DEF Pass
  <2>4. ASSUME NEW i, drain.arrived = "nothing",
               drain' = [drain EXCEPT !.pc = "settle", !.items = i]
        PROVE  Calm
    BY <1>1, <2>4 DEF Pass
  <2>5. ASSUME drain.arrived = "nothing", drain' = [drain EXCEPT !.pc = "send"]
        PROVE  Calm
    BY <1>1, <2>5 DEF Pass
  <2>6. QED
    BY <1>2, <1>3, <2>1, <2>2, <2>3, <2>4, <2>5
<1>5. ASSUME NEW p \in People PROVE SameStamps(p)
  <2>1. CASE RecordUndeliverable
    <3>1. pref' = [pref EXCEPT ![drain.who].undeliverable = TRUE]
      BY <2>1 DEF RecordUndeliverable
    <3>2. QED
      BY <3>1 DEF TypeOK, Preference, SameStamps
  <2>2. CASE ~RecordUndeliverable
    BY <2>2 DEF Resolve, PendingFor, SettleUnreadable, DrainFails, SameStamps
  <2>3. QED
    BY <2>1, <2>2
<1>6. \A p \in People \ lost' : p \notin lost /\ ~InHand(p)
  BY <1>1 DEF InHand
<1>7. \A p \in drain'.todo : p \in People
  BY <1>1, <1>4 DEF Pass
<1>8. QED
  BY <1>1, <1>4, <1>5, <1>6, <1>7, RateCalm

\* The delivery is stamped, or the attempt.
LEMMA RateStamped ==
    ASSUME TypeOK, PassInv, RateInv, MarkSent \/ RecordAttempt
    PROVE  RateInv'
<1>0. drain.who \in People
  BY DEF TypeOK, PassInv, Working, Pass, MarkSent, RecordAttempt
<1> SUFFICES ASSUME NEW p \in People, p = drain.who PROVE RateInv'
  BY <1>0
<1>1. /\ drain \in Pass /\ heard' = heard /\ lost' = lost \ {p} /\ drain.pc = "record"
      /\ drain' = Onward(p)
      /\ pref' = [pref EXCEPT ![p] = [pref[p] EXCEPT !.first = TRUE, !.last = Began]]
         \/ pref' = [pref EXCEPT ![p] = [pref[p] EXCEPT !.attempt = Began]]
  BY DEF TypeOK, MarkSent, RecordAttempt, Marked, Stamped
<1>2. StampedSince(p)'
  <2>1. heard[p] \in Nat /\ drain.age \in Nat /\ heard[p] >= drain.age
    BY <1>1, Numbers DEF TypeOK, Pass, RateInv
  <2>2. Began <= heard[p]
    BY <2>1, Numbers DEF Began, AtMost
  <2>3. pref'[p].last = Began \/ pref'[p].attempt = Began
    <3>1. pref[p] \in Preference /\ DOMAIN pref = People
      BY DEF TypeOK
    <3>2. \/ pref'[p] = [pref[p] EXCEPT !.first = TRUE, !.last = Began]
          \/ pref'[p] = [pref[p] EXCEPT !.attempt = Began]
      BY <1>1, <3>1
    <3>3. QED
      BY <3>1, <3>2 DEF Preference
  <2>4. QED
    BY <1>1, <2>2, <2>3 DEF StampedSince
<1>3. ASSUME NEW q \in People, q # p PROVE SameStamps(q) /\ ~InHand(q)
  BY <1>1, <1>3 DEF TypeOK, SameStamps, InHand
<1>4. /\ drain'.arrived = "nothing" /\ drain'.todo \subseteq drain.todo \ {p}
      /\ drain'.pc = "idle" \/ drain'.age = drain.age
      /\ drain'.todo = {} \/ drain'.age = drain.age
  <2>1. Onward(p).todo = {} \/ Onward(p).age = drain.age
    BY DEF Onward, IdleDrain
  <2>2. QED
    BY <1>1, <2>1, OnwardFields, OnwardRest
<1>5. drain'.todo \subseteq People /\ drain'.todo \subseteq drain.todo
  BY <1>1, <1>4 DEF Pass
<1>6. \A q \in drain'.todo \ lost' : q \notin lost /\ ~InHand(q)
  BY <1>1, <1>3, <1>4, <1>5
<1>7. \A q \in People \ lost' : \/ q \notin lost /\ ~InHand(q) /\ SameStamps(q)
                                \/ StampedSince(q)'
  BY <1>1, <1>2, <1>3
<1>8. QED
  BY <1>1, <1>4, <1>5, <1>6, <1>7, RateCalm

LEMMA RateSend == ASSUME TypeOK, PassInv, RateInv, Send PROVE RateInv'
<1>1. /\ drain \in Pass /\ drain.pc = "send" /\ drain.arrived = "nothing"
      /\ drain.who \in drain.todo /\ UNCHANGED <<pref, lost>>
  BY DEF TypeOK, PassInv, Working, Send, ghosts
<1>2. PICK d \in Deliveries :
         /\ drain' = [drain EXCEPT !.pc = "record", !.result = d[1], !.arrived = d[2]]
         /\ heard' = IF d[2] = "nothing" THEN heard
                     ELSE [heard EXCEPT ![drain.who] = drain.age]
  BY DEF Send
<1>3. /\ drain'.age = drain.age /\ drain'.todo = drain.todo /\ drain'.who = drain.who
      /\ drain'.arrived = d[2]
  BY <1>1, <1>2 DEF Pass
<1>4. ASSUME NEW p \in People
      PROVE  /\ InHand(p)' => p = drain.who /\ heard'[p] = drain.age
             /\ ~InHand(p)' => heard'[p] = heard[p] /\ ~InHand(p)
  BY <1>1, <1>2, <1>3 DEF InHand, TypeOK
<1>5. ASSUME NEW p \in People PROVE heard'[p] >= drain.age
  <2>1. heard[p] >= drain.age /\ drain.age \in Nat
    BY <1>1, Numbers DEF RateInv, Pass
  <2>2. QED
    BY <1>4, <2>1
<1>6. \A p \in People \ lost' : InHand(p)' \/ StampedSince(p)'
  BY <1>1, <1>4 DEF RateInv, StampedSince
<1>7. \A p \in drain'.todo \ lost' : InHand(p)' \/ Rested(p)'
  <2>1. ASSUME NEW p \in drain'.todo \ lost', ~InHand(p)' PROVE Rested(p)'
    <3>1. p \in People /\ p \in drain.todo \ lost
      BY <1>1, <1>3, <2>1 DEF Pass
    <3>2. heard'[p] = heard[p] /\ ~InHand(p)
      BY <1>4, <2>1, <3>1
    <3>3. Rested(p)
      BY <3>1, <3>2 DEF RateInv
    <3>4. QED
      BY <1>3, <3>2, <3>3 DEF Rested, HeardAge
  <2>2. QED
    BY <2>1
<1>8. QED
  BY <1>3, <1>4, <1>5, <1>6, <1>7 DEF RateInv

\* The steps of everybody else: no stamp moves.
LEMMA RateOthers ==
    ASSUME TypeOK, RateInv, drain' = drain, heard' = heard, lost' = lost,
           \A p \in People : SameStamps(p)
    PROVE  RateInv'
<1>1. \A p \in People : (StampedSince(p)' <=> StampedSince(p)) /\ (Rested(p)' <=> Rested(p))
  BY DEF StampedSince, Rested, SameStamps, HeardAge
<1>2. drain.todo \subseteq People
  BY DEF TypeOK, Pass
<1>3. QED
  BY <1>1, <1>2 DEF RateInv, InHand

LEMMA RateStep == ASSUME TypeOK, PassInv, RateInv, [Next]_vars PROVE RateInv'
BY OthersStep, RateOthers, RateTick, RateClaim, RateUnstamped, RateStamped, RateSend
DEF Drain

\* Nobody hears from two passes less than an interval apart, however late in a
\* pass the deliveries are, whether they succeed, fail or half succeed, and
\* whatever the interval and the length of a pass (RECIPIENTS_DUE, RECORD_SENT,
\* RECORD_ATTEMPT).
THEOREM RateIsKept == Spec => RateKept
<1>1. Init => TypeOK /\ PassInv /\ RateInv
  <2>1. ASSUME Init PROVE RateInv
    <3>1. \A p \in People : ~InHand(p)
      BY <2>1 DEF Init, IdleDrain, InHand
    <3>2. \A p \in People : pref[p].last <= heard[p]
      BY <2>1, Numbers DEF Init, HeardAge
    <3>3. drain.pc = "idle" /\ drain.todo = {}
      BY <2>1 DEF Init, IdleDrain
    <3>4. QED
      BY <3>1, <3>2, <3>3 DEF RateInv, StampedSince
  <2>2. QED
    BY <2>1, TypeInit DEF Init, PassInv, IdleDrain, Working
<1>2. TypeOK /\ PassInv /\ RateInv /\ [Next]_vars => (TypeOK /\ PassInv /\ RateInv)'
  BY TypeNext, RateStep
<1>3. ASSUME TypeOK, PassInv, RateInv, drain.pc = "send", drain'.arrived # "nothing"
      PROVE  \/ heard[drain.who] >= drain.age + MinInterval
             \/ heard[drain.who] = HeardAge
             \/ drain.who \in lost
  <2>1. drain.who \in drain.todo /\ drain.arrived = "nothing"
    BY <1>3 DEF PassInv, Working
  <2>2. QED
    BY <1>3, <2>1 DEF RateInv, InHand, Rested
<1>4. TypeOK /\ PassInv /\ RateInv /\ [Next]_vars
        => [(drain.pc = "send" /\ drain'.pc = "record" /\ drain'.arrived # "nothing") =>
               \/ heard[drain.who] >= drain.age + MinInterval
               \/ heard[drain.who] = HeardAge
               \/ drain.who \in lost]_vars
  BY <1>3
<1>5. QED
  BY <1>1, <1>2, <1>4, PTL DEF Spec, RateKept

=============================================================================
