------------------------------- MODULE Alerts -------------------------------
(***************************************************************************)
(* Position and price alerts: a person confirms what to watch, and a sweep *)
(* of the bot claims what is due, reads the chain and the market, decides  *)
(* and messages the owner, then records what it decided.  People confirm,  *)
(* change and delete alerts between any two steps of a sweep.              *)
(*                                                                         *)
(* Abstractions.  Prices, health factors and distances from an edge are    *)
(* numbers on a short scale, with the confirmations, limits and re-arm     *)
(* bands as parameters; a position is out of range on either side.  An     *)
(* alert stands for what it watches, and its row for the newest one with   *)
(* that target.  Time is whether a row is due.  Counters and times kept    *)
(* for the listing are left out, and a batch takes all that is due.        *)
(***************************************************************************)
EXTENDS Integers, FiniteSets

CONSTANTS
    Alerts,           \* what may be watched
    AlertOwner,       \* whose alert it is
    AlertKind,        \* "lp", "health" or "price"
    NotifyReturn,     \* alerts that also tell of a return
    Edges,            \* the edge distances people ask for
    Scale,            \* readings are 0 .. Scale
    EdgeRearm,        \* EDGE_REARM_POINTS
    Threshold,        \* the limit of a health factor
    HealthRearm,      \* REARM_MARGIN
    Level,            \* the level of a price alert, which fires above it
    PriceRearm,       \* the part of the level that is PRICE_REARM
    Confirmations,    \* LP_, HEALTH_ and PRICE_CONFIRMATIONS
    AlertCap,         \* DEFAULT_ALERTS_PER_PERSON
    MaxConfirmed,     \* presses of Confirm or delete
    MaxSwings,        \* changes of what is watched
    MaxTroubles       \* sweeps that stop half way, failed reads and messages

AlertOwners == {AlertOwner[a] : a \in Alerts}

ASSUME AlertsAssumption ==
    /\ DOMAIN AlertOwner = Alerts /\ "none" \notin Alerts /\ AlertKind \in [Alerts -> {"lp", "health", "price"}]
    /\ NotifyReturn \subseteq Alerts /\ Edges \subseteq Nat
    /\ {Scale, EdgeRearm, HealthRearm, PriceRearm, Threshold, Level} \subseteq Nat
    /\ Confirmations \in [{"lp", "health", "price"} -> Nat \ {0}]
    /\ {AlertCap, MaxConfirmed, MaxSwings, MaxTroubles} \subseteq Nat

VARIABLES
    watched,     \* what a reading of each alert's target would find
    alertRow,    \* position_alert
    alertDue,    \* alerts whose next_check_at has passed
    proposal,    \* what each person has been shown and may confirm
    alertSweep,  \* AlertRunner.run_due
    closedDoor,  \* people who refuse direct messages
    confirmed, swings, troubles,
    lastTold,    \* what the owner last heard about an alert (auxiliary)
    cleared,     \* alerts read to be past that since (auxiliary)
    agreeing,    \* reads in a row that observed the same state, up to what it takes (auxiliary)
    blurred      \* alerts whose row may not say what the owner heard (auxiliary)

alertVars == <<watched, alertRow, alertDue, proposal, alertSweep, closedDoor,
               confirmed, swings, troubles, lastTold, cleared, agreeing, blurred>>

NoEdge == -1
AlertStates == {"unknown", "in_range", "near_edge", "out_of_range", "closed",
                "ok", "below", "no_debt", "above"}
None == "none"

(* A reading: a position's range and distance from the nearer edge, a       *)
(* health factor, or a price.                                               *)
Reading(at, n) == [at |-> at, n |-> n]
Readings(kind) ==
    CASE kind = "lp"     -> {Reading(at, 0) : at \in {"out_of_range", "closed"}}
                                \cup {Reading("in_range", n) : n \in 0..Scale}
      [] kind = "health" -> {Reading("no_debt", 0)} \cup {Reading("debt", n) : n \in 0..Scale}
      [] OTHER           -> {Reading("price", n) : n \in 0..Scale}
Failed == Reading("failed", 0)

----------------------------------------------------------------------------
(* Deciding.  A state that fired is held until the reading is a band past   *)
(* the line it fired at.                                                    *)

(* A mutant: no band, so that a position at the edge fires again and again. *)
LpStateUnbanded(state, edge, r) ==
    IF r.at = "in_range" /\ edge # NoEdge /\ r.n <= edge THEN "near_edge" ELSE r.at

LpState(state, edge, r) ==
    IF /\ r.at = "in_range" /\ edge # NoEdge
       /\ r.n <= edge \/ (state = "near_edge" /\ r.n < edge + EdgeRearm)
    THEN "near_edge" ELSE r.at

HealthState(state, r) ==
    IF r.at = "no_debt" THEN "no_debt"
    ELSE IF r.n < Threshold \/ (state = "below" /\ r.n < Threshold + HealthRearm)
         THEN "below" ELSE "ok"

PriceState(state, r) ==
    IF r.n >= Level \/ (state = "above" /\ r.n > Level - PriceRearm)
    THEN "above" ELSE "below"

Observed(kind, state, edge, r) ==
    CASE kind = "lp"     -> LpState(state, edge, r)
      [] kind = "health" -> HealthState(state, r)
      [] OTHER           -> PriceState(state, r)

Pending(row, observed) == IF row.pending = observed THEN row.count + 1 ELSE 1

(* A mutant: the count is not reset.                                        *)
SettledCounting(row, observed) == [row EXCEPT !.state = observed, !.pending = None]

Settled(row, observed) == [row EXCEPT !.state = observed, !.pending = None, !.count = 0]

Changes(row, observed, n) ==
    row.state \notin {"unknown", observed} /\ Pending(row, observed) >= n

Advance(row, observed, n) ==
    IF row.state \in {"unknown", observed} \/ Changes(row, observed, n)
    THEN Settled(row, observed)
    ELSE [row EXCEPT !.pending = observed, !.count = Pending(row, observed)]

LpFiring(a, row, observed) ==
    IF observed = "out_of_range" THEN "out_of_range"
    ELSE IF row.state = "out_of_range" THEN IF a \in NotifyReturn THEN "back_in_range" ELSE None
    ELSE IF observed = "near_edge" THEN "near_edge" ELSE None

HealthFiring(a, row, observed) ==
    IF observed = "below" THEN "health_below"
    ELSE IF row.state = "below" /\ a \in NotifyReturn THEN "health_recovered" ELSE None

(* The next row, and the message it earns.                                  *)
Evaluate(a, row, r) ==
    LET kind     == AlertKind[a]
        observed == Observed(kind, row.state, row.edge, r)
        n        == Confirmations[kind]
        next     == Advance(row, observed, n)
        earned   == CASE kind = "lp"     -> LpFiring(a, row, observed)
                      [] kind = "health" -> HealthFiring(a, row, observed)
                      [] OTHER -> IF observed = "above" THEN "price_crossed" ELSE None
    IN  IF r = Failed THEN [row |-> row, firing |-> None]
        ELSE IF kind = "lp" /\ next.state = "closed" /\ observed = "closed"
             THEN [row |-> [next EXCEPT !.stopped = "position_closed"], firing |-> "closed"]
        ELSE [row |-> next, firing |-> IF Changes(row, observed, n) THEN earned ELSE None]

----------------------------------------------------------------------------
(* Rows.  A row whose id is 0 does not exist.                               *)

NoRow == [id |-> 0, state |-> "unknown", edge |-> NoEdge, pending |-> None,
          count |-> 0, stopped |-> None]
Active(row) == row.id > 0 /\ row.stopped = None
ActiveOf(p) == {a \in Alerts : AlertOwner[a] = p /\ Active(alertRow[a])}

NoProposal == [alert |-> None, edge |-> NoEdge, state |-> "unknown"]

IdleSweep == [at |-> "idle", left |-> {}, taken |-> [a \in Alerts |-> NoRow],
              found |-> [a \in Alerts |-> Failed], now |-> None,
              firing |-> None, refused |-> {}]

NothingAgrees == [state |-> None, n |-> 0]

AlertsInit ==
    /\ watched \in [Alerts -> UNION {Readings(AlertKind[a]) : a \in Alerts}]
    /\ \A a \in Alerts : watched[a] \in Readings(AlertKind[a])
    /\ alertRow = [a \in Alerts |-> NoRow] /\ alertDue = {}
    /\ proposal = [p \in AlertOwners |-> NoProposal]
    /\ alertSweep = IdleSweep /\ closedDoor = {}
    /\ confirmed = 0 /\ swings = 0 /\ troubles = 0
    /\ lastTold = [a \in Alerts |-> None] /\ cleared = [a \in Alerts |-> TRUE]
    /\ agreeing = [a \in Alerts |-> NothingAgrees] /\ blurred = {}

AlertHistory == <<lastTold, cleared, agreeing, blurred>>

(* What it takes to be told the same again: a reading past the re-arm band. *)
Clears(a, told, r) ==
    /\ r # Failed
    /\ CASE told = "out_of_range"     -> r.at # "out_of_range"
         [] told = "back_in_range"    -> r.at = "out_of_range"
         [] told = "near_edge"        -> r.at # "in_range" \/ r.n >= alertRow[a].edge + EdgeRearm
         [] told = "health_below"     -> r.at = "no_debt" \/ r.n >= Threshold + HealthRearm
         [] told = "health_recovered" -> r.at = "debt" /\ r.n < Threshold
         [] told = "price_crossed"    -> r.n <= Level - PriceRearm
         [] OTHER                     -> FALSE

(* What a confirmation says of where things stand now.                      *)
Shown(kind, state) ==
    CASE kind = "health" /\ state = "below" -> "health_below"
      [] kind = "price" /\ state = "above"  -> "price_crossed"
      [] kind = "lp" /\ state \in {"out_of_range", "near_edge"} -> state
      [] OTHER -> None

----------------------------------------------------------------------------
(* What is watched, and the owner's settings *)

AlertSwing(a) ==
    /\ swings < MaxSwings /\ swings' = swings + 1
    /\ watched[a].at # "closed"
    /\ \E r \in Readings(AlertKind[a]) \ {watched[a]} : watched' = [watched EXCEPT ![a] = r]
    /\ UNCHANGED <<alertRow, alertDue, proposal, alertSweep, closedDoor,
                   confirmed, troubles, AlertHistory>>

AlertDoor(p) ==
    /\ swings < MaxSwings /\ swings' = swings + 1
    /\ closedDoor' = IF p \in closedDoor THEN closedDoor \ {p} ELSE closedDoor \cup {p}
    /\ UNCHANGED <<watched, alertRow, alertDue, proposal, alertSweep,
                   confirmed, troubles, AlertHistory>>

----------------------------------------------------------------------------
(* The owner *)

Covered(a, edge) ==
    Active(alertRow[a]) /\ (edge = NoEdge \/ alertRow[a].edge = edge)

HasRoom(a, edge) ==
    \/ Cardinality(ActiveOf(AlertOwner[a])) < AlertCap
    \/ edge # NoEdge /\ Active(alertRow[a])

(* AlertRequests.propose reads the target now: the state it shows is the    *)
(* baseline, whenever Confirm is pressed.                                   *)
Propose(a, edge) ==
    /\ confirmed < MaxConfirmed
    /\ edge # NoEdge => AlertKind[a] = "lp"
    /\ watched[a].at \notin {"closed", "no_debt"}
    /\ ~Covered(a, edge) /\ HasRoom(a, edge)
    /\ proposal' = [proposal EXCEPT ![AlertOwner[a]] =
                       [alert |-> a, edge |-> edge,
                        state |-> Observed(AlertKind[a], "unknown", edge, watched[a])]]
    /\ UNCHANGED <<watched, alertRow, alertDue, alertSweep, closedDoor,
                   confirmed, swings, troubles, AlertHistory>>

(* CREATE_WITHIN_CAP: a new row; or the edge distance and the baseline of   *)
(* the active one; or a refusal.                                            *)
Created(a, q) ==
    IF ~HasRoom(a, q.edge) THEN alertRow[a]
    ELSE IF ~Active(alertRow[a])
         THEN [NoRow EXCEPT !.id = alertRow[a].id + 1, !.state = q.state, !.edge = q.edge]
    ELSE IF q.edge \in {NoEdge, alertRow[a].edge} THEN alertRow[a]
    ELSE [alertRow[a] EXCEPT !.edge = q.edge, !.state = q.state, !.pending = None, !.count = 0]

HeldBySweep(a) == alertSweep.at # "idle" /\ a \in alertSweep.left \cup {alertSweep.now}

Confirm(p) ==
    LET q == proposal[p]
        a == q.alert
    IN  /\ a # None
        /\ proposal' = [proposal EXCEPT ![p] = NoProposal]
        /\ confirmed' = confirmed + 1
        /\ alertRow' = [alertRow EXCEPT ![a] = Created(a, q)]
        /\ alertDue' = IF alertRow'[a].id # alertRow[a].id THEN alertDue \ {a} ELSE alertDue
        /\ IF alertRow'[a] = alertRow[a]
           THEN UNCHANGED AlertHistory
           ELSE /\ lastTold' = [lastTold EXCEPT ![a] = Shown(AlertKind[a], q.state)]
                /\ cleared' = [cleared EXCEPT ![a] = FALSE]
                /\ agreeing' = [agreeing EXCEPT ![a] = NothingAgrees]
                /\ blurred' = IF alertRow'[a].id # alertRow[a].id THEN blurred \ {a}
                              ELSE IF HeldBySweep(a) THEN blurred \cup {a} ELSE blurred
        /\ UNCHANGED <<watched, alertSweep, closedDoor, swings, troubles>>

(* DELETE_OWN.  Ids are not used again.                                     *)
DeleteAlert(a) ==
    /\ Active(alertRow[a]) /\ confirmed < MaxConfirmed
    /\ alertRow' = [alertRow EXCEPT ![a].stopped = "deleted"]
    /\ alertDue' = alertDue \ {a} /\ confirmed' = confirmed + 1
    /\ UNCHANGED <<watched, proposal, alertSweep, closedDoor, swings, troubles, AlertHistory>>

----------------------------------------------------------------------------
(* The sweep *)

AlertTick(a) ==
    /\ Active(alertRow[a]) /\ a \notin alertDue
    /\ alertDue' = alertDue \cup {a}
    /\ UNCHANGED <<watched, alertRow, proposal, alertSweep, closedDoor,
                   confirmed, swings, troubles, AlertHistory>>

(* CLAIM_DUE advances the rows and returns them whole.                      *)
ClaimAlerts ==
    LET due == {a \in alertDue : Active(alertRow[a])} IN
    /\ alertSweep.at = "idle" /\ due # {}
    /\ alertDue' = alertDue \ due
    /\ alertSweep' = [IdleSweep EXCEPT !.at = "claimed", !.left = due,
                        !.taken = [a \in Alerts |-> IF a \in due THEN alertRow[a] ELSE NoRow]]
    /\ UNCHANGED <<watched, alertRow, proposal, closedDoor,
                   confirmed, swings, troubles, AlertHistory>>

(* AlertRunner._read: a read that fails, or an observer that raises.        *)
ReadAlerts(bad) ==
    /\ alertSweep.at = "claimed" /\ bad \subseteq alertSweep.left
    /\ troubles + Cardinality(bad) <= MaxTroubles /\ troubles' = troubles + Cardinality(bad)
    /\ alertSweep' = [alertSweep EXCEPT !.at = "checking",
                        !.found = [a \in Alerts |-> IF a \in alertSweep.left \ bad
                                                    THEN watched[a] ELSE Failed]]
    /\ UNCHANGED <<watched, alertRow, alertDue, proposal, closedDoor,
                   confirmed, swings, AlertHistory>>

Decision(a) == Evaluate(a, alertSweep.taken[a], alertSweep.found[a])

(* RECORD writes what was decided over the row as it is now: it changes     *)
(* neither the edge distance nor a row that is gone.                        *)
Recorded(a, next) ==
    IF alertRow[a].id # next.id \/ alertRow[a].stopped = "deleted" THEN alertRow[a]
    ELSE [alertRow[a] EXCEPT !.state = next.state, !.pending = next.pending,
                             !.count = next.count,
                             !.stopped = IF next.stopped = None THEN @ ELSE next.stopped]

Without(a) ==
    LET left == alertSweep.left \ {a}
    IN  IF left = {} THEN IdleSweep
        ELSE [alertSweep EXCEPT !.at = "checking", !.left = left, !.now = None, !.firing = None,
                                !.taken[a] = NoRow, !.found[a] = Failed]

(* The state a reading was seen in, for the history.                        *)
SeenAs(a) == Observed(AlertKind[a], alertSweep.taken[a].state,
                      alertSweep.taken[a].edge, alertSweep.found[a])
Agreed(a) ==
    IF alertSweep.found[a] = Failed THEN agreeing[a]
    ELSE IF agreeing[a].state = SeenAs(a)
         THEN [agreeing[a] EXCEPT !.n = IF @ < Confirmations[AlertKind[a]] THEN @ + 1 ELSE @]
    ELSE [state |-> SeenAs(a), n |-> 1]
SameRow(a) == alertRow[a].id = alertSweep.taken[a].id

(* Nothing is due to be said.                                               *)
CheckQuietly(a) ==
    /\ alertSweep.at = "checking" /\ a \in alertSweep.left
    /\ AlertOwner[a] \notin alertSweep.refused /\ Decision(a).firing = None
    /\ alertRow' = [alertRow EXCEPT ![a] = Recorded(a, Decision(a).row)]
    /\ alertSweep' = Without(a)
    /\ agreeing' = IF SameRow(a) THEN [agreeing EXCEPT ![a] = Agreed(a)] ELSE agreeing
    /\ cleared' = [cleared EXCEPT ![a] = @ \/ Clears(a, lastTold[a], alertSweep.found[a])]
    /\ UNCHANGED <<watched, alertDue, proposal, closedDoor, confirmed, swings, troubles,
                   lastTold, blurred>>

(* "every alert of theirs was disabled with it": not checked at all.        *)
SkipRefused(a) ==
    /\ alertSweep.at = "checking" /\ a \in alertSweep.left
    /\ AlertOwner[a] \in alertSweep.refused
    /\ alertSweep' = Without(a)
    /\ UNCHANGED <<watched, alertRow, alertDue, proposal, closedDoor,
                   confirmed, swings, troubles, AlertHistory>>

Attempts(a) ==
    /\ alertSweep.at = "checking" /\ a \in alertSweep.left
    /\ AlertOwner[a] \notin alertSweep.refused /\ Decision(a).firing # None

(* The message arrives; the record of it is a step of its own.              *)
TellSent(a) ==
    /\ Attempts(a) /\ AlertOwner[a] \notin closedDoor
    /\ alertSweep' = [alertSweep EXCEPT !.at = "sent", !.now = a, !.firing = Decision(a).firing]
    /\ lastTold' = IF SameRow(a) THEN [lastTold EXCEPT ![a] = Decision(a).firing] ELSE lastTold
    /\ cleared' = IF SameRow(a) THEN [cleared EXCEPT ![a] = FALSE] ELSE cleared
    /\ agreeing' = IF SameRow(a) THEN [agreeing EXCEPT ![a] = Agreed(a)] ELSE agreeing
    /\ UNCHANGED <<watched, alertRow, alertDue, proposal, closedDoor,
                   confirmed, swings, troubles, blurred>>

(* A Discord blip: nothing is recorded, the next sweep finds it again.      *)
TellFailed(a) ==
    /\ Attempts(a) /\ troubles < MaxTroubles /\ troubles' = troubles + 1
    /\ alertSweep' = Without(a)
    /\ UNCHANGED <<watched, alertRow, alertDue, proposal, closedDoor,
                   confirmed, swings, AlertHistory>>

TellRefused(a) ==
    /\ Attempts(a) /\ AlertOwner[a] \in closedDoor
    /\ alertSweep' = [alertSweep EXCEPT !.at = "refused", !.now = a]
    /\ UNCHANGED <<watched, alertRow, alertDue, proposal, closedDoor,
                   confirmed, swings, troubles, AlertHistory>>

RecordSent ==
    LET a == alertSweep.now IN
    /\ alertSweep.at = "sent"
    /\ alertRow' = [alertRow EXCEPT ![a] = Recorded(a, Decision(a).row)]
    /\ alertSweep' = Without(a)
    /\ UNCHANGED <<watched, alertDue, proposal, closedDoor,
                   confirmed, swings, troubles, AlertHistory>>

(* The reading was true whether or not it could be told; the reason to      *)
(* stop is dropped with the firing.                                         *)
RecordRefused ==
    LET a == alertSweep.now IN
    /\ alertSweep.at = "refused"
    /\ alertRow' = [alertRow EXCEPT
                      ![a] = Recorded(a, [Decision(a).row EXCEPT !.stopped = None])]
    /\ alertSweep' = [alertSweep EXCEPT !.at = "stopping"]
    /\ UNCHANGED <<watched, alertDue, proposal, closedDoor,
                   confirmed, swings, troubles, AlertHistory>>

(* DISABLE_FOR_PERSON *)
StopAll ==
    LET p == AlertOwner[alertSweep.now] IN
    /\ alertSweep.at = "stopping"
    /\ alertRow' = [a \in Alerts |->
                      IF a \in ActiveOf(p) THEN [alertRow[a] EXCEPT !.stopped = "messages_closed"]
                      ELSE alertRow[a]]
    /\ LET rest == Without(alertSweep.now)
       IN  alertSweep' = IF rest = IdleSweep THEN rest
                         ELSE [rest EXCEPT !.refused = @ \cup {p}]
    /\ UNCHANGED <<watched, alertDue, proposal, closedDoor, confirmed, swings, troubles, AlertHistory>>

(* The process stops, or a statement raises and alert_loop logs it.         *)
AbandonSweep ==
    /\ alertSweep.at # "idle" /\ troubles < MaxTroubles
    /\ troubles' = troubles + 1
    /\ alertSweep' = IdleSweep
    /\ blurred' = IF alertSweep.at \in {"sent", "refused", "stopping"}
                  THEN blurred \cup {alertSweep.now} ELSE blurred
    /\ UNCHANGED <<watched, alertRow, alertDue, proposal, closedDoor,
                   confirmed, swings, lastTold, cleared, agreeing>>

SweepStep ==
    \/ \E a \in Alerts : CheckQuietly(a) \/ SkipRefused(a)
    \/ \E a \in Alerts : TellSent(a) \/ TellFailed(a) \/ TellRefused(a)
    \/ RecordSent \/ RecordRefused \/ StopAll

AlertsNext ==
    \/ \E a \in Alerts : AlertSwing(a) \/ AlertTick(a) \/ DeleteAlert(a)
    \/ \E p \in AlertOwners : AlertDoor(p) \/ Confirm(p)
    \/ \E a \in Alerts, edge \in Edges \cup {NoEdge} : Propose(a, edge)
    \/ ClaimAlerts
    \/ \E bad \in SUBSET Alerts : ReadAlerts(bad)
    \/ SweepStep
    \/ AbandonSweep

AlertsSpec == AlertsInit /\ [][AlertsNext]_alertVars

----------------------------------------------------------------------------
(* Properties *)

AlertRowType == [id : Nat, state : AlertStates, edge : Edges \cup {NoEdge},
                 pending : AlertStates \cup {None}, count : Nat,
                 stopped : {None, "position_closed", "messages_closed", "deleted"}]

(* A count that has not yet reached its confirmations goes with a pending   *)
(* state other than the state, and no sweep checks what it did not claim    *)
(* (AlertRunner, position_alert).                                           *)
AlertsTypeOK ==
    /\ alertRow \in [Alerts -> AlertRowType]
    /\ alertDue \subseteq Alerts
    /\ alertSweep.left \subseteq {a \in Alerts : alertSweep.taken[a].id > 0}
    /\ alertSweep.at \in {"sent", "refused", "stopping"} => alertSweep.now \in alertSweep.left
    /\ \A a \in Alerts : LET row == alertRow[a] IN
         /\ row.count < Confirmations[AlertKind[a]]
         /\ (row.count = 0) = (row.pending = None)

Tells(a) == alertSweep.at = "checking" /\ alertSweep'.at = "sent" /\ alertSweep'.now = a

(* "I message you once each time this changes": the same message comes      *)
(* again, or after a confirmation that showed it, only when a reading since *)
(* was past the re-arm band.  Excepted is a row that does not say what the  *)
(* owner heard: the record of a message was lost, or a sweep that had       *)
(* claimed the row wrote over the baseline of a later confirmation.         *)
ToldOnlyAfterReturn ==
    [][\A a \in Alerts : Tells(a) /\ SameRow(a) /\ a \notin blurred
         => alertSweep'.firing # lastTold[a] \/ cleared[a]
            \/ Clears(a, lastTold[a], alertSweep.found[a])]_alertVars

(* A message rests on as many agreeing reads in a row as its kind asks for, *)
(* across failed reads, undelivered messages and abandoned sweeps           *)
(* (LP_CONFIRMATIONS).                                                      *)
ConfirmedByReads ==
    [][\A a \in Alerts : Tells(a) /\ SameRow(a) /\ a \notin blurred
         => agreeing'[a].n >= Confirmations[AlertKind[a]]]_alertVars

(* So every message has its cause (AlertRunner._check_one).                 *)
ToldForCause == ToldOnlyAfterReturn /\ ConfirmedByReads

Alarm(a) ==
    CASE AlertKind[a] = "lp" /\ watched[a].at = "out_of_range" -> "out_of_range"
      [] AlertKind[a] = "health" /\ watched[a].at = "debt" /\ watched[a].n < Threshold
            -> "health_below"
      [] AlertKind[a] = "price" /\ watched[a].n >= Level -> "price_crossed"
      [] OTHER -> None

(* Whoever keeps an alert on something that stays past its line comes to    *)
(* know it, by the confirmation or by a message, through failed reads,      *)
(* failed messages and abandoned sweeps ("the next sweep finds it again and *)
(* retries the message").  Excepted are rows that were written over.        *)
AlarmIsTold ==
    \A a \in Alerts :
        <>[](Active(alertRow[a]) /\ Alarm(a) # None /\ a \notin blurred
               => lastTold[a] = Alarm(a))
=============================================================================
