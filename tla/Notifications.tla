---------------------------- MODULE Notifications ----------------------------
(***************************************************************************)
(* Telling people what was asked of them.  The ingest process turns the    *)
(* asks it extracted into rows of a queue and settles those that need not  *)
(* be sent any more; the bot drains the queue, one direct message per      *)
(* person and interval.  The rows are all that the two processes share,    *)
(* and in between people answer, correct, delete, edit, lose and regain    *)
(* access, turn the messages off and opt out.                              *)
(*                                                                         *)
(* Abstractions.  An ask is addressed to one person other than its         *)
(* requester, with enough confidence (the others are never queued), has a  *)
(* source message and a channel of its own, and was asked at time 0.  Time *)
(* is counted in ticks, as ages that stop growing where no comparison can  *)
(* tell them apart any more.  MARK_STALE is left out: only                 *)
(* QUEUE_OBLIGATIONS tells "stale" from "open", and its bound on the age   *)
(* of an ask comes first.  The LIMITs of QUEUE_OBLIGATIONS and             *)
(* PENDING_FOR_VIEWER are taken to be out of reach.                        *)
(***************************************************************************)
EXTENDS Integers, FiniteSets

CONSTANTS
    People, Asks,
    Nobody,             \* no person
    AddresseeOf,        \* the person each ask is addressed to
    BatchWindow,        \* batch_window
    MinInterval,        \* min_interval
    MaxAge,             \* max_age
    ExpireAfter,        \* expire_after
    MaxItems,           \* max_items
    RecipientsPerPass,  \* recipients_per_pass
    MaxPass,            \* ticks a sweep or a drain pass may take
    MaxMoves,           \* things people and extraction do
    MaxFaults           \* crashes and failed passes

ASSUME NotificationsAssumption ==
    /\ AddresseeOf \in [Asks -> People] /\ Nobody \notin People
    /\ {BatchWindow, MaxAge, ExpireAfter, MaxPass, MaxMoves, MaxFaults} \subseteq Nat
    /\ {MinInterval, MaxItems, RecipientsPerPass} \subseteq Nat \ {0}

VARIABLES
    status,     \* the ask row: absent, open, or answered (and by what)
    ticks,      \* asks whose source the addressee has acknowledged (ask_reaction)
    replies,    \* asks the addressee has replied to, in the corpus
    corrected,  \* asks with a row in ask_correction
    alive,      \* asks whose source message is not deleted
    asked,      \* the age of the asks
    readable,   \* asks whose channel the addressee may read and is indexed
    cold,       \* people the guild cache cannot resolve: it is cold, or they left
    row,        \* notification
    pref,       \* notification_preference
    optedOut,   \* person_opt_out
    sweep,      \* ObligationNotifier.sweep
    drain,      \* NotificationDelivery.deliver
    moves, faults,
    told,       \* asks named in a message that arrived (auxiliary)
    knows,      \* people who were told how to stop (auxiliary)
    revoked,    \* asks whose channel was closed or left the scope (auxiliary)
    delivered,  \* asks that were ever recorded as sent (auxiliary)
    heard,      \* age of the pass that last put a message before them (auxiliary)
    lost        \* people whose last message left no stamp (auxiliary)

obligations == <<status, ticks, replies, corrected, alive>>
access      == <<readable, cold>>
ghosts      == <<told, knows, revoked, delivered, heard, lost>>
vars == <<obligations, access, asked, row, pref, optedOut, sweep, drain,
          moves, faults, ghosts>>

RowAge   == ExpireAfter + MaxPass + 1  \* ages no comparison tells apart
HeardAge == MinInterval + MaxPass

Outcomes == {"sent", "unreadable", "withdrawn", "undeliverable", "expired"}
NoRow    == [state |-> "none", age |-> 0]
Row      == [state : Outcomes \cup {"none", "pending"}, age : 0..RowAge]

Preference == [enabled : BOOLEAN, undeliverable : BOOLEAN, first : BOOLEAN,
               last : 0..MinInterval, attempt : 0..MinInterval]

Pass == [pc : {"idle", "resolve", "read", "settle", "send", "record"},
         age : 0..MaxPass, todo : SUBSET People, first : SUBSET People,
         who : People \cup {Nobody}, viewer : SUBSET Asks, items : SUBSET Asks,
         result : {"none", "sent", "failed", "closed"},
         arrived : {"nothing", "part", "all"}]

Statuses == {"absent", "open", "ticked", "replied"}
Sweeping == [pc : {"queue", "withdraw", "expire"}, age : 0..MaxPass]

IdleDrain == [pc |-> "idle", age |-> 0, todo |-> {}, first |-> {}, who |-> Nobody,
              viewer |-> {}, items |-> {}, result |-> "none", arrived |-> "nothing"]

Init ==
    /\ status = [a \in Asks |-> "absent"]
    /\ ticks = {} /\ replies = {} /\ corrected = {} /\ alive = Asks
    /\ asked = 0
    /\ readable = Asks /\ cold = {}
    /\ row = [a \in Asks |-> NoRow]
    /\ pref = [p \in People |-> [enabled |-> TRUE, undeliverable |-> FALSE,
                 first |-> FALSE, last |-> MinInterval, attempt |-> MinInterval]]
    /\ optedOut = {}
    /\ sweep = [pc |-> "queue", age |-> 0]
    /\ drain = IdleDrain
    /\ moves = 0 /\ faults = 0
    /\ told = {} /\ knows = {} /\ revoked = {} /\ delivered = {} /\ lost = {}
    /\ heard = [p \in People |-> HeardAge]

AsksOf(p)    == {a \in Asks : AddresseeOf[a] = p}
PendingOf(p) == {a \in AsksOf(p) : row[a].state = "pending"}

\* The settled_at and outcome of the rows of S.
Settled(S, outcome) ==
    [a \in Asks |-> IF a \in S THEN [state |-> outcome, age |-> 0] ELSE row[a]]

AtMost(n, cap) == IF n < cap THEN n ELSE cap

\* The n oldest rows of S, or all: ties are broken either way.
Oldest(n, S) ==
    {T \in SUBSET S :
        /\ Cardinality(T) = AtMost(Cardinality(S), n)
        /\ \A t \in T, s \in S \ T : row[t].age >= row[s].age}

-----------------------------------------------------------------------------
(* Time *)

Older(n, cap) == AtMost(n + 1, cap)

Tick ==
    /\ sweep.pc # "queue" => sweep.age < MaxPass
    /\ drain.pc # "idle" => drain.age < MaxPass
    /\ asked' = Older(asked, MaxAge + 1)
    /\ row' = [a \in Asks |-> IF row[a].state = "pending"
                              THEN [row[a] EXCEPT !.age = Older(@, RowAge)] ELSE row[a]]
    /\ pref' = [p \in People |-> [pref[p] EXCEPT !.last = Older(@, MinInterval),
                                                 !.attempt = Older(@, MinInterval)]]
    /\ sweep' = IF sweep.pc = "queue" THEN sweep ELSE [sweep EXCEPT !.age = @ + 1]
    /\ drain' = IF drain.pc = "idle" THEN drain ELSE [drain EXCEPT !.age = @ + 1]
    /\ heard' = [p \in People |-> Older(heard[p], HeardAge)]
    /\ UNCHANGED <<obligations, access, optedOut, moves, faults,
                   told, knows, revoked, delivered, lost>>

-----------------------------------------------------------------------------
(* Asks, and what their addressees do about them *)

\* What is bounded; taking back a reaction, or a revocation, is free.
Move == moves < MaxMoves /\ moves' = moves + 1

\* record_asks, when extraction reads the source message and finds the ask.
\* UPSERT_ASK leaves the status of a row that is there alone.
RecordAsk(a) ==
    /\ status[a] = "absent"
    /\ status' = [status EXCEPT ![a] = "open"]
    /\ UNCHANGED <<ticks, replies, corrected, alive, access, asked, row, pref,
                   optedOut, sweep, drain, moves, faults, ghosts>>

\* record_asks, when it reads the message again and does not: PRUNE_ASKS, and
\* the notification goes with the ask.
PruneAsk(a) ==
    /\ status[a] # "absent" /\ a \notin corrected
    /\ Move
    /\ status' = [status EXCEPT ![a] = "absent"]
    /\ row' = [row EXCEPT ![a] = NoRow]
    /\ UNCHANGED <<ticks, replies, corrected, alive, access, asked, pref,
                   optedOut, sweep, drain, faults, ghosts>>

\* record_reaction, by the addressee and with an acknowledging emoji.
RecordReaction(a) ==
    /\ a \in alive \ ticks
    /\ Move
    /\ ticks' = ticks \cup {a}
    /\ status' = [status EXCEPT ![a] = IF @ = "open" THEN "ticked" ELSE @]
    /\ UNCHANGED <<replies, corrected, alive, access, asked, row, pref,
                   optedOut, sweep, drain, faults, ghosts>>

\* remove_reaction: REOPEN_WITHOUT_REACTION.
RemoveReaction(a) ==
    /\ a \in ticks
    /\ ticks' = ticks \ {a}
    /\ status' = [status EXCEPT ![a] = IF @ = "ticked" THEN "open" ELSE @]
    /\ UNCHANGED <<replies, corrected, alive, access, asked, row, pref,
                   optedOut, sweep, drain, moves, faults, ghosts>>

\* The addressee replies; only RefreshState looks at it.
Reply(a) ==
    /\ a \notin replies
    /\ Move
    /\ replies' = replies \cup {a}
    /\ UNCHANGED <<status, ticks, corrected, alive, access, asked, row, pref,
                   optedOut, sweep, drain, faults, ghosts>>

\* refresh_state: CLOSE_ANSWERED_BY_REPLY, then CLOSE_ANSWERED_BY_REACTION.
RefreshState ==
    /\ status' = [a \in Asks |->
           CASE status[a] = "open" /\ a \in replies         -> "replied"
             [] status[a] = "open" /\ a \in ticks \ replies -> "ticked"
             [] OTHER                                       -> status[a]]
    /\ status' # status
    /\ UNCHANGED <<ticks, replies, corrected, alive, access, asked, row, pref,
                   optedOut, sweep, drain, moves, faults, ghosts>>

\* correct: APPLY_CORRECTION.
Correct(a) ==
    /\ status[a] # "absent" /\ a \in (alive \cap readable) \ corrected
    /\ AddresseeOf[a] \notin cold
    /\ Move
    /\ corrected' = corrected \cup {a}
    /\ UNCHANGED <<status, ticks, replies, alive, access, asked, row, pref,
                   optedOut, sweep, drain, faults, ghosts>>

\* The source message is tombstoned (module Corpus).
DeleteSource(a) ==
    /\ a \in alive
    /\ Move
    /\ alive' = alive \ {a}
    /\ UNCHANGED <<status, ticks, replies, corrected, access, asked, row, pref,
                   optedOut, sweep, drain, faults, ghosts>>

-----------------------------------------------------------------------------
(* The platform, and the addressee's own switches *)

\* The channel is closed to the addressee, or leaves the indexing scope: a
\* viewer has what is both readable on the platform and indexed.
Revoke(a) ==
    /\ a \in readable
    /\ Move
    /\ readable' = readable \ {a} /\ revoked' = revoked \cup {a}
    /\ UNCHANGED <<obligations, cold, asked, row, pref, optedOut, sweep, drain,
                   faults, told, knows, delivered, heard, lost>>

Regain(a) ==
    /\ a \notin readable
    /\ readable' = readable \cup {a}
    /\ UNCHANGED <<obligations, cold, asked, row, pref, optedOut, sweep, drain,
                   moves, faults, ghosts>>

\* The gateway reconnects, or the person leaves; and the other way round.
Resolvable(p) ==
    /\ Move
    /\ cold' = IF p \in cold THEN cold \ {p} ELSE cold \cup {p}
    /\ UNCHANGED <<obligations, readable, asked, row, pref, optedOut, sweep, drain,
                   faults, ghosts>>

\* SET_ENABLED.
WithEnabled(r, enabled) ==
    [r EXCEPT !.enabled = enabled, !.undeliverable = IF enabled THEN FALSE ELSE @]

\* turn_off and turn_on.
SetEnabled(p, enabled) ==
    /\ Move
    /\ pref' = [pref EXCEPT ![p] = WithEnabled(@, enabled)]
    /\ UNCHANGED <<obligations, access, asked, row, optedOut, sweep, drain, faults, ghosts>>

\* person_opt_out, and the trigger that empties the person's queue with it.
OptOut(p) ==
    /\ p \notin optedOut
    /\ Move
    /\ optedOut' = optedOut \cup {p}
    /\ row' = [a \in Asks |-> IF a \in AsksOf(p) THEN NoRow ELSE row[a]]
    /\ UNCHANGED <<obligations, access, asked, pref, sweep, drain, faults, ghosts>>

-----------------------------------------------------------------------------
(* The ingest half: three transactions *)

ingestUnchanged == <<obligations, access, asked, pref, optedOut, drain, moves, ghosts>>

\* queue_obligations: the row itself is the mark.
Queueable ==
    {a \in Asks : /\ status[a] = "open" /\ a \in alive \ corrected
                  /\ asked <= MaxAge
                  /\ AddresseeOf[a] \notin optedOut
                  /\ row[a].state = "none"}

QueueObligations ==
    /\ sweep.pc = "queue"
    /\ row' = Settled(Queueable, "pending")
    /\ sweep' = [pc |-> "withdraw", age |-> 0]
    /\ UNCHANGED <<ingestUnchanged, faults>>

\* withdraw_settled_asks.
WithdrawSettled ==
    /\ sweep.pc = "withdraw"
    /\ row' = Settled({a \in Asks : /\ row[a].state = "pending"
                                    /\ status[a] # "open" \/ a \in corrected},
                      "withdrawn")
    /\ sweep' = [sweep EXCEPT !.pc = "expire"]
    /\ UNCHANGED <<ingestUnchanged, faults>>

\* A mutant: joined to the living messages, as the other statements are.
ExpiredAlive ==
    {a \in alive : row[a].state = "pending" /\ row[a].age > ExpireAfter + sweep.age}

\* expire_pending: the cutoff is that of the moment the sweep began.
Expired == {a \in Asks : row[a].state = "pending" /\ row[a].age > ExpireAfter + sweep.age}

ExpirePending ==
    /\ sweep.pc = "expire"
    /\ row' = Settled(Expired, "expired")
    /\ sweep' = [pc |-> "queue", age |-> 0]
    /\ UNCHANGED <<ingestUnchanged, faults>>

\* A crash, or an exception that notification_sweep_loop absorbs.
SweepFails ==
    /\ sweep.pc # "queue" /\ faults < MaxFaults
    /\ faults' = faults + 1
    /\ sweep' = [pc |-> "queue", age |-> 0]
    /\ UNCHANGED <<ingestUnchanged, row>>

Sweep == QueueObligations \/ WithdrawSettled \/ ExpirePending

-----------------------------------------------------------------------------
(* The bot half *)

drainUnchanged == <<obligations, access, asked, optedOut, sweep, moves>>

\* Done with the recipient at hand: the next one, or the end of the pass.
Onward(p) ==
    IF drain.todo = {p} THEN IdleDrain
    ELSE [IdleDrain EXCEPT !.pc = "resolve", !.age = drain.age,
                           !.todo = drain.todo \ {p}, !.first = drain.first]

\* A mutant: only deliveries that succeeded count against the rate.
DueIgnoringAttempts ==
    {p \in People \ optedOut :
        /\ \E a \in PendingOf(p) : row[a].age >= BatchWindow
        /\ pref[p].enabled /\ ~pref[p].undeliverable
        /\ pref[p].last >= MinInterval}

\* RECIPIENTS_DUE.
Due ==
    {p \in People \ optedOut :
        /\ \E a \in PendingOf(p) : row[a].age >= BatchWindow
        /\ pref[p].enabled /\ ~pref[p].undeliverable
        /\ pref[p].last >= MinInterval /\ pref[p].attempt >= MinInterval}

\* The rows in the order of min(queued_at): the person of an older row first.
Longest(p) == CHOOSE n \in {row[a].age : a \in PendingOf(p)} :
                  \A a \in PendingOf(p) : row[a].age <= n

\* recipients_due.
Claim ==
    /\ drain.pc = "idle" /\ Due # {}
    /\ \E S \in SUBSET Due :
          /\ Cardinality(S) = AtMost(Cardinality(Due), RecipientsPerPass)
          /\ \A p \in S, q \in Due \ S : Longest(p) >= Longest(q)
          /\ drain' = [IdleDrain EXCEPT !.pc = "resolve", !.todo = S,
                                        !.first = {p \in S : ~pref[p].first}]
    /\ UNCHANGED <<drainUnchanged, row, pref, faults, ghosts>>

\* A mutant: a viewer who resolves to nothing is one who may read nothing.
ResolveTrustingly ==
    /\ drain.pc = "resolve"
    /\ \E p \in drain.todo :
          drain' = [drain EXCEPT !.pc = "read", !.who = p,
                        !.viewer = IF p \in cold THEN {} ELSE AsksOf(p) \cap readable]
    /\ UNCHANGED <<drainUnchanged, row, pref, faults, ghosts>>

\* resolve_viewer, from live guild state; and the early return on a viewer
\* with no channel at all.
Resolve ==
    /\ drain.pc = "resolve"
    /\ \E p \in drain.todo :
          drain' = IF p \in cold THEN Onward(p)
                   ELSE [drain EXCEPT !.pc = "read", !.who = p,
                                      !.viewer = AsksOf(p) \cap readable]
    /\ UNCHANGED <<drainUnchanged, row, pref, faults, ghosts>>

\* PENDING_FOR_VIEWER.
Tellable(p) ==
    {a \in PendingOf(p) \cap drain.viewer :
        /\ a \in alive \ corrected /\ status[a] = "open"
        /\ pref[p].enabled /\ ~pref[p].undeliverable
        /\ p \notin optedOut}

\* pending_for, cut to max_items.
PendingFor ==
    /\ drain.pc = "read"
    /\ \E shown \in Oldest(MaxItems, Tellable(drain.who)) :
          drain' = [drain EXCEPT !.pc = "settle", !.items = shown]
    /\ UNCHANGED <<drainUnchanged, row, pref, faults, ghosts>>

\* settle_unreadable, under the same viewer; and the early return without items.
SettleUnreadable ==
    /\ drain.pc = "settle"
    /\ row' = Settled(PendingOf(drain.who) \ drain.viewer, "unreadable")
    /\ drain' = IF drain.items = {} THEN Onward(drain.who)
                ELSE [drain EXCEPT !.pc = "send"]
    /\ UNCHANGED <<drainUnchanged, pref, faults, ghosts>>

\* What the platform did, and what of the message reached the person.  A long
\* message is sent in pieces, the last of which says how to stop, and a failed
\* call may have done its work.
Deliveries ==
    {<<"sent", "all">>, <<"failed", "nothing">>, <<"failed", "part">>,
     <<"failed", "all">>, <<"closed", "nothing">>, <<"closed", "part">>}

\* DiscordNotificationSender.send.
Send ==
    /\ drain.pc = "send"
    /\ \E d \in Deliveries :
          /\ drain' = [drain EXCEPT !.pc = "record", !.result = d[1], !.arrived = d[2]]
          /\ told' = IF d[2] = "all" THEN told \cup drain.items ELSE told
          /\ knows' = IF d[2] = "all" /\ drain.who \in drain.first
                      THEN knows \cup {drain.who} ELSE knows
          /\ heard' = IF d[2] = "nothing" THEN heard
                      ELSE [heard EXCEPT ![drain.who] = drain.age]
    /\ UNCHANGED <<drainUnchanged, row, pref, faults, revoked, delivered, lost>>

\* The stamps of a pass are the time it began.
Began == AtMost(drain.age, MinInterval)

\* A mutant: everything that was pending is marked, the omitted included.
MarkedAll(p, r) == [row |-> Settled(PendingOf(p), "sent"),
                    pref |-> [r EXCEPT !.first = TRUE, !.last = Began]]

\* MARK_SENT and RECORD_SENT.
Marked(p, r) == [row |-> Settled(PendingOf(p) \cap drain.items, "sent"),
                 pref |-> [r EXCEPT !.first = TRUE, !.last = Began]]

MarkSent ==
    /\ drain.pc = "record" /\ drain.result = "sent"
    /\ LET p == drain.who
           done == Marked(p, pref[p])
       IN /\ row' = done.row
          /\ pref' = [pref EXCEPT ![p] = done.pref]
          /\ drain' = Onward(p)
          /\ lost' = lost \ {p}
    /\ delivered' = delivered \cup {a \in Asks : row'[a].state = "sent"}
    /\ UNCHANGED <<drainUnchanged, faults, told, knows, revoked, heard>>

\* A mutant: a failed attempt counts as the first message.
StampedAsFirst(r) == [r EXCEPT !.attempt = Began, !.first = TRUE]

\* A mutant: the stamp is the end of the interval, as if it were a deadline.
StampedAhead(r) == [r EXCEPT !.attempt = drain.age - MinInterval]

\* RECORD_ATTEMPT.
Stamped(r) == [r EXCEPT !.attempt = Began]

RecordAttempt ==
    /\ drain.pc = "record" /\ drain.result = "failed"
    /\ pref' = [pref EXCEPT ![drain.who] = Stamped(@)]
    /\ drain' = Onward(drain.who)
    /\ lost' = lost \ {drain.who}
    /\ UNCHANGED <<drainUnchanged, row, faults, told, knows, revoked, delivered, heard>>

\* RECORD_UNDELIVERABLE and SETTLE_UNDELIVERABLE.
RecordUndeliverable ==
    /\ drain.pc = "record" /\ drain.result = "closed"
    /\ pref' = [pref EXCEPT ![drain.who].undeliverable = TRUE]
    /\ row' = Settled(PendingOf(drain.who), "undeliverable")
    /\ drain' = Onward(drain.who)
    /\ lost' = IF drain.arrived = "nothing" THEN lost ELSE lost \cup {drain.who}
    /\ UNCHANGED <<drainUnchanged, faults, told, knows, revoked, delivered, heard>>

\* The bot stops, or a statement fails and notification_loop absorbs it: the
\* pass ends where it is, and what was sent is not recorded.
DrainFails ==
    /\ drain.pc # "idle" /\ faults < MaxFaults
    /\ faults' = faults + 1
    /\ drain' = IdleDrain
    /\ lost' = IF drain.arrived = "nothing" THEN lost ELSE lost \cup {drain.who}
    /\ UNCHANGED <<drainUnchanged, row, pref, told, knows, revoked, delivered, heard>>

Drain == Claim \/ Resolve \/ PendingFor \/ SettleUnreadable \/ Send
            \/ MarkSent \/ RecordAttempt \/ RecordUndeliverable

-----------------------------------------------------------------------------
Next ==
    \/ Tick
    \/ \E a \in Asks :
          \/ RecordAsk(a) \/ PruneAsk(a) \/ RecordReaction(a) \/ RemoveReaction(a)
          \/ Reply(a) \/ Correct(a) \/ DeleteSource(a) \/ Revoke(a) \/ Regain(a)
    \/ RefreshState
    \/ \E p \in People :
          \/ Resolvable(p) \/ OptOut(p)
          \/ \E enabled \in BOOLEAN : SetEnabled(p, enabled)
    \/ Sweep \/ SweepFails
    \/ Drain \/ DrainFails

Spec == Init /\ [][Next]_vars

\* Both loops run for ever and absorb what fails; time passes.
FairSpec == Spec /\ WF_vars(Sweep) /\ WF_vars(Drain) /\ WF_vars(Tick)

-----------------------------------------------------------------------------
(* Types *)

\* The type invariant.  The columns of notification and notification_preference.
TypeOK ==
    /\ status \in [Asks -> Statuses]
    /\ ticks \subseteq Asks /\ replies \subseteq Asks /\ corrected \subseteq Asks
    /\ alive \subseteq Asks /\ readable \subseteq Asks
    /\ told \subseteq Asks /\ revoked \subseteq Asks /\ delivered \subseteq Asks
    /\ cold \subseteq People /\ optedOut \subseteq People
    /\ knows \subseteq People /\ lost \subseteq People
    /\ asked \in 0..(MaxAge + 1)
    /\ row \in [Asks -> Row]
    /\ pref \in [People -> Preference]
    /\ sweep \in Sweeping
    /\ drain \in Pass
    /\ heard \in [People -> 0..HeardAge]
    /\ moves \in 0..MaxMoves /\ faults \in 0..MaxFaults

-----------------------------------------------------------------------------
(* What a person may count on *)

\* A notification recorded as sent was in a message that arrived, whatever the
\* sweep, extraction and the person did between the read and the record
\* (mark_sent settles the keys of the draft, among the rows still pending).
SentMeansTold ==
    \A a \in Asks : row[a].state = "sent" => a \in told

\* Two passes that put something in front of the same person are an interval
\* apart, failed deliveries included, unless the first left no stamp: the pass
\* was cut short before the record, or the person closed their messages between
\* two pieces and turned notifications on again (last_notified_at and
\* last_attempt_at, read by RECIPIENTS_DUE).
RateKept ==
    [][(drain.pc = "send" /\ drain'.pc = "record" /\ drain'.arrived # "nothing") =>
          \/ heard[drain.who] >= drain.age + MinInterval
          \/ heard[drain.who] = HeardAge
          \/ drain.who \in lost]_vars

\* Nothing is settled as unreadable unless its channel was closed or unindexed: neither
\* a reconnect nor leaving the server discards anybody's queue (the early
\* return of _deliver_to on an empty viewer).
UnreadableMeansRevoked ==
    \A a \in Asks : row[a].state = "unreadable" => a \in revoked

\* Whoever is recorded as having been messaged was told how to stop: neither a
\* failed delivery nor one whose record was lost uses up the first message.
KnowsHowToStop ==
    \A p \in People : pref[p].first => p \in knows

\* Every notification that is queued is settled, or goes with its ask or its
\* person (expire_pending in the end).
EverySettles ==
    \A a \in Asks : []<>(row[a].state # "pending")

\* A notification that was delivered is never queued again
\* (QUEUE_OBLIGATIONS: "the row is the mark").
DeliveredNeverRequeued ==
    \A a \in Asks : row[a].state = "pending" => a \notin delivered

=============================================================================
