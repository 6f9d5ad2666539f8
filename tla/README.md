# Formal models of CyberFriend

CyberFriend (`src/`) is a Discord assistant with a memory.  An **ingest** process
archives the channels an operator chose into Postgres, forms conversation windows over
the messages, embeds them and extracts obligations; a **bot** process answers questions
from what the asker may read; an **admin** console and an **MCP** server are further
doors to the same database.  This directory holds TLA+ models of the parts whose
correctness depends on the order in which these processes and their coroutines act, the
TLC instances that check them, and TLAPS proofs.

`PROJECT.json` is the machine-readable companion: components, runs, mutants, the map
from definitions to source lines, findings, hazards and theorems.

## The system

Paths are relative to `src/src/chatmemory/`.

| Component | State | Operations | Interacts through | Model |
|---|---|---|---|---|
| Corpus store and windows (`adapters/store/postgres.py`, `sql.py`, `app/ingest.py`, `app/windowing.py`) | `message`, `message_tombstone`, `conversation_window`, the dirty mark | upsert, tombstone, mark dirty, rebuild, clear, purge | the database; one transaction per call, READ COMMITTED | `Corpus`, `Indexing` |
| History (`adapters/discord/source.py`, `entrypoints/ingest.py`) | `ingest_cursor`, a pass's pages in memory | import a page, re-read the lookback, compare with the ledger | the platform's history, the corpus store | `History` |
| Gateway events (`adapters/discord/gateway.py`) | discord.py's cache | message, edit, delete, permission and role events | the live queue and the handlers | `Corpus`, `History`, `Audience` |
| Indexing scope (`app/indexing.py`, `app/scope.py`, `admin/handlers/channels.py`) | the list of channels | add with a notice, remove with two purges | a lock of the bot over a shared row | `Indexing` |
| Erasure (`app/erasure.py`, `adapters/store/erasure_*.py`) | `erasure_request`, `person.erased_before`, `person_opt_out` | open, eight steps, advance, resume by the sweep | bot, console and ingest over one row; a trigger guards re-import | `Erasure` |
| Opt-out and retention (`app/optout.py`, `app/retention.py`) | `person_opt_out`, horizons | exclude, purge, return | triggers on `person_opt_out` | `Erasure`, `Traces` |
| Asks and decisions (`app/asks/`, `app/decisions/`) | `ask`, corrections, the ledger of what was read | extract (live queue and backlog), resolve, correct | the ingest process's bounded queue | `Extraction`, `Notifications` |
| Notifications (`app/notifications.py`, `notify_*.py`) | `notification`, `notification_preference` | enqueue (ingest), claim and send (bot), switch (person) | a queue between two processes | `Notifications` |
| Traces (`trace_postgres.py`, `adapters/tracing/`, `app/reasoning/tracing.py`) | exported runs, deletion requests | record an export; withdraw for a message, a person or an asker | the trace store, the drains | `Traces` |
| Documents (`app/documents/`, `adapters/documents/store.py`) | `document`, its chunks, its entries | ingest a share, reconcile, withdraw, purge | four transactions an ingestion | `Documents` |
| Alerts (`app/alerts.py`) | `alert`, its last state, a claim | create, sweep, evaluate, message | the chain readers, a cap per person | `Alerts` |
| Schedules (`app/schedules.py`) | `scheduled_task` | create, claim, run, disable | the bot's loop | `Schedules` |
| Feature requests (`app/feature_request*.py`) | `feature_request`, what was announced | submit, triage, claim news, release | console and bot over one table | `Suggestions`, `StatusNews` |
| Runtime configuration (`app/configuration.py`, `config_*.py`, `admin/handlers/`) | `app_setting`, a snapshot per process | refresh, edit, escalate | a cadence and the console | `Configuration` |
| Confirmation of tools (`app/authorization.py`, `app/confirmation.py`, `adapters/mcp_client/invoker.py`) | a ledger of answers, open prompts | propose, ask, gate, call, consume | the runs of one person | `Confirmations` |
| Federated tools (`adapters/mcp_client/`, `app/personal_keys.py`) | a shared connection, its token, people's keys | register, call, mint, mark lost | outside MCP servers | `Federation` |
| Console login and sessions (`admin/oidc`, `admin/user`) | pending logins, sessions | begin, callback, rotate, sign out | the identity provider | `Sessions` |
| Accounts (`app/accounts.py`, `accounts_*.py`) | consents, codes, links | request, code, link, announce | the provider, bot and console | `AccountLinks` |
| Conversation memory (`app/memory.py`, `app/conversation.py`, `memory_*.py`) | turns, summaries, their channels | recall, store, condense, forget | a background task, triggers | `Memory` |
| Permission cache (`adapters/discord/acl.py`) | readable channels by destination or person | resolve, invalidate | guild events, a connection with gaps | `Audience` |
| Answering (`app/reasoning/`, `app/ask.py`, `app/routing.py`) | one request's budgets and evidence | route, retrieve, judge, correct, escalate | everything above, read only | `Reasoning` |
| Voice ledger, rate limits (`app/voice.py`, `media_postgres.py`, `app/limits.py`) | seconds per month, recent questions | check, charge, measure, fold | an advisory lock | `Voice` |
| Chain, market, web and model adapters; MCP server; console front end; composition | short caches | one outside request each | outside services | none |

### What is hard here

* Transactions of several coroutines over one channel: a tombstone, an upsert and a
  window rebuild interleave at statement level, and only the advisory lock of a message
  and the row locks of windows order any of them.
* State read, then used after an `await`: the watermark a rebuild started from, the page
  of history a pass compares with a ledger read later, the erasure request a runner
  holds a copy of, the list of channels a command wrote back, the confirmation a gate
  read, the token that was refused.
* Two events for one deletion; edits that overtake the capture of what they edit; a
  platform that never replays what happened during an outage.
* Work that spans transactions (write then mark; step then record; send then record;
  upsert then chunks; write then escalation), with a crash possible in between, and
  sweeps that pick it up.
* Limits: the messages a rebuild reads, the pages a reconciliation reads, the length of
  a page that a filter has shortened, a queue that drops, a batch, a cap counted in a
  snapshot, seconds of a month.
* What text may restate: a memory that was shown a summary that was shown an answer.

### What makes each component correct

* **Corpus**: a recorded deletion is final; no message is quoted by two live windows; no
  live window keeps superseded text without a rebuild being due; every stored message is
  in a live window in the end.
* **History**: everything at or above the cursor was stored; nothing is taken for
  deleted that is still there; deletions and posts of an outage are found.
* **Indexing**: what is withdrawn is gone once the follow-up is through, and a channel
  that returns is imported from its end.
* **Erasure**: a completed request has erased and stays erased; every request completes;
  an opt-out asked for is an opt-out made; the voice total is unchanged; traces are
  marked while the messages that identify them still exist.
* **Notifications**: at most one message per interval, what is recorded as sent arrived,
  nothing is discarded for want of a viewer, the first message says how to stop, and
  everything queued is settled.
* **Extraction, traces, documents**: what is recorded as read was read; what quotes
  withdrawn text goes; what is found is of the content on record.
* **Loops**: one message for one cause, and one in the end; no interval answered twice.
* **Doors**: an effect only on the person's last word, once; a token never presented
  twice; a link by proof; the deployment's access never in place of a person's.
* **Answers**: what restates a channel is withheld with it; a revoked grant is not served
  on; the corpus first; a second run never worse than the first; a ceiling kept.

## Modules

| Module | What it is |
|---|---|
| `Corpus` | The corpus of one channel: rows, deletion ledger, live windows, dirty watermark and generation; the live consumer, the gateway handlers, reconciliation and backfill as writers; the window loop. |
| `MCCorpus` | `Corpus` for TLC: creation times, and three turns. |
| `CorpusProofs` | Theorems about `Corpus`, `Indexing` and their composition `MCArchive`. |
| `Indexing` | The list of channels, the commands and the console that write it, the ingest process that follows it, the purges. |
| `MCArchive` | `Corpus` and `Indexing` by turns. |
| `History` | How a page of history is cut and filtered, backfill with its cursor, one pass of reconciliation, outages and restarts. |
| `Extraction` | The live queue and the backlog that read asks and decisions out of a channel. |
| `Traces` | What is kept of answers at the trace store, and everything that takes it away. |
| `Documents` | One document that messages share: ingestion, reconciliation, withdrawal, purges. |
| `MCIngest` | The four above by turns. |
| `Notifications`, `MCNotifications`, `NotificationsProofs` | Asks addressed to people, the queue of what they are to be told, the sweep that fills and settles it, the drain that sends from it; their instance; their theorems. |
| `Alerts` | Position, health and price alerts: confirmation, sweep, evaluators, messages. |
| `Schedules` | Questions asked on a schedule. |
| `Suggestions` | Suggestions, their triage and their news. |
| `StatusNews` | What an author of a suggestion is promised: the abstract specification `Suggestions` implements. |
| `Configuration` | Settings an operator changes without a redeploy. |
| `MCLoops` | The four loops by turns. |
| `Confirmations` | How a run gets a person's yes for a call, and spends it. |
| `Sessions` | A sign-in, its session and the refreshes of its token. |
| `AccountLinks` | How a web account comes to reach a person's data. |
| `Federation` | Remote tools on a shared connection and on people's keys. |
| `Erasure` | One person's erasure requests, the processes that run their steps, and what goes on being written meanwhile. |
| `MCDoors` | The five by turns. |
| `Memory` | What the assistant remembers of one person in one place. |
| `Audience` | What a cached permission may still admit. |
| `Reasoning` | One question from its route to its reply. |
| `Voice` | Voice questions and what they cost. |
| `MCAnswers` | The four by turns. |
| `ToolsProofs` | Theorems about `Confirmations`, `Federation`, `Sessions`, `AccountLinks` and their composition `MCDoors`. |
| `ErasureProofs` | Theorems about `Erasure`. |
| `LoopsProofs` | Theorems about `Suggestions`, `Configuration` and the composition `MCLoops`; extends `AlertsProofs`. |
| `AlertsProofs` | Theorems about `Schedules` and `Alerts`. |
| `IngestProofs` | Theorems about `History`, `Traces`, `Extraction`, `Documents` and their composition `MCIngest`. |
| `AnswersProofs` | Theorems about `Audience`, `Memory`, `Reasoning`, `Voice` and their composition `MCAnswers`. |

### Turns

The MC modules compose components that share no row at the level they are modelled at: a
variable `turn`, chosen in the initial state, says whose actions may fire, and sometimes
which part of what can happen to them.  TLC then explores the sum of their states and not
the product, which would add interleavings that no property can tell apart.  Fairness is
guarded by the turn (`WF_vars(turn = "erasing" /\ ...)`).  Where components do meet, they
are in one module: ingest and the commands in `Indexing`, sweep and drain in
`Notifications`, bot and MCP server in `Audience`, the person's voice and their erasure in
`Voice`.

A definition whose comment begins with "A mutant" is a change of the code that a check
must notice.  `PROJECT.json` names one for each property; the others break the remaining
conjuncts of a property that has several.

### Corpus

A step is one statement, or statements no other transaction can tell apart; the effects
of a transaction appear at its commit.  `UpsertBegin` takes the advisory lock of the
message and reads the ledger, `UpsertCommit` writes; `MarkDirty` is the separate
transaction that `capture` and `handle_edit` run next.  `DeleteBegin` holds the lock and
has looked up the windows of the message, `DeleteCommit` publishes the tombstone, the
withdrawn windows and the watermark.  The window loop reads the watermark and its
generation (`LoopWake`), reads messages (`RewindowRead`, or `NetRead` for the safety
net), deletes windows (`WindowsDelete`, which waits for a tombstone that has updated one
of them), inserts and re-tombstones (`WindowsCommit`), and clears the watermark if the
generation has not moved (`ClearDirty`).  `seq` says whether it has, since that is all
that is ever asked of `windows_dirty_seq`.  A window is a function from the messages it
quotes to the revision quoted.

`ReconcileEdit`, `ReconcileDelete` and `BackfillRead` read a message only when no
coroutine holds an object of it: a re-read of history waits for the live event of the
same change.  That bounds the objects in flight and loses no outcome, since an object
read twice carries the same revision or a newer one.

### Indexing

A command (`request[r]`) waits for the bot's lock, reads the list, writes it with its
channel added or left out, posts its notice, takes its write back when the notice fails,
and purges when it removed; `followUp[r]` is the second purge, two refresh periods later.
The console writes the same row under another lock.  Ingest (`there`, the list it last
read) captures, imports pages and builds windows, each of which may be in flight across a
purge.  `crossed`, `forsaken` and `overtaken` are auxiliary: commands the console wrote
over, channels whose removal was cut short, channels whose purge met a page of history.
`HasSlept` is an assumption about time, that a follow-up comes after every process has
refreshed; a mutant shows the purge is in vain without it.

### History

`Page(b)` is what `DiscordChatSource.backfill` returns: the newest `PageSize` messages
before `b`, with the bots' removed *after* the page was cut.  `LastPage` is the stopping
rule of `_read_since`.  `top`, the newest message of the first page imported, is
auxiliary: with the cursor it bounds what backfill claims to have covered.  `Capture`
may fail, the process may stop (`Crash`, losing the live queue and the handlers) and is
restarted; while it is down, posts and deletions fire nothing.

### Extraction, Traces, Documents

`Extraction`: a text is an ask, a decision or chatter; `queued` is the bounded queue,
`batch["live"]` and `batch["backlog"]` the two passes, which extract chunk by chunk, write
the rows and then the mark.  The live pass marks the revision it *finds*, the backlog the
one it read: `astray` names what the first may have marked unread.

`Traces`: a run is answered, checked against the opt-outs, posted, indexed; `flush` is
each pass that deletes what is marked (`REQUEST_DELETION`, the post, `CONFIRM_DELETED`),
`search` the look-up by asker in the store itself.  `missed` and `unsearched` are the
traces no index entry leads to.

`Documents`: a hand is one call of the pipeline or of a purge; `Refreshing` and `Refreshed`
are the two halves of a statement that copies live entries' channels into the chunks: what
it computed and what it may still overwrite.  `torn`, `narrowed` and `overtaken` are the
three doubts the properties exempt, each a note of a hazard.

### Notifications

`sweep` and `drain` are the two loops, in two processes: `QueueObligations`,
`WithdrawSettled` and `ExpirePending` are the transactions of one sweep; `Claim`,
`Resolve`, `PendingFor`, `SettleUnreadable`, `Send` and the three records are the awaits
of a drain pass.  `row`, `pref` and `optedOut` are tables; a time in them is kept as an
age, counted in ticks.  Both passes take their clock once, when they begin, which is why
`sweep` and `drain` have an age too.  `Send` chooses what the platform reports and what
reached the person, which may differ.  `RecordAsk` and `PruneAsk` are extraction; what
the addressee does (`RecordReaction`, `Reply`, `Correct`, the switch, opting out) and the
platform does to them (`Revoke`, `Regain`, `Resolvable`) comes between any two steps.
`readable` is both conditions of a viewer at once: that the platform lets the addressee
read the channel and that the channel is in the indexing scope (`acl.py:175-178`,
`212-216`).  `Revoke` closes either, `Regain` opens what was closed.
`told`, `knows`, `revoked`, `delivered`, `heard` and `lost` are auxiliary.

### Alerts, Schedules, Suggestions, Configuration

`Alerts`: `Confirm` stores a baseline, `ClaimAlerts` takes what is due, `ReadAlerts` reads
what may fail, the evaluators (`LpState`, health and price with their bands) decide, the
message is sent and what was evaluated is recorded.  An owner confirms anew, changes or
deletes between any two of these; `blurred` names the row whose record this wrote over.

`Schedules`: the claim moves `due` on before the question is asked, so a sweep that dies
costs an answer; `together` names the people whose inserts counted the same snapshot.

`Suggestions` implements `StatusNews` (`FollowsChanges`, through `INSTANCE ... WITH`): the
claims that are put back, the restarts and the failed messages are invisible there; what
is left is that messages follow the changes in order and none repeats what was heard.

`Configuration`: a refresh is asked for, reads and is installed, several at a time; an edit
of a list probes, writes, refreshes and records the escalation.  `stale` and `unrecorded`
name the concurrent edit and the crash that the properties exempt.

### Confirmations, Sessions, AccountLinks, Federation, Erasure

`Confirmations`: the ledger holds one answer for a person and a tool; `attempt` is the
run, `prompt` what the person sees, `lastWord` what they last said to anybody.
`PassGate` reads the answer, the personal key is awaited (`invoker.py:155`), and
`BeginCall` starts the call: a no said while the key is fetched comes too late.

`Sessions`: `issued`, `valid` and `held` are the provider's refresh tokens, the one it
accepts and the one that is stored; a request waits for the lock, refreshes, verifies and
stores, or discards and revokes.  The row is read in `Arrive` or, under the lock, in
`Enter`; the access token is then verified and the row touched, both awaited, before the
request is let in (`Use`, `UseFails`).  That a touch finds no row left is not looked at.

`AccountLinks`: `reserve`, the provider's request and its release; codes; the transaction
that links; the loop that announces by subject.  Telling has three ends: told (`Tell`);
the DM shut, which `_tell` takes for done, so that the link is marked all the same
(`FindShut`, noted in `shut`); any other failure, which leaves it for the next pass
(`TellFails`).

`Federation`: `call` is the run's view, `post` the HTTP request behind it, which a timeout
of the call may leave alive, with the lock.

`Erasure`: a runner (`run[r]`) holds a copy of the request, as `resume` does.  `Ask` is a
confirmed modal in the bot or the console; `SweepPick` is ingest's sweep, which takes over
a request nobody works on (the code's reading of "idle for two minutes").  Steps 2 and 5
are two transactions each (`"work"`, `"second"`), and `Advance` is the record after each.
`Upsert` passes the database guard, and with `SlowUpserts` commits later.  Runners may
overlap, in the two processes that run one, and answers that quote the person may be
written at any time.  Three auxiliary variables name what goes wrong then: `late`, the
messages that had passed the guard when re-import was stopped; `between`, the messages
quoted between the marking of the traces and the purge; `outrun`, the requests a step of
which was recorded by a runner whose copy was older than the second button.

### Memory, Audience, Reasoning, Voice

`Memory`: a turn is its id, and what it says is the set of turns it may restate (`rests`)
and the channels its run read (`drew`); `channelIds` is the stored provenance.  The
summariser recalls, condenses and replaces in three steps, and whatever deletes in
between is an action; `lost` are the turns it had read that were gone when it wrote.

`Audience`: an entry of a cache carries the scope it was computed under and its age; the
guild moves, a listener's task runs later, the connection breaks, resumes or starts anew.

`Reasoning`: the judge, the planner, the writer and the tools answer anything; the budget,
the order of corrective actions, what marks an answer partial and when a second run is
taken are the code's.

`Voice`: a recording is charged by the length it declares (by the longest, if it declares
none), measured after the download and turned away if it is longer, sent, asked.  The
ledger is written under an advisory lock; the month may turn, people are linked and folded
away meanwhile.

## Runs

Passing runs.  A property that joins several is given with its parts.

| Run | Properties |
|---|---|
| `archive` (`MCArchive`) | `TypeOK`; `OneLiveWindow`; `FreshOrDue`; `NoResurrection`; `NoDeadPublished`; `TombstonesStick`; `EventuallyCurrent`; `IndexingInv` (`ReadIsCurrent`: no command drops what another added; `WithdrawnIsGone`; `CursorIsStored`); `ListIsFollowed` (liveness: a channel that stays in scope is imported whole, one that stays out is empty) |
| `ingest` (`MCIngest`) | `IngestInv` (types; of documents `WithdrawnIsNotFound`, `SharesAreFound`, `ChunksAreOfTheRecord`); `CursorCovers`; `MarkedIsRead`; `TracesInv` (`DeletedForCause`, `ConfirmedForgets`); `MissedOnlyIfNewer`; `IngestCatchesUp` (liveness: `HistoryImported`, `DeletionsFound`, `PostsFound`, `CatchesUp`, `AskerTracesGo`, `QuotedTracesGo`, `OldTracesGo`) |
| `notifications` (`MCNotifications`) | `TypeOK`; `SentMeansTold`; `UnreadableMeansRevoked`; `KnowsHowToStop`; `RateKept`; `EverySettles` |
| `loops` (`MCLoops`) | `LoopsInv` (types; `OncePerInterval`, `CapUnlessTogether`, `LimitHolds`); `ConfigurationInv` (`NarrowingKept`, `ListsAgree`, `EscalationsRecorded`); `ToldForCause` (`ToldOnlyAfterReturn`, `ConfirmedByReads`); `FollowsChanges` (refinement of `StatusNews`); `LoopsDeliver` (liveness: `AlarmIsTold`, `TasksKeepRunning`, `NewsArrives`, `EditsTakeHold`) |
| `doors` (`MCDoors`) | `ErasureInv` (`CompletedErases`, `VoiceConserved`, `TracesMarkedFirst`, `OptOutKeptUnlessOutrun`); `NoYesLeftOver`; `DoorsInv` (types; `OneSessionPerSignIn`, `NoTokenReplayed`, `SignOutReachesProvider`); `FederationInv` (`OwnKeyOnly`, `OwnDataInPrivate`, `LostForAll`, `OneTokenPerRefusal`, `LockHeld`); `AccountLinksInv` (`LinkedByProof`, `CodesAreSingle`, `WithinTheLimit`); `EveryRequestCarriedOut` (liveness); `OnlyWhileItHolds` (`CallsOnTheLastWord`, `EndedTurnsAway`); `DoorsAnswer` (liveness: `RunsEnd`, `RequestsAnswered`, `LinksAnnounced`, `CallsEnd`) |
| `answers` (`MCAnswers`) | `AnswersTypeOK`; `MemoryInv` (`AccountedFor`, `ShownIsReadable`, `ForgottenStaysForgotten`, `ExpiredIsGone`); `AudienceInv` (`NoStaleGrant`, `CutOffAnswersNothing`); `ReasoningInv` (`CorpusFirst`, `PartialIsSaid`, `NeverWorse`, `NothingFoundIsMeant`); `VoiceInv` (`CeilingKept`, `OwnCeilingKept`, `SentIsCharged`, `UnwillingUnsent`); `QuestionsAnswered` (liveness) |

Runs that end in a violation, each with the finding it belongs to:

| Run | Violated |
|---|---|
| `corpus_swallowed` | `DeletedEventuallyGone`: a deletion's mark is cleared by the rebuild it overlapped. |
| `history_race` | `OnlyDeletedTombstoned`: a message captured between the re-read and the ledger is tombstoned. |
| `erasure_reopened` | `EveryRequestCloses`: a slower runner reopens a completed request, and no sweep closes it. |
| `erasure_optout` | `OptOutKept`: an upgraded request is completed by the runner with the older copy. |
| `notifications_requeued` | `DeliveredNeverRequeued`: an ask that extraction lost and found again is told twice. |
| `confirm_twice` | `OneCallPerApproval`: two runs of one person make two calls on one yes. |

`CHECK_DEADLOCK FALSE` in every configuration but those of `Notifications`, where time
always passes: people may stop posting, editing, deleting, asking and confirming, and the
loops then have nothing to do.

### Bounds, and why they are enough

Every bound is a constant named `Max...` in the module it limits, or a conjunct of a turn
in the MC module.

* `archive`: three messages are the least that a limit of two splits, that a window of two
  leaves one out of, and whose middle one can be edited while the first is deleted.  One
  edit separates "superseded" from "current".  `Gap = 1` with consecutive times puts all
  in one run, so the splits come from `MaxMessages`; `Lookback = 1` puts the boundary of a
  rebuild inside a window.  The turn "faults" has a backfill, both delete events and one
  fault at any step.  In `Indexing`, two commands and a console over two channels cross
  each other's writes; one channel with two old messages and pages of one has a page in
  flight on either side of a purge; one mishap or one live message at a time.
* `ingest`: pages of two with a bot as one of five messages, so that the filter can cut a
  page, and a lookback whose end lies inside a page.  Extraction: one message with two
  edits, a queue of one that overflows, one deletion, one reset, one failure; two messages
  for what is read as context.  Traces: two traces and a drain of one, so that a pass leaves
  one for the next.  Documents: two hands are the least that cross; two revisions of the
  source; two shares for the channels of one to be lost in the refresh of another.
* `loops`: a scale of prices and factors just long enough for a value inside, at and past
  the line and the re-arm band; two confirmations of an LP reading; two tasks under a cap
  of one; two suggestions under a daily limit of one; two statuses besides "new"; two
  edits of the lists and four of a setting, two refreshers of one process.
* `doors`: two runs over two sets of arguments; two requests and two callbacks of one
  session, two rotations; two members, subjects, codes and browsers; two calls and two
  people, three tokens; one asker of an erasure and the sweep, one crash.  Beside the
  messages, an erasure meets a row written about the person, a trace that quotes them or
  a second of voice, one of the three: no guard and no promise reads two of them.  A DM is
  shut only in the turn that announces; the turn that links ends in no notice.
* `answers`: with one turn kept verbatim and a summary made of more than two, the first
  summary is made after the third turn and leaves one, and the second, which restates the
  first, after the fifth.  Up to three turns meet two disturbances (a change of access,
  something forgotten, a purge, a miss), or one if two people ask at once; the fourth and
  the fifth are asked by one at a time and meet one.  There are two people and a
  destination both read; two windows and two lines of enquiry; two recordings of two
  seconds under ceilings of two and three.
* `notifications`: with two asks and room for one in a message, one is sent and one is
  left over.  An interval of two ticks and a batching window and expiry of one keep every
  comparison on either side of its bound; a pass or a sweep may take one tick, so that
  the time it began differs from the time it acts.  One move and one fault put any change
  and any failure between any two steps.  `notifications_requeued` has two people.

## Fairness

Weak fairness only, of each coroutine on its own: the window loop, the handlers of a
message, the backfill and reconciliation loops, the extraction passes, the drains, the
sweeps of alerts, schedules and news, the refresh of a configuration, a command and its
follow-up, a request, a run, a call and the request behind it, a question, a recording, the
runners of an erasure and their sweep.  Each is a `while True` loop, a callback that runs
to its end, or a wait with a deadline; the orchestrator restarts a stopped process.  In
`Notifications` that is the sweep, the drain and the clock.  People, providers, and what
reconciliation finds are never assumed to act: the desk's deadline is fair, the button is
not; a call's timeout is fair, the server's answer is not.

## Proofs

Every safety property that a run checks, invariant or action property, is also a theorem:
TLC shows it on the instance of the run, TLAPS for every value of the constants that the
module's named assumption admits.  The assumptions give the constants their types, say
that some sets are finite, that a null value is none of the values, and that bounds of
buffers and batches are positive; where a theorem needs more, its statement says so
(the column "Under").  None of the invariants is inductive alone; the strengthening is the
definition whose name ends in `IInv` (`IInv` alone in `ErasureProofs`), a conjunction of
named parts, each of which says what one place of the code knows that its rows do not
show.  A theorem is then `Init => IInv`, one lemma for each action, and `IInv => Inv`.

| Module | Theorem | Says that always (`[]`), or of every step | Under |
|---|---|---|---|
| `CorpusProofs` | `TypeCorrect` | `TypeOK` | |
| | `DeletionsWin` | `NoResurrection` | |
| | `WithdrawalIsFinal` | `TombstonesStick` | |
| | `WindowsArePartition` | `OneLiveWindow` | |
| | `NoRebuildPublishesDead` | `NoDeadPublished` | |
| | `SupersededTextIsDue` | `FreshOrDue` | no backfill, no faults |
| | `ArchiveRestsOnConsent` | `IndexingInv` | |
| | `ArchiveKeepsItsWord` | all of these but `FreshOrDue`, of `ArchiveSpec` | |
| `NotificationsProofs` | `TypeCorrect`, `NothingUnsentIsMarked`, `NothingReadableIsDiscarded`, `FirstSaysHowToStop`, `RateIsKept` | `TypeOK`, `SentMeansTold`, `UnreadableMeansRevoked`, `KnowsHowToStop`, `RateKept` | |
| `ToolsProofs` | `YesIsSpent`, `LastWordDecides` | `NoYesLeftOver`, `CallsOnTheLastWord` | |
| | `NobodysAccessIsLent` | `FederationInv` | |
| | `SignOutIsComplete`, `EndedSessionsTurnAway` | `SessionsInv`, `EndedTurnsAway` | |
| | `LinksRestOnProof` | `AccountLinksInv` | |
| | `DoorsKeepTheirPromises`, `NothingPassesOnceTakenBack` | `DoorsInv` and the invariants above, `OnlyWhileItHolds`, of `DoorsSpec` | |
| `ErasureProofs` | `CompletedStaysErased`, `OneRequestOpen` | `CompletedErases`, `VoiceConserved`, `OneOpen` | |
| | `ErasurePromises` | `ErasureInv` | |
| `LoopsProofs` | `LimitIsNeverPassed`, `SuggestionsKeepTypes` | `LimitHolds`, types | |
| | `NewsImplementsStatusNews` | `FollowsChanges`: `Suggestions` implements `StatusNews` | |
| | `NothingHandedBack` | `NarrowingKept`, `EscalationsRecorded` | |
| | `ConfigurationPromises` | `ConfigurationInv` | the environment's lists agree (`Honoured`) |
| | `LoopsKeepTheirPromises` | `LoopsInv`, of the composition | |
| `AlertsProofs` | `SchedulesKeepTheirPromises` | `OncePerInterval`, `CapUnlessTogether` | |
| | `AlertsKeepTypes`, `AlertsTellForCause` | types, `ToldForCause` | |
| `IngestProofs` | `BackfillLeavesNoGap` | `CursorCovers` | |
| | `OnlyTheNewestIsMissed` | `MissedOnlyIfNewer` | no bot speaks in the lookback, and the pages of a pass reach its end (`PagesReach`) |
| | `TracesGoForCause` | `TracesInv` | |
| | `MarkedWasRead` | `MarkedIsRead` | |
| | `DocumentsKeepTheirWord` | `DocumentsInv` | |
| | `IngestKeepsItsWord` | `IngestInv`, of the composition | |
| `AnswersProofs` | `NothingRevokedIsServed` | `AudienceInv` | |
| | `MemoryIsAccountedFor` | `MemoryInv` | |
| | `AnswersRestOnEvidence` | `ReasoningInv` | |
| | `CeilingsAreKept` | `VoiceInv` | |
| | `AnswersKeepTheirWord` | all of these and `AnswersTypeOK`, of `AnswersSpec` | |

The conditions of the column "Under" are needed.  A fault between a write and its mark,
and a backfill of a newer revision (which marks nothing), each leave a stale window that
nothing is due to rebuild.  A page shortened by the filter on bots, or a
lookback longer than the pages of a pass, makes reconciliation take for deleted what it has
not read.  An environment whose lists disagree is refused when an agent starts
(`FederationConfig.__post_init__`), so no process runs from one.

### What the invariants are strengthened with

*Corpus.*  `NoResurrection` needs `LockInv`: a message's lock has one holder, so what an
upsert read of the ledger when it began is still true when it commits.  `OneLiveWindow`
needs `LoopInv`: a rebuild has read nothing older than the point it rebuilds from, and once
it has deleted, no window left reaches into what it re-forms; `BuildWindows` returns
disjoint windows because `Together` is an equivalence.  `FreshOrDue` needs `AllMarked`
(every write is followed by a mark) and `RebuildInv`: while the generation has not moved,
the rebuild in progress itself removes all superseded text but that whose mark is still to
run, so the clear that follows hides nothing; when it has moved, the clear does nothing.

*Indexing.*  `FollowUpsStand`: every channel is in scope or forsaken, or a purge of it is
promised by a command or a follow-up asleep, or ingest has let go of it and what is left is
nothing, or is pending a follow-up that is due.  `CommandsStand`: one command has the lock,
and the list it has read is the list.  `PageStands`: a page reaches without a gap to the
cursor it was read before.

*Notifications.*  `ToldInv`: a pass about to record a delivery has put all it read before
the person.  `RevokedInv`: what a resolved viewer lacks was revoked when they were resolved.
`FirstInv`: a recipient not taken for new was messaged before, however long ago the pass
made up its mind.  `RateInv`: what somebody last heard is no younger than the pass under
way, nor than their younger stamp, unless it is being recorded or its record was lost.

*Confirmations.*  A yes in the ledger is the person's last word, and some run is on its way
to spend it (`YesIsLastWord`, `YesIsAwaited`).  *Federation.*  The lock is held by the one
request that mints, and only while there is no token to use (`LockIsMinting`); each token
but the first was paid for by one that aged or was refused (`TokensArePaidFor`); the call
that marked a server lost is over and was told so (`LostByCall`).  *Sessions.*
`RefreshStands` and `KeptInStep`: with no failure the row holds the provider's newest token,
or whoever has the lock is about to store it or to end the session.  *Account links.*
`CodesStand`, `BrowsersStand`: a code that lives was not used and is for an email its member
consented to; a browser that is linking holds the row of its code, alone.

*Erasure.*  `RowHolds` and `RunHolds`: what the step on record stands for has been done for
the time of the request and is not undone, and what a runner has done it knows.
`TracesHold`: while the traces of a request are marked and its messages still there, what
is quoted unmarked is in `between`.  `RowExcludes`, `RunExcludes`: a request with the
second button that is past the step of the exclusion, in its row or in a runner's copy,
has excluded, unless it was `outrun`; and of one that was, while no runner has stopped,
somebody with the newer copy is on the way to it.

*Suggestions.*  What is claimed is news to its author, and the rest is known to them
(`NewsIInv`); one submission of an author is under way at a time, and there is room for it
if it is let in (`LimitIInv`).  *Configuration.*  An edit that is about to write was checked
against lists it has read (`CheckedFirst`); wherever the list of tools is, in the row, in a
load, in an edit, what may change something is on record or about to be (`ListsOnRecord`).
*Schedules.*  `CreditsCover`: a task's claims and its coming run are intervals of their own.
*Alerts.*  `AlertStands`: a row says what its owner was last told until they were read to be
past it, and a claimed copy says what the row says, unless the row was confirmed anew
(`blurred`).

*History.*  `PageStands`: the page in hand is older than the cursor, holds whatever is still
in the history between its oldest message and the cursor, and is written before the cursor
moves.  `ReconStands`: of what is in the history and not newer than everything a pass has
seen, it has seen all down to the message it reads on from.  *Traces.*
`TraceStands`: what is deleted was marked, what is marked or about to be has its cause by
then, and causes never lapse (`CausesStay`).  *Extraction.*  A message is in each pass once
(`OncePerPass`), and what is not `astray` was not edited under the live pass, so that
whoever writes its asks while it is on record as read writes those of its text
(`PostStands`).  *Documents.*  `HandStands`, `RowsStand`: chunks and entries go with their
document, and whoever holds its id holds that of the one there is.

*Audience.*  `GapIsHeard`: what the process does not know of the guild happened in the gap
that it is in.  *Memory.*  `StoredStand`, `SummariesStand`, `SummariserStands`: the
channels of a turn, of a summary and of what the summariser has read cover those of
whatever it may restate, through as many answers and summaries as lie between; and what
the summariser has read is still stored, or in the summary, or was taken from under it
(`lost`).  *Reasoning.*  `SentStands`: nothing goes out with anything held.
`CorpusStands`: a second run begins from a first that fell short. *Voice.*
`ChargesStand`: by month and person, what was sent and what was granted and may still be
sent is covered by what was charged; hence a measurement held to the charge alone keeps
the ceiling, and an erasure, which moves seconds from a name to the month, changes no sum.
`AllowanceStands`: the limiter's events are kept oldest first, without which its `popleft`
loop would stop too early.

### How the data was reasoned about

The provers have no induction over data here.  A bounded minimum or maximum (`Min` of the
ids a query returns, the first event still in the window) is obtained from the library's
well-founded `WFMin` on the naturals.  The sums of `Voice` (a fold over a finite set) were
had from the same: a subset of least cardinality for which a claim about the sums of the
parts would fail is taken, and the claim of the subset less one element refutes it
(`LeastSubset`, `SumsExist`, `SumIs`, `SumMoves`, `SumGrows`).

### Only model-checked

* All liveness (`EventuallyCurrent`, `ListIsFollowed`, `EverySettles`, `IngestCatchesUp`,
  `LoopsDeliver`, `EveryRequestCarriedOut`, `DoorsAnswer`, `QuestionsAnswered`): the
  prover has no fairness and no `ENABLED`.
* `FreshOrDue` where history is imported or a transaction fails but nothing that is
  imported or fails is newer than what is stored (the turn "faults" of `archive`): the
  theorem leaves out imports and failures altogether.

### What the proofs changed

* `CASE` with overlapping guards leaves the value open in TLA+, and TLC takes the first
  that holds; in `Alerts`, `Corpus`, `Confirmations`, `Federation` and `Documents` the
  order of the code's tests is now in the definition (`IF`, or disjoint guards).
* A `UNION` beside a `\cup` in `Memory` was read one way by TLC and another by the prover;
  it is parenthesised.
* `Alerts` counted agreeing readings without end; the code stops at the number it needs.
* Assumptions that the code makes were missing: null values that are no values, finite sets
  of hands, speakers and recordings, positive bounds of tokens, revisions and attempts.
* `Voice` filters the limiter's events as the code does, from the oldest until one is still
  in the window.

## What the checks found

Each of these is a violation run, with the line it disagrees with quoted in
`PROJECT.json`.

* **A deletion's mark can be cleared unserved** (`corpus_swallowed`).
  `MARK_DIRTY_FOR_MESSAGE` does not bump `windows_dirty_seq`, unlike `MARK_WINDOWS_DIRTY`.
  A tombstone that overlaps a rebuild leaves its text in the window the rebuild
  publishes; if it commits before the clear, the clear takes its mark too.
* **Reconciliation withdraws messages that are there** (`history_race`).
  It takes for deleted whatever the ledger holds and the re-read did not show.  The
  ledger is read after the history, and `message_tombstone` makes the mistake permanent.
* **A completed erasure can be reopened for good** (`erasure_reopened`).  `ADVANCE` keeps
  the larger step but sets `completed_at` from the step it was given.
* **An upgrade to an opt-out can be lost** (`erasure_optout`).
* **A delivered notification can be queued again** (`notifications_requeued`).
  `PRUNE_ASKS` takes the settled row with the ask, and extraction is not deterministic.
* **One approval can make two calls** (`confirm_twice`).  The confirmation is read before
  the call is awaited and consumed when it returns.

### Exceptions the properties make

Where the code leaves a case open, the property names it in an auxiliary variable and
holds of the rest.  These cases are real, and they are what a reader should know:

* *Corpus.*  A fault between the write of an edit and its mark leaves text and window apart
  with nothing due.  A backfill that stores a newer revision marks nothing.  Edits are
  handled past the live queue: a queued capture may store the older text over the newer.
* *History.*  A page shortened by the filter on bots ends a re-read early; a lookback with
  more messages than `max_pages` is compared with a ledger read whole.
* *Indexing.*  A page of history in flight across a purge sets the cursor afterwards
  (`overtaken`): if the channel is indexed again before the follow-up, which is then
  skipped, what was deleted above the cursor is never imported (`NothingSkipped` states
  the contrary; TLC breaks it in twelve steps with one channel, two old messages and two
  commands).  A notice that cannot be posted has the channel purged once and not followed
  up; a bot that restarts or an ingest whose refresh fails leave content behind
  (`forsaken`).  A console edit and a command write over each other (`crossed`); the
  console's own removal purges nothing.  A window rebuild in flight across the last purge
  leaves a window without messages.
* *Extraction.*  The live pass records the revision it finds, so that an edit it overtook
  stays unread (`astray`).
* *Traces.*  A message deleted between the answer and `record_export`, or a trace posted
  after the search and never recorded, is left to retention (`missed`, `unsearched`).
* *Documents.*  A crash between the upsert and the chunks, or two ingestions that cross
  there, leave the new hash with the old chunks for good (`torn`), though the comment at
  `pipeline.py:311` says that old chunks must not survive.  Crossing refreshes leave a
  share that is not found (`narrowed`); an entry recorded after its message's deletion
  stays (`overtaken`).  An outage during a reconciliation withdraws a document for good.
* *Notifications.*  A bot that stops between the message and its record messages again at
  once.  A refusal recorded after the switch was turned on again closes it.  Recipients
  who cannot be told anything come first in every pass.
* *Alerts, schedules, news.*  A record written over a re-confirmed baseline repeats or
  swallows an alarm (`blurred`).  Two inserts that count one snapshot pass the cap together
  (`together`).  A release that fails loses the news (`dropped`).
* *Configuration.*  A list checked against lists read before a probe may be stored over
  another edit (`stale`); the escalation is a second transaction (`unrecorded`); an older
  refresh that arrives last stays until the next; an unreadable row and a restart together
  fall back to the environment.  The bot builds its federation from the environment
  settings alone (`composition.py:970`): a tool removed in the console stays until it
  restarts with another environment, though
  `openspec/specs/runtime-configuration/spec.md:45-50` says otherwise.
* *Confirmations.*  The desk's deadline ends before the button's: a press that comes
  between the two is told "approved", and nothing is called.  A no that comes after the
  gate, while a personal key is fetched, does not stop the call.
* *Erasure.*  A message that had passed the guard when re-import was stopped is stored
  afterwards (`late`); a trace exported between the marking and the purge is never marked
  for the request (`between`); a runner older than the second button may close the
  request without the opt-out (`outrun`, `erasure_optout`), or have it stand open though
  it was carried out (`erasure_reopened`), which is why `EveryRequestCarriedOut` does not
  ask that it close.
* *Sessions.*  A request that had read its row before a sign-out, an unlink or an erasure
  committed is let in after it: nothing reads the row again.  What arrives, or enters the
  lock, after the end is turned away (`EndedTurnsAway`).  A session that lost its roles in
  a refresh ends with the old token, and the new one stays valid at the provider
  (`demoted`).
* *Account links.*  A request that timed out is not counted, though the provider may have
  accepted it (`misjudged`).  A link is marked as announced by its subject (`crossed`),
  and also when the person's DM was shut, so that they never hear of it (`shut`).
* *Federation.*  A lost server stays lost until the bot restarts.
* *Memory.*  A turn deleted between the summariser's recall and its replacement is missing
  from the provenance (`lost`).
* *Audience.*  A transfer of the guild, a chunk of members and the deletion of a channel
  have no listener; the time to live alone ends what was cached.
* *Reasoning.*  A model that raises in the second run costs the answer of the first.
  "Nothing found" is also said when the time ran out before anything was searched.
* *Voice.*  Charges to a row that ingest's linking left without an owner (`strays`); an
  opt-out between the charge and the transcription does not stop it.

## Not modelled, and why

* Search statements, ranking and embeddings; prompts, judging and planning; the lexical
  classifiers of `app/routing.py` and of the intents: functions of one request, with no
  state, whose quality is a matter of data.  They appear as choices.
* The chain, market, web, transcription and language-model adapters: one request to an
  outside service each, and arithmetic on the answer.
* The console's front end and its queries, the wording and layout of every message, the
  MCP server's surface: rendering over stores that are modelled.
* `composition.py` and the entry points beyond their loops: wiring.  (`Documents` is wired
  to no process at this commit; it is modelled as the class is written.)
* Threads and the token bound of a window: the first splits a channel into independent
  runs, the second is a bound of the same kind as the count.
* A second replica of any process: deployment runs one of each.

That is why the map covers a small part of the implementation's lines: most of them are
text (patterns, wording, prompts, schemas, rendering) in the service of the control that
the modules keep.

## Plan

Every safety property of a run is proved.  What is left, in the order of what it would add:

1. An abstract corpus, in which a message is retrievable or not, that `Corpus` implements
   up to the lag its violation run shows; and an abstract memory that forgets at once,
   implemented by `Memory` up to the summaries under way.
2. `FreshOrDue` with the two causes of a window left stale as auxiliary state, and the
   theorem without its conditions.
3. The facts that liveness rests on and that are within the prover's reach: that a step of
   a fair process is possible whenever its property is not yet met (a disjunction of
   guards), and that each such step lessens a measure.
