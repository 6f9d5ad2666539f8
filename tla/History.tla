------------------------------- MODULE History -------------------------------
(***************************************************************************)
(* How the history of one channel reaches the corpus: backfill walks it    *)
(* from the newest message to the oldest behind a stored cursor, and       *)
(* reconciliation re-reads its recent part to find what happened while the *)
(* gateway was not listening, inferring a deletion from absence.  Both     *)
(* read pages of the platform's history while people post and delete and   *)
(* the live queue captures.                                                *)
(*                                                                         *)
(* Abstractions.  A message is its id.  What a transaction does to a row   *)
(* is module Corpus's subject: here a message is stored or not, and        *)
(* withdrawn for good once tombstoned, whether or not it was stored.       *)
(* Edits are left out.  `Since` is the oldest message within the lookback. *)
(***************************************************************************)
EXTENDS Integers, FiniteSets

CONSTANTS
    NumMsgs,    \* messages ever posted
    Old,        \* posted before the channel was indexed: the ids up to Old
    Bots,       \* messages is_ingestable refuses: a bot's, mostly
    Deletable,  \* messages their authors may delete
    PageSize,   \* messages in a page of history
    MaxPages,   \* pages a reconciliation reads
    Since,      \* reconcile_window(RECONCILE_LOOKBACK)
    MaxFaults   \* crashes, failed passes and failed captures

Msg == 1..NumMsgs

ASSUME HistoryAssumption ==
    /\ NumMsgs \in Nat \ {0}
    /\ Old \in 0..NumMsgs
    /\ Bots \subseteq Msg /\ Deletable \subseteq Msg
    /\ PageSize \in Nat \ {0}
    /\ MaxPages \in Nat \ {0}
    /\ Since \in Msg
    /\ MaxFaults \in Nat

Null == 0          \* no cursor, or no upper bound for a page

Backfilling == [pc : {"idle", "upsert", "cursor"}, page : SUBSET (Msg \ Bots)]
Reconciling == [pc : {"idle", "read", "ledger", "repair"},
                before : Msg \cup {Null}, pages : 0..MaxPages,
                seen : SUBSET Msg, missing : SUBSET Msg, gone : SUBSET Msg]

VARIABLES
    plat,     \* the platform's history
    up,       \* whether the ingest process runs
    queue,    \* live messages published and not yet captured
    delq,     \* delete events being handled
    stored,   \* "none", "live" or "dead" (in message_tombstone)
    cursor,   \* ingest_cursor.oldest_message_id
    top,      \* the newest message of the first page imported (auxiliary)
    back,     \* backfill_channel
    recon,    \* Reconciler.reconcile
    faults

vars == <<plat, up, queue, delq, stored, cursor, top, back, recon, faults>>

IdleBack == [pc |-> "idle", page |-> {}]
IdleRecon == [pc |-> "idle", before |-> Null, pages |-> 0,
              seen |-> {}, missing |-> {}, gone |-> {}]

Init ==
    /\ plat = [m \in Msg |-> IF m <= Old THEN "live" ELSE "unsent"]
    /\ up = TRUE
    /\ queue = {} /\ delq = {}
    /\ stored = [m \in Msg |-> "none"]
    /\ cursor = Null /\ top = Null
    /\ back = IdleBack
    /\ recon = IdleRecon
    /\ faults = 0

-----------------------------------------------------------------------------
(* Reading history *)

Ingestable == Msg \ Bots

Oldest(S) == CHOOSE m \in S : \A n \in S : m <= n
Newest(S) == CHOOSE m \in S : \A n \in S : n <= m

Before(before) ==
    {m \in Msg : plat[m] = "live" /\ (before # Null => m < before)}

\* DiscordHistoryReader.fetch: the newest PageSize messages before a bound.
Fetch(before) ==
    {m \in Before(before) :
        Cardinality({n \in Before(before) : m < n}) < PageSize}

\* A mutant: a page is not filtered.
PageUnfiltered(before) == Fetch(before)

\* DiscordChatSource.backfill filters a page after it is cut.
Page(before) == Fetch(before) \cap Ingestable

\* upsert_messages: a tombstone outlives any later upsert.
Upsert(S) ==
    [m \in Msg |-> IF m \in S /\ stored[m] = "none" THEN "live" ELSE stored[m]]

-----------------------------------------------------------------------------
(* People, and the events the gateway receives while the process runs *)

Post(m) ==
    /\ plat[m] = "unsent" /\ \A n \in Msg : n < m => plat[n] # "unsent"
    /\ plat' = [plat EXCEPT ![m] = "live"]
    /\ queue' = IF up /\ m \in Ingestable THEN queue \cup {m} ELSE queue
    /\ UNCHANGED <<up, delq, stored, cursor, top, back, recon, faults>>

Delete(m) ==
    /\ m \in Deletable /\ plat[m] = "live"
    /\ plat' = [plat EXCEPT ![m] = "deleted"]
    /\ delq' = IF up THEN delq \cup {m} ELSE delq
    /\ UNCHANGED <<up, queue, stored, cursor, top, back, recon, faults>>

\* live_loop -> capture, which may fail and is then logged.
Capture(m) ==
    /\ m \in queue /\ \A n \in queue : m <= n
    /\ queue' = queue \ {m}
    /\ \/ stored' = Upsert({m}) /\ UNCHANGED faults
       \/ faults < MaxFaults /\ faults' = faults + 1 /\ UNCHANGED stored
    /\ UNCHANGED <<plat, up, delq, cursor, top, back, recon>>

HandleDelete(m) ==
    /\ m \in delq
    /\ delq' = delq \ {m}
    /\ stored' = [stored EXCEPT ![m] = "dead"]
    /\ UNCHANGED <<plat, up, queue, cursor, top, back, recon, faults>>

-----------------------------------------------------------------------------
(* backfill_page *)

\* A mutant: the cursor moves with the read.
BackfillFetchEager ==
    /\ up /\ back.pc = "idle"
    /\ Page(cursor) # {}
    /\ back' = [pc |-> "upsert", page |-> Page(cursor)]
    /\ cursor' = Oldest(Page(cursor))
    /\ top' = IF cursor = Null THEN Newest(Page(cursor)) ELSE top
    /\ UNCHANGED <<plat, up, queue, delq, stored, recon, faults>>

\* get_cursor and source.backfill: nothing else moves the cursor.  An empty
\* page ends the sweep; the next one asks for the same page.
BackfillFetch ==
    /\ up /\ back.pc = "idle"
    /\ Page(cursor) # {}
    /\ back' = [pc |-> "upsert", page |-> Page(cursor)]
    /\ UNCHANGED <<plat, up, queue, delq, stored, cursor, top, recon, faults>>

BackfillUpsert ==
    /\ back.pc = "upsert"
    /\ stored' = Upsert(back.page)
    /\ back' = [back EXCEPT !.pc = "cursor"]
    /\ UNCHANGED <<plat, up, queue, delq, cursor, top, recon, faults>>

\* set_cursor: LEAST(oldest_message_id, :m).
BackfillCursor ==
    /\ back.pc = "cursor"
    /\ cursor' = IF cursor = Null \/ Oldest(back.page) < cursor
                 THEN Oldest(back.page) ELSE cursor
    /\ top' = IF cursor = Null THEN Newest(back.page) ELSE top
    /\ back' = IdleBack
    /\ UNCHANGED <<plat, up, queue, delq, stored, recon, faults>>

-----------------------------------------------------------------------------
(* Reconciler.reconcile *)

ReconcileStart ==
    /\ up /\ recon.pc = "idle"
    /\ recon' = [IdleRecon EXCEPT !.pc = "read"]
    /\ UNCHANGED <<plat, up, queue, delq, stored, cursor, top, back, faults>>

\* When _read_since stops: nothing came, something older than the lookback
\* came, the page was short, or it was the last one allowed.
LastPage(page) ==
    \/ page = {}
    \/ \E m \in page : m < Since
    \/ Cardinality(page) < PageSize
    \/ recon.pages + 1 = MaxPages

ReconcilePage ==
    /\ recon.pc = "read"
    /\ LET page == Page(recon.before)
       IN  recon' = [recon EXCEPT
              !.pc = IF LastPage(page) THEN "ledger" ELSE "read",
              !.before = IF LastPage(page) THEN @ ELSE Oldest(page),
              !.pages = @ + 1,
              !.seen = @ \cup {m \in page : m >= Since}]
    /\ UNCHANGED <<plat, up, queue, delq, stored, cursor, top, back, faults>>

\* STORED_REVISIONS: the live rows within the lookback.
Held == {m \in Msg : m >= Since /\ stored[m] = "live"}

\* A mutant: only what is newer than something the pass saw is inferred.
ReconcileLedgerCautious ==
    /\ recon.pc = "ledger"
    /\ recon' = [recon EXCEPT !.pc = "repair", !.missing = recon.seen \ Held,
          !.gone = {m \in Held \ recon.seen : \E n \in recon.seen : n < m}]
    /\ UNCHANGED <<plat, up, queue, delq, stored, cursor, top, back, faults>>

ReconcileLedger ==
    /\ recon.pc = "ledger"
    /\ recon' = [recon EXCEPT !.pc = "repair",
          !.missing = recon.seen \ Held, !.gone = Held \ recon.seen]
    /\ UNCHANGED <<plat, up, queue, delq, stored, cursor, top, back, faults>>

\* handle_edit for what is not stored as it is, then handle_delete for what is
\* stored and was not seen.
ReconcileEdit(m) ==
    /\ recon.pc = "repair" /\ m \in recon.missing
    /\ stored' = Upsert({m})
    /\ recon' = [recon EXCEPT !.missing = @ \ {m}]
    /\ UNCHANGED <<plat, up, queue, delq, cursor, top, back, faults>>

ReconcileDelete(m) ==
    /\ recon.pc = "repair" /\ recon.missing = {} /\ m \in recon.gone
    /\ stored' = [stored EXCEPT ![m] = "dead"]
    /\ recon' = [recon EXCEPT !.gone = @ \ {m}]
    /\ UNCHANGED <<plat, up, queue, delq, cursor, top, back, faults>>

ReconcileEnd ==
    /\ recon.pc = "repair" /\ recon.missing = {} /\ recon.gone = {}
    /\ recon' = IdleRecon
    /\ UNCHANGED <<plat, up, queue, delq, stored, cursor, top, back, faults>>

-----------------------------------------------------------------------------
(* Faults *)

\* A mutant: a reconciliation that cannot be answered goes on with what it saw.
PassFailsOpen ==
    /\ faults < MaxFaults
    /\ recon.pc = "read" /\ recon' = [recon EXCEPT !.pc = "ledger"]
    /\ faults' = faults + 1
    /\ UNCHANGED <<plat, up, queue, delq, stored, cursor, top, back>>

\* SourceUnavailable, a rate limit that outlasts its retries, or a failed
\* transaction ends the sweep or the pass.
PassFails ==
    /\ faults < MaxFaults
    /\ \/ back.pc # "idle" /\ back' = IdleBack /\ UNCHANGED recon
       \/ recon.pc # "idle" /\ recon' = IdleRecon /\ UNCHANGED back
    /\ faults' = faults + 1
    /\ UNCHANGED <<plat, up, queue, delq, stored, cursor, top>>

Crash ==
    /\ up /\ faults < MaxFaults
    /\ up' = FALSE
    /\ queue' = {} /\ delq' = {}
    /\ back' = IdleBack /\ recon' = IdleRecon
    /\ faults' = faults + 1
    /\ UNCHANGED <<plat, stored, cursor, top>>

Restart ==
    /\ ~up
    /\ up' = TRUE
    /\ UNCHANGED <<plat, queue, delq, stored, cursor, top, back, recon, faults>>

-----------------------------------------------------------------------------

People == \E m \in Msg : Post(m) \/ Delete(m)
Live == \E m \in Msg : Capture(m) \/ HandleDelete(m)
BackfillLoop == BackfillFetch \/ BackfillUpsert \/ BackfillCursor
ReconcileLoop ==
    \/ ReconcileStart \/ ReconcilePage \/ ReconcileLedger \/ ReconcileEnd
    \/ \E m \in Msg : ReconcileEdit(m) \/ ReconcileDelete(m)

Next ==
    \/ People
    \/ Live
    \/ BackfillLoop
    \/ ReconcileLoop
    \/ PassFails \/ Crash \/ Restart

Spec == Init /\ [][Next]_vars

\* The loops run for as long as the process does, the orchestrator restarts it,
\* and gateway handlers complete.
Fairness ==
    /\ WF_vars(BackfillLoop)
    /\ WF_vars(ReconcileLoop)
    /\ WF_vars(Live)
    /\ WF_vars(Restart)

FairSpec == Spec /\ Fairness

-----------------------------------------------------------------------------
(* Type invariant *)

TypeOK ==
    /\ plat \in [Msg -> {"unsent", "live", "deleted"}]
    /\ up \in BOOLEAN
    /\ queue \subseteq Ingestable /\ delq \subseteq Deletable
    /\ stored \in [Msg -> {"none", "live", "dead"}]
    /\ cursor \in Msg \cup {Null} /\ top \in Msg \cup {Null}
    /\ back \in Backfilling
    /\ recon \in Reconciling
    /\ faults \in 0..MaxFaults

(* Safety *)

\* "The cursor only advances after a page is written": no message still in
\* the history between the cursor and the newest one imported is unstored,
\* wherever backfill crashed and resumed.
CursorCovers ==
    \A m \in Ingestable :
        (cursor # Null /\ cursor <= m /\ m <= top /\ plat[m] = "live")
            => stored[m] # "none"

\* Reconciliation tombstones a message that is still there only when it is
\* newer than everything the pass read.  (With no bot within the lookback, and
\* pages that reach to its end; what it should never do is OnlyDeletedTombstoned.)
MissedOnlyIfNewer ==
    [][\A m \in Msg :
         (plat[m] = "live" /\ stored[m] # "dead" /\ stored'[m] = "dead")
            => \A n \in recon.seen : n < m]_stored

(* Liveness, once people fall silent *)

\* "Resumes without gaps": everything posted before the channel was indexed is
\* eventually stored.
HistoryImported ==
    <>[](\A m \in Ingestable : (m <= Old /\ plat[m] = "live") => stored[m] # "none")

\* A deletion nobody heard of is found, and no page read before it brings the
\* message back for good.
DeletionsFound ==
    <>[](\A m \in Msg : (m >= Since /\ plat[m] = "deleted") => stored[m] # "live")

\* "SHALL recover messages posted during the outage": a message nobody heard of
\* is found and stored.  (It may still be withdrawn as if deleted: see
\* OnlyDeletedTombstoned.)
PostsFound ==
    <>[](\A m \in Ingestable : (m >= Since /\ plat[m] = "live") => stored[m] # "none")

\* So the archive comes to agree with the channel, as far as it looks back.
ArchiveCatchesUp == HistoryImported /\ DeletionsFound /\ PostsFound

(* What the documentation promises and the code does not keep *)

\* "Absence from a re-read of live history is the only evidence a message was
\* deleted": a message that was not deleted is never withdrawn for good.
OnlyDeletedTombstoned ==
    \A m \in Msg : stored[m] = "dead" => plat[m] = "deleted"
=============================================================================
