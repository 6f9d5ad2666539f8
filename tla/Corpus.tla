------------------------------- MODULE Corpus -------------------------------
(***************************************************************************)
(* The corpus of one channel as the ingest process keeps it in Postgres:   *)
(* the message rows, the deletion ledger (message_tombstone), the live     *)
(* conversation windows that retrieval reads, and the row of               *)
(* ingest_cursor that schedules window rebuilds.                           *)
(*                                                                         *)
(* Several coroutines write it, each in transactions of its own under READ *)
(* COMMITTED: the live queue's consumer (capture), the gateway's edit and  *)
(* delete handlers, reconciliation, backfill, and the window loop.  A step *)
(* of this module is one statement, or a run of statements that no other   *)
(* transaction can tell apart; the effects of a transaction appear when it *)
(* commits.                                                                *)
(*                                                                         *)
(* Abstractions.  A message is a number, its platform id; ids are          *)
(* snowflakes, so they follow the order of creation.  Its text is its      *)
(* revision.  A window is the function from the messages it holds to the   *)
(* revision quoted; a withdrawn window is not kept, since no statement     *)
(* that matters here reads one.  Threads, embeddings and the token bound   *)
(* (a second bound of the same kind as MaxMessages) are left out.  What a  *)
(* page of history holds and how deletions are inferred from it is the     *)
(* subject of module History; here one message is read at a time.          *)
(***************************************************************************)
EXTENDS Integers, FiniteSets

CONSTANTS
    NumMsgs,      \* messages ever posted in the channel
    CreatedAt,    \* their creation times
    MaxRev,       \* edits of one message
    Editable,     \* messages their authors may edit
    Deletable,    \* messages their authors may delete
    Gap,          \* a longer silence starts a new window
    MaxMessages,  \* messages in one window
    Lookback,     \* REWINDOW_LOOKBACK
    RewindowLimit, \* messages a rebuild reads
    NetLimit,     \* WINDOW_BATCH, the messages the safety net reads
    Deliveries,   \* delete events fired for one deletion (cached and raw)
    Backfill,     \* whether history is being imported
    MaxFaults     \* crashes and failed transactions

Msg == 1..NumMsgs

ASSUME CorpusAssumption ==
    /\ NumMsgs \in Nat \ {0}
    /\ CreatedAt \in [Msg -> Nat \ {0}]
    /\ \A m, n \in Msg : m < n => CreatedAt[m] <= CreatedAt[n]
    /\ MaxRev \in Nat
    /\ Editable \subseteq Msg /\ Deletable \subseteq Msg
    /\ Gap \in Nat
    /\ MaxMessages \in Nat \ {0}
    /\ Lookback \in Nat
    /\ RewindowLimit \in Nat \ {0} /\ NetLimit \in Nat \ {0}
    /\ Deliveries \in Nat \ {0}
    /\ Backfill \in BOOLEAN
    /\ MaxFaults \in Nat

Absent == -1                     \* "not in this window"
NotDirty == 0                    \* windows_dirty_from IS NULL
Rev == 0..MaxRev
Text == [Msg -> Rev \cup {Absent}]
Via == {"capture", "edit", "backfill"}
Object == [msg : Msg, rev : Rev, via : Via]
Mark == [msg : Msg, via : Via]
PlatMessage == [st : {"unsent", "live", "deleted"}, rev : Rev]
Row == [st : {"none", "live", "dead"}, rev : Rev]
Writer == [open : BOOLEAN, rev : Rev, via : Via, dead : BOOLEAN]
Deleter == [open : BOOLEAN, targets : SUBSET Text]
Loop == [pc : {"idle", "read", "net", "delete", "commit", "clear"},
         since : Int, net : BOOLEAN, read : Text, gone : SUBSET Text]

VARIABLES
    plat,      \* the platform: state and revision of each message
    inflight,  \* message objects a coroutine or the live queue holds
    delq,      \* delete events not yet handled
    rows,      \* table message
    ledger,    \* table message_tombstone
    windows,   \* live rows of conversation_window, with their text
    dirty,     \* ingest_cursor.windows_dirty_from
    seq,       \* windows_dirty_seq has moved since the window loop read it
    writer,    \* the open upsert transaction of a message
    marks,     \* committed writes whose mark_windows_dirty is still to run
    deleter,   \* the open tombstone transaction of a message
    loop,      \* the window loop
    faults     \* faults so far

vars == <<plat, inflight, delq, rows, ledger, windows, dirty, seq,
          writer, marks, deleter, loop, faults>>

NoWriter == [open |-> FALSE, rev |-> 0, via |-> "edit", dead |-> FALSE]
NoDeleter == [open |-> FALSE, targets |-> {}]
IdleLoop == [pc |-> "idle", since |-> 0, net |-> FALSE,
             read |-> [m \in Msg |-> Absent], gone |-> {}]

Init ==
    /\ plat = [m \in Msg |-> [st |-> "unsent", rev |-> 0]]
    /\ inflight = {}
    /\ delq = [m \in Msg |-> 0]
    /\ rows = [m \in Msg |-> [st |-> "none", rev |-> 0]]
    /\ ledger = {}
    /\ windows = {}
    /\ dirty = NotDirty
    /\ seq = FALSE
    /\ writer = [m \in Msg |-> NoWriter]
    /\ marks = {}
    /\ deleter = [m \in Msg |-> NoDeleter]
    /\ loop = IdleLoop
    /\ faults = 0

-----------------------------------------------------------------------------
(* Helpers *)

Members(w) == {m \in Msg : w[m] # Absent}

Quote(text, S) == [m \in Msg |-> IF m \in S THEN text[m] ELSE Absent]

\* A mutant: the latest mark wins.
EarliestLatest(at) == at

\* LEAST(COALESCE(windows_dirty_from, at), at)
Earliest(at) == IF dirty # NotDirty /\ dirty < at THEN dirty ELSE at

\* WindowBuilder: the members of S that open a window because of a silence.
Breaks(S) ==
    {m \in S : \A p \in S : p < m =>
        \/ CreatedAt[m] - CreatedAt[p] > Gap
        \/ \E q \in S : p < q /\ q < m}

SameRun(S, m, n) == \A b \in Breaks(S) : b <= m <=> b <= n

\* How many messages of m's run precede it.
Rank(S, m) == Cardinality({n \in S : n < m /\ SameRun(S, m, n)})

Together(S, m, n) ==
    SameRun(S, m, n) /\ Rank(S, m) \div MaxMessages = Rank(S, n) \div MaxMessages

BuildWindows(text) ==
    LET S == Members(text)
    IN  {Quote(text, {n \in S : Together(S, m, n)}) : m \in S}

\* A mutant: nothing orders an upsert and a tombstone of one message.
LockFreeAlways(m) == TRUE

\* pg_advisory_xact_lock(id), taken by an upsert and by a tombstone alike.
LockFree(m) == ~writer[m].open /\ ~deleter[m].open

\* Rows of conversation_window that an uncommitted tombstone has updated.
LockedByDeleters == UNION {deleter[m].targets : m \in Msg}

-----------------------------------------------------------------------------
(* The platform, and the events it fires *)

Posted(m) == plat[m].st # "unsent"

\* on_message: converted, in scope, and published to the live queue.
Post(m) ==
    /\ ~Posted(m)
    /\ \A n \in Msg : n < m => Posted(n)
    /\ plat' = [plat EXCEPT ![m].st = "live"]
    /\ inflight' = inflight \cup {[msg |-> m, rev |-> 0, via |-> "capture"]}
    /\ UNCHANGED <<delq, rows, ledger, windows, dirty, seq, writer, marks,
                   deleter, loop, faults>>

\* on_message_edit: handled directly, not through the queue.
Edit(m) ==
    /\ m \in Editable
    /\ plat[m].st = "live" /\ plat[m].rev < MaxRev
    /\ plat' = [plat EXCEPT ![m].rev = @ + 1]
    /\ inflight' = inflight \cup
          {[msg |-> m, rev |-> plat[m].rev + 1, via |-> "edit"]}
    /\ UNCHANGED <<delq, rows, ledger, windows, dirty, seq, writer, marks,
                   deleter, loop, faults>>

\* The cached and the raw event both reach handle_delete.
Delete(m) ==
    /\ m \in Deletable
    /\ plat[m].st = "live"
    /\ plat' = [plat EXCEPT ![m].st = "deleted"]
    /\ delq' = [delq EXCEPT ![m] = Deliveries]
    /\ UNCHANGED <<inflight, rows, ledger, windows, dirty, seq, writer, marks,
                   deleter, loop, faults>>

-----------------------------------------------------------------------------
(* Reconciliation and backfill, as far as one message is concerned *)

InHand(m) == writer[m].open \/ \E o \in inflight : o.msg = m

\* Reconciler.reconcile: what is stored differs from what history shows.
ReconcileEdit(m) ==
    /\ plat[m].st = "live"
    /\ ~InHand(m)
    /\ ~(rows[m].st = "live" /\ rows[m].rev = plat[m].rev)
    /\ inflight' = inflight \cup
          {[msg |-> m, rev |-> plat[m].rev, via |-> "edit"]}
    /\ UNCHANGED <<plat, delq, rows, ledger, windows, dirty, seq, writer,
                   marks, deleter, loop, faults>>

\* ... and what is stored live is missing from history.
ReconcileDelete(m) ==
    /\ plat[m].st = "deleted" /\ rows[m].st = "live"
    /\ delq[m] = 0
    /\ delq' = [delq EXCEPT ![m] = 1]
    /\ UNCHANGED <<plat, inflight, rows, ledger, windows, dirty, seq, writer,
                   marks, deleter, loop, faults>>

\* backfill_page reads history that is not, or no longer, stored as it is.
BackfillRead(m) ==
    /\ Backfill
    /\ plat[m].st = "live"
    /\ ~InHand(m)
    /\ ~(rows[m].st = "live" /\ rows[m].rev = plat[m].rev)
    /\ inflight' = inflight \cup
          {[msg |-> m, rev |-> plat[m].rev, via |-> "backfill"]}
    /\ UNCHANGED <<plat, delq, rows, ledger, windows, dirty, seq, writer,
                   marks, deleter, loop, faults>>

-----------------------------------------------------------------------------
(* Writers: capture, handle_edit and backfill_page *)

\* The live queue has one consumer: it takes messages in order and marks one
\* before it takes the next.
ConsumerReady(m) ==
    /\ \A o \in inflight : o.via = "capture" => o.msg >= m
    /\ \A n \in Msg : ~(writer[n].open /\ writer[n].via = "capture")
    /\ \A k \in marks : k.via # "capture"

\* upsert_messages up to its UPSERT: the lock is held, the ledger is read.
UpsertBegin(m) ==
    \E o \in inflight :
        /\ o.msg = m
        /\ o.via = "capture" => ConsumerReady(m)
        /\ LockFree(m)
        /\ inflight' = inflight \ {o}
        /\ writer' = [writer EXCEPT ![m] =
              [open |-> TRUE, rev |-> o.rev, via |-> o.via,
               dead |-> m \in ledger]]
        /\ UNCHANGED <<plat, delq, rows, ledger, windows, dirty, seq, marks,
                       deleter, loop, faults>>

\* Mutants: the conflict clause clears deleted_at; the insert does not read the
\* ledger; the stored revision counts upserts.
UpsertedRevived(m) ==
    IF rows[m].st # "none" THEN [st |-> "live", rev |-> writer[m].rev]
    ELSE [st |-> IF writer[m].dead THEN "dead" ELSE "live", rev |-> writer[m].rev]
UpsertedBornLive(m) ==
    IF rows[m].st # "none" THEN [rows[m] EXCEPT !.rev = writer[m].rev]
    ELSE [st |-> "live", rev |-> writer[m].rev]
UpsertedCounted(m) ==
    IF rows[m].st # "none" THEN [rows[m] EXCEPT !.rev = @ + 1]
    ELSE [st |-> IF writer[m].dead THEN "dead" ELSE "live", rev |-> writer[m].rev]

\* A new row is born dead when the ledger said so; an existing row takes the
\* revision and keeps its deleted_at.
Upserted(m) ==
    IF rows[m].st # "none" THEN [rows[m] EXCEPT !.rev = writer[m].rev]
    ELSE [st |-> IF writer[m].dead THEN "dead" ELSE "live", rev |-> writer[m].rev]

UpsertCommit(m) ==
    /\ writer[m].open
    /\ rows' = [rows EXCEPT ![m] = Upserted(m)]
    /\ marks' = IF writer[m].via = "backfill" THEN marks
                ELSE marks \cup {[msg |-> m, via |-> writer[m].via]}
    /\ writer' = [writer EXCEPT ![m] = NoWriter]
    /\ UNCHANGED <<plat, inflight, delq, ledger, windows, dirty, seq, deleter,
                   loop, faults>>

\* mark_windows_dirty, a transaction of its own.
MarkDirty(m) ==
    \E k \in marks :
        /\ k.msg = m
        /\ marks' = marks \ {k}
        /\ dirty' = Earliest(CreatedAt[m])
        /\ seq' = (loop.pc # "idle")
        /\ UNCHANGED <<plat, inflight, delq, rows, ledger, windows, writer,
                       deleter, loop, faults>>

-----------------------------------------------------------------------------
(* handle_delete -> tombstone_message *)

\* Under the lock: the ledger and the row are written, and the windows that
\* hold the message are looked up.  Nothing is visible yet.
DeleteBegin(m) ==
    /\ delq[m] > 0
    /\ LockFree(m)
    /\ delq' = [delq EXCEPT ![m] = @ - 1]
    /\ deleter' = [deleter EXCEPT ![m] =
          [open |-> TRUE, targets |-> {w \in windows : m \in Members(w)}]]
    /\ UNCHANGED <<plat, inflight, rows, ledger, windows, dirty, seq, writer,
                   marks, loop, faults>>

\* A target the window loop has deleted and not committed is waited for.
\* MARK_DIRTY_FOR_MESSAGE moves the watermark and leaves windows_dirty_seq.
DeleteCommit(m) ==
    /\ deleter[m].open
    /\ deleter[m].targets \cap loop.gone = {}
    /\ ledger' = ledger \cup {m}
    /\ rows' = IF rows[m].st = "live"
               THEN [rows EXCEPT ![m].st = "dead"] ELSE rows
    /\ windows' = windows \ deleter[m].targets
    /\ dirty' = IF rows[m].st = "none" THEN dirty ELSE Earliest(CreatedAt[m])
    /\ deleter' = [deleter EXCEPT ![m] = NoDeleter]
    /\ UNCHANGED <<plat, inflight, delq, seq, writer, marks, loop, faults>>

-----------------------------------------------------------------------------
(* The window loop: rebuild_pending_windows *)

LiveText(S) ==
    [m \in Msg |-> IF m \in S /\ rows[m].st = "live" THEN rows[m].rev ELSE Absent]

\* dirty_channels: the watermark and its generation are read together.
LoopWake ==
    /\ loop.pc = "idle"
    /\ loop' = IF dirty = NotDirty
               THEN [loop EXCEPT !.pc = "net"]
               ELSE [loop EXCEPT !.pc = "read", !.since = dirty - Lookback]
    /\ seq' = FALSE
    /\ UNCHANGED <<plat, inflight, delq, rows, ledger, windows, dirty,
                   writer, marks, deleter, faults>>

\* ORDER BY created_at, id LIMIT n
FirstOf(S, n) == {m \in S : Cardinality({k \in S : k < m}) < n}

\* MESSAGES_FOR_REWINDOW.
RewindowRead ==
    /\ loop.pc = "read"
    /\ LET due == {m \in Msg : rows[m].st = "live" /\ CreatedAt[m] >= loop.since}
       IN  loop' = [loop EXCEPT !.pc = "delete",
                               !.read = LiveText(FirstOf(due, RewindowLimit))]
    /\ UNCHANGED <<plat, inflight, delq, rows, ledger, windows, dirty, seq,
                   writer, marks, deleter, faults>>

\* messages_without_window, when the pass rebuilt nothing.
Orphans ==
    {m \in Msg : rows[m].st = "live" /\ \A w \in windows : m \notin Members(w)}

NetRead ==
    /\ loop.pc = "net"
    /\ loop' = IF Orphans = {} THEN IdleLoop
               ELSE [loop EXCEPT !.pc = "delete", !.net = TRUE,
                                 !.read = LiveText(FirstOf(Orphans, NetLimit))]
    /\ UNCHANGED <<plat, inflight, delq, rows, ledger, windows, dirty, seq,
                   writer, marks, deleter, faults>>

\* A mutant: windows that start, rather than end, at or after since.
ReplacedFromStart(w) ==
    IF loop.net THEN Members(w) \cap Members(loop.read) # {}
    ELSE \A m \in Members(w) : CreatedAt[m] >= loop.since

\* DELETE_WINDOWS_FROM takes the windows that end at or after since, which is
\* to say that some message of theirs is that recent;
\* DELETE_WINDOWS_FOR_MESSAGES those that hold a message being re-formed.
Replaced(w) ==
    IF loop.net THEN Members(w) \cap Members(loop.read) # {}
    ELSE \E m \in Members(w) : CreatedAt[m] >= loop.since

\* The statement waits for a tombstone that has updated one of its rows.
WindowsDelete ==
    /\ loop.pc = "delete"
    /\ LET gone == {w \in windows : Replaced(w)}
       IN  /\ gone \cap LockedByDeleters = {}
           /\ loop' = [loop EXCEPT !.pc = "commit", !.gone = gone]
    /\ UNCHANGED <<plat, inflight, delq, rows, ledger, windows, dirty, seq,
                   writer, marks, deleter, faults>>

\* TOMBSTONE_WINDOWS_WITH_DEAD_MESSAGES sees what has committed by now.
HasDead(w) == \E m \in Members(w) : rows[m].st = "dead"

\* A mutant: no closing tombstone statement.
PublishedUnchecked(text) == BuildWindows(text)

\* The windows a rebuild leaves live.
Published(text) == {w \in BuildWindows(text) : ~HasDead(w)}

\* INSERT_WINDOW for each window, the closing tombstone statement, and the
\* commit: a tombstone that begins and commits between the last two leaves what
\* it leaves when it begins before and commits after them.  A tombstone that
\* was waiting for a deleted window finds the row gone, and its statement
\* cannot see the rows inserted instead.
WindowsCommit ==
    /\ loop.pc = "commit"
    /\ LET killed == {w \in windows \ loop.gone : HasDead(w)}
       IN  /\ killed \cap LockedByDeleters = {}
           /\ windows' = (windows \ (loop.gone \cup killed)) \cup Published(loop.read)
    /\ deleter' = [m \in Msg |->
          [deleter[m] EXCEPT !.targets = @ \ loop.gone]]
    /\ loop' = IF loop.net THEN IdleLoop
               ELSE [IdleLoop EXCEPT !.pc = "clear", !.net = Members(loop.read) = {}]
    /\ UNCHANGED <<plat, inflight, delq, rows, ledger, dirty, seq, writer,
                   marks, faults>>

\* A mutant: the clear is unconditional.
ClearDirtyAlways ==
    /\ loop.pc = "clear"
    /\ dirty' = NotDirty
    /\ loop' = IF loop.net THEN [IdleLoop EXCEPT !.pc = "net"] ELSE IdleLoop
    /\ seq' = FALSE
    /\ UNCHANGED <<plat, inflight, delq, rows, ledger, windows, writer,
                   marks, deleter, faults>>

\* clear_windows_dirty: only if the generation is still the one read.
ClearDirty ==
    /\ loop.pc = "clear"
    /\ dirty' = IF seq THEN dirty ELSE NotDirty
    /\ loop' = IF loop.net THEN [IdleLoop EXCEPT !.pc = "net"] ELSE IdleLoop
    /\ seq' = FALSE
    /\ UNCHANGED <<plat, inflight, delq, rows, ledger, windows, writer,
                   marks, deleter, faults>>

-----------------------------------------------------------------------------
(* Faults *)

\* A transaction fails; its coroutine logs the error and drops the work.
WriteFails(m) ==
    /\ faults < MaxFaults
    /\ \/ /\ writer[m].open
          /\ writer' = [writer EXCEPT ![m] = NoWriter]
          /\ UNCHANGED marks
       \/ \E k \in marks : k.msg = m /\ marks' = marks \ {k} /\ UNCHANGED writer
    /\ faults' = faults + 1
    /\ UNCHANGED <<plat, inflight, delq, rows, ledger, windows, dirty, seq,
                   deleter, loop>>

DeleteFails(m) ==
    /\ faults < MaxFaults
    /\ deleter[m].open
    /\ deleter' = [deleter EXCEPT ![m] = NoDeleter]
    /\ faults' = faults + 1
    /\ UNCHANGED <<plat, inflight, delq, rows, ledger, windows, dirty, seq,
                   writer, marks, loop>>

\* window_loop catches whatever a pass raises and starts another.
RebuildFails ==
    /\ faults < MaxFaults
    /\ loop.pc # "idle"
    /\ loop' = IdleLoop
    /\ faults' = faults + 1
    /\ UNCHANGED <<plat, inflight, delq, rows, ledger, windows, dirty, seq,
                   writer, marks, deleter>>

\* The ingest process restarts: open transactions roll back, and the queue,
\* the handlers and the loop are gone with their memory.
Crash ==
    /\ faults < MaxFaults
    /\ inflight' = {}
    /\ delq' = [m \in Msg |-> 0]
    /\ writer' = [m \in Msg |-> NoWriter]
    /\ marks' = {}
    /\ deleter' = [m \in Msg |-> NoDeleter]
    /\ loop' = IdleLoop
    /\ faults' = faults + 1
    /\ UNCHANGED <<plat, rows, ledger, windows, dirty, seq>>

-----------------------------------------------------------------------------

People == \E m \in Msg : Post(m) \/ Edit(m) \/ Delete(m)
History == \E m \in Msg : ReconcileEdit(m) \/ ReconcileDelete(m) \/ BackfillRead(m)
Writers(m) == UpsertBegin(m) \/ UpsertCommit(m) \/ MarkDirty(m)
Deleters(m) == DeleteBegin(m) \/ DeleteCommit(m)
WindowLoop ==
    \/ LoopWake \/ RewindowRead \/ NetRead \/ WindowsDelete
    \/ WindowsCommit \/ ClearDirty
Faults == Crash \/ RebuildFails \/ \E m \in Msg : WriteFails(m) \/ DeleteFails(m)

Next ==
    \/ People
    \/ History
    \/ \E m \in Msg : Writers(m) \/ Deleters(m)
    \/ WindowLoop
    \/ Faults

Spec == Init /\ [][Next]_vars

\* Every coroutine of the ingest process keeps running; people need not post,
\* edit or delete, and reconciliation and backfill need not find anything.
Fairness ==
    /\ WF_vars(WindowLoop)
    /\ \A m \in Msg : WF_vars(Writers(m)) /\ WF_vars(Deleters(m))

FairSpec == Spec /\ Fairness

-----------------------------------------------------------------------------
(* Type invariant *)

TypeOK ==
    /\ plat \in [Msg -> PlatMessage]
    /\ inflight \subseteq Object
    /\ delq \in [Msg -> 0..Deliveries]
    /\ rows \in [Msg -> Row]
    /\ ledger \subseteq Msg
    /\ windows \subseteq Text
    /\ dirty \in Nat
    /\ seq \in BOOLEAN
    /\ writer \in [Msg -> Writer]
    /\ marks \subseteq Mark
    /\ deleter \in [Msg -> Deleter]
    /\ loop \in Loop
    /\ faults \in 0..MaxFaults

(* Safety *)

\* A message whose deletion was recorded is never a live row, whichever of
\* the capture and the deletion reached the database first and however they
\* overlapped (the ledger fixes arrival order, the lock fixes overlap).
NoResurrection == \A m \in ledger : rows[m].st # "live"

\* A withdrawn row is never live again and a recorded deletion never
\* forgotten: "a re-ingest of a live message must not resurrect a tombstone".
TombstonesStick ==
    [][/\ ledger \subseteq ledger'
       /\ \A m \in Msg : rows[m].st = "dead" => rows'[m].st = "dead"]_<<rows, ledger>>

\* No message is quoted by two live windows: a rebuild deletes every window it
\* re-forms any part of, in either of its two ways.
OneLiveWindow ==
    \A v, w \in windows : v # w => Members(v) \cap Members(w) = {}

\* A rebuild publishes no window quoting a message whose deletion committed
\* before the rebuild's closing statement ran.
NoDeadPublished == [][\A w \in windows' \ windows : ~HasDead(w)]_windows

\* A window that quotes superseded text is due for a rebuild that reaches it:
\* the watermark covers the message, or the write that changed it has its
\* mark still to run.  (Holds without faults and without backfill: a fault
\* between a write and its mark, and a backfill of a newer revision, each leave
\* a stale window that nothing is due to rebuild.)
Stale(text, stored, m) ==
    text[m] \notin {Absent, stored[m].rev} /\ stored[m].st = "live"
Covered(from, m) == from # NotDirty /\ from <= CreatedAt[m]
Marked(pending, m) == \E k \in pending : k.msg = m

FreshOrDue ==
    \A w \in windows, m \in Msg : Stale(w, rows, m) => Covered(dirty, m) \/ Marked(marks, m)

(* Strengthenings, from which the proofs in CorpusProofs argue *)

\* One transaction at a time holds a message's lock, so what an upsert read of
\* the ledger is still true when it commits.
LockInv ==
    \A m \in Msg :
        /\ ~(writer[m].open /\ deleter[m].open)
        /\ writer[m].open => (writer[m].dead <=> m \in ledger)

\* A rebuild has read nothing older than the point it rebuilds from, and it
\* leaves no window that reaches into what it replaces.
LoopInv ==
    /\ (loop.pc \in {"delete", "commit"} /\ ~loop.net) =>
          \A m \in Members(loop.read) : CreatedAt[m] >= loop.since
    /\ loop.pc = "commit" => \A w \in windows \ loop.gone : ~Replaced(w)

\* Without backfill every write is followed by a mark.
AllMarked ==
    /\ \A o \in inflight : o.via # "backfill"
    /\ \A m \in Msg : writer[m].via # "backfill"

\* Superseded text in what a rebuild has read is due for another; and while
\* windows_dirty_seq has not moved, the rebuild itself takes away every
\* superseded text but the one whose mark is still to come.
RebuildInv ==
    /\ loop.pc \in {"delete", "commit"} =>
          \A m \in Msg : Stale(loop.read, rows, m) => Covered(dirty, m) \/ Marked(marks, m)
    /\ (loop.pc \in {"read", "delete", "commit"} /\ ~loop.net /\ ~seq) =>
          \A w \in windows, m \in Msg :
              Stale(w, rows, m) => Marked(marks, m) \/ CreatedAt[m] >= loop.since
    /\ (loop.pc \in {"delete", "commit"} /\ ~loop.net /\ ~seq) =>
          \A m \in Msg : Stale(loop.read, rows, m) => Marked(marks, m)
    /\ (loop.pc = "clear" /\ ~seq) =>
          \A w \in windows, m \in Msg : Stale(w, rows, m) => Marked(marks, m)

\* What FreshOrDue, NoResurrection and OneLiveWindow need to be inductive:
\* the lock makes the ledger read current, a rebuild replaces all it re-reads,
\* and it clears the watermark only over text it has brought up to date.
CorpusInv == LockInv /\ LoopInv /\ AllMarked /\ RebuildInv

(* Liveness *)

Current(m) == \E w \in windows : w[m] = rows[m].rev

\* Once people fall silent, every stored message ends up in a live window with
\* its stored text and stays there.
EventuallyCurrent ==
    <>[](\A m \in Msg : rows[m].st = "live" => Current(m))

(* What the documentation promises and the code does not keep *)

\* "Such a window can never be observed live": no live window quotes a message
\* whose deletion has committed.
DeletedNeverRetrievable ==
    \A w \in windows : \A m \in Members(w) : rows[m].st # "dead"

\* "Otherwise a change racing the rebuild is cleared without ever being
\* applied": once people fall silent, no live window quotes a deleted message.
DeletedEventuallyGone == <>[]DeletedNeverRetrievable

=============================================================================
