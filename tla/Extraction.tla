----------------------------- MODULE Extraction -----------------------------
(***************************************************************************)
(* Reading asks and decisions out of one channel.  CaptureText offers each     *)
(* live message to a bounded queue, from which the live pass takes its     *)
(* batches; the backlog pass reads back out of the corpus what is not      *)
(* recorded as read at its current revision.  Both extract a batch the     *)
(* same way, side by side, while messages are edited and deleted.          *)
(*                                                                         *)
(* Abstractions.  What a text holds is one word: an ask, a decision, or    *)
(* chatter, which the candidate filter leaves out; the model reads it      *)
(* right, and the same each time.  A message's rows are the revision they  *)
(* were read from.  Counters for the health endpoint are left out.         *)
(***************************************************************************)
EXTENDS Integers, Sequences, FiniteSets, FiniteSetsExt

CONSTANTS
    NumPosts,         \* messages 1 .. NumPosts of the channel, in order
    MaxRevision,      \* edits of a message
    MaxQueued,        \* max_queued
    PerPass,          \* BACKLOG_MESSAGES_PER_PASS
    BatchMessages,    \* the backlog's batch_messages
    MaxDeleted,       \* deletions
    MaxResets,        \* runs of the decision backfill
    MaxMishaps        \* failures and restarts

Posts == 1..NumPosts

ASSUME ExtractionAssumption ==
    /\ {NumPosts, MaxRevision, MaxDeleted, MaxResets, MaxMishaps} \subseteq Nat
    /\ {MaxQueued, PerPass, BatchMessages} \subseteq Nat \ {0}

VARIABLES
    texts,       \* what each message has said, a revision each
    alive,       \* messages stored and not deleted
    oldEnough,   \* messages more than five minutes old
    extractedAt, \* asks_extracted_seq
    asksFrom,    \* the revision a message's asks were read from
    decision,    \* the revision its decision was read from, and its evidence
    queued,      \* the live queue, of messages as they were captured
    buffered,    \* the channel's buffer
    batch,       \* what each worker is extracting
    pass,        \* what the backlog pass has read and not taken up
    withdrawing, \* deletions that have not reached the decisions yet
    deletions, resets, mishaps,
    astray       \* messages whose record may be of another text (auxiliary)

channelVars == <<texts, alive, oldEnough>>
readVars == <<extractedAt, asksFrom, decision>>
liveVars == <<queued, buffered>>
extractionVars == <<channelVars, readVars, liveVars, batch, pass, withdrawing,
                    deletions, resets, mishaps, astray>>

Never == -1
Contents == {"ask", "decision", "chatter"}
NoDecision == [rev |-> Never, rests |-> {}]
Passes == {"live", "backlog"}

RevisionOf(m) == Len(texts[m]) - 1
Says(m, rev) == texts[m][rev + 1]
Candidate(m, rev) == Says(m, rev) # "chatter"
ExtractionPending(m) == m \in alive /\ extractedAt[m] # RevisionOf(m)

(* A batch: the revision of each message in it, those not extracted yet,    *)
(* the one whose decisions come next, what each is shown with, and those    *)
(* the model could not read.                                                *)
NoRevisions == [m \in Posts |-> Never]
NoBatch == [at |-> "idle", whole |-> {}, rev |-> NoRevisions, left |-> {}, now |-> 0,
            shown |-> [m \in Posts |-> {}], failed |-> {}]
NoPass == [left |-> {}, rev |-> NoRevisions]

LiveSide == queued \cup buffered \cup batch["live"].whole
InHand(m) == m \in LiveSide \cup batch["backlog"].whole \cup pass.left

ExtractionInit ==
    /\ texts = [m \in Posts |-> <<>>] /\ alive = {} /\ oldEnough = {}
    /\ extractedAt = NoRevisions /\ asksFrom = NoRevisions
    /\ decision = [m \in Posts |-> NoDecision]
    /\ queued = {} /\ buffered = {} /\ batch = [w \in Passes |-> NoBatch] /\ pass = NoPass
    /\ withdrawing = {} /\ deletions = 0 /\ resets = 0 /\ mishaps = 0 /\ astray = {}

----------------------------------------------------------------------------
(* The channel *)

Arrives(m, says) ==
    /\ texts[m] = <<>>
    /\ texts' = [texts EXCEPT ![m] = <<says>>] /\ alive' = alive \cup {m}

(* live_loop: captured, then submitted; a full queue drops the submission.  *)
CaptureText(m, says) ==
    /\ Arrives(m, says)
    /\ queued' = IF Cardinality(queued) < MaxQueued THEN queued \cup {m} ELSE queued
    /\ UNCHANGED <<oldEnough, readVars, buffered, batch, pass, withdrawing,
                   deletions, resets, mishaps, astray>>

(* History, which is offered to no queue.                                   *)
Import(m, says) ==
    /\ Arrives(m, says) /\ oldEnough' = oldEnough \cup {m}
    /\ UNCHANGED <<readVars, liveVars, batch, pass, withdrawing,
                   deletions, resets, mishaps, astray>>

GrowsOld(m) ==
    /\ m \in alive \ oldEnough /\ oldEnough' = oldEnough \cup {m}
    /\ UNCHANGED <<texts, alive, readVars, liveVars, batch, pass, withdrawing,
                   deletions, resets, mishaps, astray>>

(* UPSERT_MESSAGE bumps asks_extraction_seq; nothing is submitted.          *)
EditPost(m, says) ==
    /\ m \in alive /\ RevisionOf(m) < MaxRevision /\ says # Says(m, RevisionOf(m))
    /\ texts' = [texts EXCEPT ![m] = Append(@, says)]
    /\ astray' = IF m \in LiveSide THEN astray \cup {m}
                 ELSE {k \in astray : k # m \/ InHand(k)}
    /\ UNCHANGED <<alive, oldEnough, readVars, liveVars, batch, pass, withdrawing,
                   deletions, resets, mishaps>>

(* handle_delete: the tombstone, and in another transaction the decisions.  *)
TombstonePost(m) ==
    /\ m \in alive /\ deletions < MaxDeleted /\ deletions' = deletions + 1
    /\ alive' = alive \ {m} /\ withdrawing' = withdrawing \cup {m}
    /\ UNCHANGED <<texts, oldEnough, readVars, liveVars, batch, pass, resets, mishaps, astray>>

WithdrawMessage(m) ==
    /\ m \in withdrawing /\ withdrawing' = withdrawing \ {m}
    /\ decision' = [d \in Posts |-> IF m \in decision[d].rests THEN NoDecision ELSE decision[d]]
    /\ UNCHANGED <<channelVars, extractedAt, asksFrom, liveVars, batch, pass,
                   deletions, resets, mishaps, astray>>

(* DecisionBackfill: what holds a decision and was read is pending again.   *)
ResetExtraction ==
    LET S == {m \in alive : Says(m, RevisionOf(m)) = "decision" /\ ~ExtractionPending(m)} IN
    /\ S # {} /\ resets < MaxResets /\ resets' = resets + 1
    /\ extractedAt' = [m \in Posts |-> IF m \in S THEN Never ELSE extractedAt[m]]
    /\ astray' = {m \in astray : m \notin S \/ InHand(m)}
    /\ UNCHANGED <<channelVars, asksFrom, decision, liveVars, batch, pass, withdrawing,
                   deletions, mishaps>>

----------------------------------------------------------------------------
(* Taking up work *)

Taken(whole, rev, shown) ==
    LET left == {m \in whole : Candidate(m, rev[m])} IN
    [NoBatch EXCEPT !.at = IF left = {} THEN "withdraw" ELSE "asks",
                    !.whole = whole, !.rev = rev, !.left = left, !.shown = shown]

(* ExtractionWorker.run_once drains the queue, and flushes the buffer when  *)
(* it is a window or has waited long enough.                                *)
RunLive(flush) ==
    LET waiting == buffered \cup queued IN
    /\ batch["live"].at = "idle" /\ waiting # {} /\ (flush \/ queued # {})
    /\ queued' = {} /\ buffered' = IF flush THEN {} ELSE waiting
    /\ IF flush
       THEN batch' = [batch EXCEPT !["live"] =
                        Taken(waiting, [m \in Posts |-> IF m \in waiting THEN 0 ELSE Never],
                              [m \in Posts |-> {c \in waiting : c <= m}])]
       ELSE UNCHANGED batch
    /\ UNCHANGED <<channelVars, readVars, pass, withdrawing, deletions, resets, mishaps, astray>>

(* MESSAGES_PENDING_EXTRACTION: the newest that are pending, except the     *)
(* young, which belong to the live pass.                                    *)
NewestOf(S, n) == {m \in S : Cardinality({k \in S : k > m}) < n}
OldestOf(S, n) == {m \in S : Cardinality({k \in S : k < m}) < n}

ReadPending ==
    LET S == NewestOf({m \in oldEnough : ExtractionPending(m)}, PerPass) IN
    /\ batch["backlog"].at = "idle" /\ pass = NoPass /\ S # {}
    /\ pass' = [left |-> S, rev |-> [m \in Posts |-> IF m \in S THEN RevisionOf(m) ELSE Never]]
    /\ UNCHANGED <<channelVars, readVars, liveVars, batch, withdrawing,
                   deletions, resets, mishaps, astray>>

PassWithout(S) ==
    IF pass.left \subseteq S THEN NoPass
    ELSE [left |-> pass.left \ S,
          rev |-> [m \in Posts |-> IF m \in S THEN Never ELSE pass.rev[m]]]

(* EXTRACTION_CONTEXT: each is shown with the live messages before it.      *)
TakeChunk ==
    LET S == OldestOf(pass.left, BatchMessages) IN
    /\ batch["backlog"].at = "idle" /\ pass.left # {}
    /\ pass' = PassWithout(S)
    /\ batch' = [batch EXCEPT !["backlog"] =
                    Taken(S, [m \in Posts |-> IF m \in S THEN pass.rev[m] ELSE Never],
                          [m \in Posts |-> {m} \cup {c \in alive : c < m}])]
    /\ UNCHANGED <<channelVars, readVars, liveVars, withdrawing,
                   deletions, resets, mishaps, astray>>

(* A conversation that cannot be read leaves its chunk to the next pass.    *)
ContextFails ==
    /\ batch["backlog"].at = "idle" /\ pass.left # {}
    /\ mishaps < MaxMishaps /\ mishaps' = mishaps + 1
    /\ pass' = PassWithout(OldestOf(pass.left, BatchMessages))
    /\ UNCHANGED <<channelVars, readVars, liveVars, batch, withdrawing, deletions, resets, astray>>

----------------------------------------------------------------------------
(* Extracting a batch, oldest first *)

After(b, m) ==
    [b EXCEPT !.left = @ \ {m}, !.now = 0,
              !.at = IF b.left = {m} THEN "withdraw" ELSE "asks"]

(* record_asks: what is found is written, what is not is pruned.            *)
RecordAsks(w) ==
    LET b == batch[w]
        m == Min(b.left)
    IN  /\ b.at = "asks"
        /\ asksFrom' = [asksFrom EXCEPT ![m] = IF Says(m, b.rev[m]) = "ask" THEN b.rev[m]
                                               ELSE Never]
        /\ batch' = [batch EXCEPT ![w].at = "decisions", ![w].now = m]
        /\ UNCHANGED <<channelVars, extractedAt, decision, liveVars, pass, withdrawing,
                       deletions, resets, mishaps, astray>>

(* record_decisions, even with none.                                        *)
RecordDecisions(w) ==
    LET b == batch[w]
        m == b.now
    IN  /\ b.at = "decisions"
        /\ decision' = [decision EXCEPT ![m] =
                          IF Says(m, b.rev[m]) = "decision"
                          THEN [rev |-> b.rev[m], rests |-> b.shown[m]] ELSE NoDecision]
        /\ batch' = [batch EXCEPT ![w] = After(b, m)]
        /\ UNCHANGED <<channelVars, extractedAt, asksFrom, liveVars, pass, withdrawing,
                       deletions, resets, mishaps, astray>>

Skipped(b) == {m \in b.whole : ~Candidate(m, b.rev[m])}

(* A mutant: a message that is no candidate is left alone.                  *)
WithdrawSkippedNever(w) ==
    /\ batch[w].at = "withdraw"
    /\ batch' = [batch EXCEPT ![w].at = "mark"]
    /\ UNCHANGED <<channelVars, readVars, liveVars, pass, withdrawing,
                   deletions, resets, mishaps, astray>>

(* _withdraw_decisions of what was not sent to the model.                   *)
WithdrawSkipped(w) ==
    LET S == Skipped(batch[w]) IN
    /\ batch[w].at = "withdraw"
    /\ decision' = [m \in Posts |-> IF m \in S THEN NoDecision ELSE decision[m]]
    /\ batch' = [batch EXCEPT ![w].at = "mark"]
    /\ UNCHANGED <<channelVars, extractedAt, asksFrom, liveVars, pass, withdrawing,
                   deletions, resets, mishaps, astray>>

(* A mutant: the backlog pass too records whatever revision is current.     *)
RecordedCurrent(w, m) == RevisionOf(m)

(* RECORD_EXTRACTION: the live pass has no revision to name.                *)
RecordedRevision(w, m) == IF w = "live" THEN RevisionOf(m) ELSE batch[w].rev[m]

MarkExtracted(w) ==
    LET b == batch[w]
    IN  /\ b.at = "mark"
        /\ extractedAt' = [m \in Posts |-> IF m \in b.whole THEN RecordedRevision(w, m)
                                           ELSE extractedAt[m]]
        /\ astray' = astray \cup {m \in b.failed : RecordedRevision(w, m) = RevisionOf(m)}
        /\ batch' = [batch EXCEPT ![w] = NoBatch]
        /\ UNCHANGED <<channelVars, asksFrom, decision, liveVars, pass, withdrawing,
                       deletions, resets, mishaps>>

(* What goes wrong.  The model fails on one message, or its decisions, or   *)
(* those of the skipped, cannot be written: counted, and the batch goes on. *)
Mishap(w) == mishaps < MaxMishaps /\ mishaps' = mishaps + 1 /\ batch[w].at # "idle"

StepFails(w) ==
    LET b == batch[w] IN
    /\ Mishap(w)
    /\ \/ /\ b.at = "asks"
          /\ LET m == Min(b.left)
             IN  batch' = [batch EXCEPT ![w] = After([b EXCEPT !.failed = b.failed \cup {m}], m)]
       \/ /\ b.at = "decisions"
          /\ batch' = [batch EXCEPT ![w] = After([b EXCEPT !.failed = b.failed \cup {b.now}], b.now)]
       \/ /\ b.at = "withdraw"
          /\ batch' = [batch EXCEPT ![w].failed = b.failed \cup Skipped(b), ![w].at = "mark"]
    /\ UNCHANGED <<channelVars, readVars, liveVars, pass, withdrawing, deletions, resets, astray>>

(* A mutant: a batch that failed is recorded all the same.                  *)
BatchFailsMarked(w) ==
    /\ Mishap(w) /\ batch[w].at \in {"asks", "mark"}
    /\ batch' = [batch EXCEPT ![w].at = "mark"]
    /\ UNCHANGED <<channelVars, readVars, liveVars, pass, withdrawing, deletions, resets, astray>>

(* The asks cannot be written, or the mark: nothing of the batch is         *)
(* recorded.  A live batch has left the buffer for good.                    *)
BatchFails(w) ==
    /\ Mishap(w) /\ batch[w].at \in {"asks", "mark"}
    /\ batch' = [batch EXCEPT ![w] = NoBatch]
    /\ UNCHANGED <<channelVars, readVars, liveVars, pass, withdrawing, deletions, resets, astray>>

IngestStops ==
    /\ mishaps < MaxMishaps /\ mishaps' = mishaps + 1
    /\ queued' = {} /\ buffered' = {} /\ batch' = [w \in Passes |-> NoBatch] /\ pass' = NoPass
    /\ withdrawing' = {}
    /\ UNCHANGED <<channelVars, readVars, deletions, resets, astray>>

ExtractStep(w) == RecordAsks(w) \/ RecordDecisions(w) \/ WithdrawSkipped(w) \/ MarkExtracted(w)

ExtractionNext ==
    \/ \E m \in Posts, says \in Contents : CaptureText(m, says) \/ Import(m, says) \/ EditPost(m, says)
    \/ \E m \in Posts : GrowsOld(m) \/ TombstonePost(m) \/ WithdrawMessage(m)
    \/ ResetExtraction
    \/ \E flush \in BOOLEAN : RunLive(flush)
    \/ ReadPending \/ TakeChunk \/ ContextFails
    \/ \E w \in Passes : ExtractStep(w) \/ StepFails(w) \/ BatchFails(w)
    \/ IngestStops

ExtractionFairness ==
    /\ \A m \in Posts : WF_extractionVars(GrowsOld(m))
    /\ WF_extractionVars(RunLive(TRUE))
    /\ WF_extractionVars(ReadPending) /\ WF_extractionVars(TakeChunk)
    /\ \A w \in Passes : WF_extractionVars(ExtractStep(w))

ExtractionSpec == ExtractionInit /\ [][ExtractionNext]_extractionVars /\ ExtractionFairness

----------------------------------------------------------------------------
(* Properties *)

DecisionOf(m) ==
    IF texts[m] # <<>> /\ Says(m, RevisionOf(m)) = "decision" THEN RevisionOf(m) ELSE Never
AsksOfText(m) == IF Says(m, RevisionOf(m)) = "ask" THEN RevisionOf(m) ELSE Never

(* The queue is bounded, a message is in the live pass once, and a batch    *)
(* holds copies of revisions that were (ExtractionWorker).                  *)
ExtractionTypeOK ==
    /\ texts \in [Posts -> UNION {[1..n -> Contents] : n \in 0 .. MaxRevision + 1}]
    /\ alive \subseteq {m \in Posts : texts[m] # <<>>}
    /\ Cardinality(queued) <= MaxQueued
    /\ queued \cap buffered = {} /\ (queued \cup buffered) \cap batch["live"].whole = {}
    /\ \A m \in Posts : {extractedAt[m], asksFrom[m], decision[m].rev} \subseteq
                            Never .. RevisionOf(m)
    /\ \A w \in Passes :
         /\ batch[w].at = "idle" <=> batch[w].whole = {}
         /\ batch[w].left \cup batch[w].failed \subseteq batch[w].whole
         /\ \A m \in batch[w].whole : batch[w].rev[m] \in 0 .. RevisionOf(m)

(* What is recorded as read has the decision of its text, and if it is a    *)
(* candidate its asks: a mark that an edit has overtaken leaves the message *)
(* pending (RECORD_EXTRACTION).  Excepted is what the live pass read, an    *)
(* edit having overtaken it, and what could not be read or written.         *)
MarkedIsRead ==
    \A m \in alive \ astray :
        ~ExtractionPending(m) /\ Candidate(m, RevisionOf(m)) => asksFrom[m] = AsksOfText(m)

(* Every message comes to have the decision of its text, none if it has     *)
(* none, and the asks if it is a candidate: captured or imported, dropped   *)
(* by a full queue or lost with the process, edited at any point of its     *)
(* extraction (BacklogExtractionWorker).                                    *)
CatchesUp ==
    \A m \in Posts :
        <>[](m \in alive \ astray /\ withdrawing = {})
          => <>[](/\ m \in alive
                  /\ \/ decision[m].rev = DecisionOf(m)
                     \/ deletions > 0 /\ decision[m].rev = Never
                  /\ Candidate(m, RevisionOf(m)) => asksFrom[m] = AsksOfText(m))
=============================================================================
