------------------------------ MODULE Documents -------------------------------
(***************************************************************************)
(* A document that messages share: fetched, parsed, cut into chunks and    *)
(* entered for each share, while its source changes, messages are deleted, *)
(* channels and people are purged and a reconciliation fetches it again.   *)
(* An ingestion is four transactions (upsert, chunks, entry, record), and  *)
(* what the chunks may be found by is a copy of the entries.               *)
(*                                                                         *)
(* Abstractions.  There is one document, by its URI; a file is the case    *)
(* whose source never changes.  Each message shares it in a channel of its *)
(* own, by a person of its own, so that a purge is one of any messages.    *)
(* Transactions read committed: what a statement does not see it does not  *)
(* undo.  Each call is somebody's hand; one that raises, is cancelled or   *)
(* stops with the process leaves what it has committed.                    *)
(***************************************************************************)
EXTENDS Naturals, FiniteSets

CONSTANTS
    Shares,      \* messages with the link
    Hands,       \* calls under way
    MaxSourceRevision,
    MaxAttempts        \* max_attempts

NoShare == "none"

ASSUME DocumentsAssumption ==
    /\ {MaxSourceRevision, MaxAttempts} \subseteq Nat \ {0}
    /\ NoShare \notin Shares /\ IsFiniteSet(Hands)

VARIABLES
    source,    \* the revision at the source
    document,  \* the row of document
    chunks,    \* its rows of document_chunk: of which revision, in which channels
    entry,     \* its rows of document_entry
    failed,    \* fetch_attempts of the URI
    hand,      \* what each call is doing
    removed,   \* deleted messages whose shares were withdrawn
    overtaken, \* of them, those entered after that (auxiliary)
    torn,      \* an ingestion ended or was crossed between upsert and chunks (auxiliary)
    narrowed   \* a refresh wrote what another transaction had made untrue (auxiliary)

doubtVars == <<overtaken, torn, narrowed>>
documentVars == <<source, document, chunks, entry, failed, hand, removed, doubtVars>>

NoDocument == [rev |-> 0, deleted |-> FALSE]
NoChunks == [of |-> 0, channels |-> {}, deleted |-> FALSE]
Idle == [at |-> "idle", share |-> NoShare, rev |-> 0, parsed |-> FALSE,
         held |-> FALSE, seen |-> FALSE, snap |-> {}, from |-> {}, doomed |-> FALSE]

DocumentsInit ==
    /\ source = 1 /\ document = NoDocument /\ chunks = NoChunks
    /\ entry = [s \in Shares |-> "none"] /\ failed = 0
    /\ hand = [h \in Hands |-> Idle]
    /\ removed = {} /\ overtaken = {} /\ torn = FALSE /\ narrowed = FALSE

Stored == document # NoDocument
LiveOf(rows) == {s \in Shares : rows[s] = "live"}

----------------------------------------------------------------------------
(* What transactions meet *)

(* hand' when h goes on as `to`, having replaced the chunks or deleted the  *)
(* document: statements that were under way do not see the new rows, and    *)
(* nobody holds the document's id any more.                                 *)
OthersSee(h, to) == [x \in Hands |-> IF x = h THEN to ELSE [hand[x] EXCEPT !.seen = FALSE]]
OthersHold(h, to) ==
    [x \in Hands |-> IF x = h THEN to ELSE [hand[x] EXCEPT !.held = FALSE, !.seen = FALSE]]

(* REFRESH_CHUNK_CHANNELS begins: it computes from what is committed and    *)
(* from its own entries, waits for the chunks' rows, and writes.            *)
Refreshing(h, at, rows) ==
    [hand EXCEPT ![h].at = at, ![h].snap = LiveOf(rows), ![h].seen = (chunks # NoChunks)]

(* A mutant: the entry is written and the channels are left for later.      *)
RefreshedLater(h) == chunks

Refreshed(h) ==
    IF hand[h].seen THEN [chunks EXCEPT !.channels = hand[h].snap] ELSE chunks

(* Whether what it computed is not what its commit finds.                   *)
Stale(h) == IF hand[h].seen THEN hand[h].snap # LiveOf(entry') ELSE chunks' # NoChunks

Between == {"replace", "replacing"}

----------------------------------------------------------------------------
(* capture_links and reconcile_external: to the upsert, the same *)

CaptureShare(h, s) ==
    /\ hand[h] = Idle /\ s \notin removed /\ failed < MaxAttempts
    /\ hand' = [hand EXCEPT ![h] = [Idle EXCEPT !.at = "fetch", !.share = s]]
    /\ UNCHANGED <<source, document, chunks, entry, failed, removed, doubtVars>>

Reconcile(h) ==
    /\ hand[h] = Idle /\ Stored /\ ~document.deleted
    /\ hand' = [hand EXCEPT ![h] = [Idle EXCEPT !.at = "fetch", !.held = TRUE]]
    /\ UNCHANGED <<source, document, chunks, entry, failed, removed, doubtVars>>

FetchDocument(h) ==
    /\ hand[h].at = "fetch"
    /\ hand' = [hand EXCEPT ![h].at = "compare", ![h].rev = source]
    /\ UNCHANGED <<source, document, chunks, entry, failed, removed, doubtVars>>

(* The source is down, has no such document or does not share it: a capture *)
(* counts the attempt, a reconciliation withdraws the document.             *)
Unretrievable(h) ==
    /\ hand[h].at = "fetch"
    /\ IF hand[h].share = NoShare
       THEN hand' = [hand EXCEPT ![h].at = "tombstone"] /\ UNCHANGED failed
       ELSE hand' = [hand EXCEPT ![h] = Idle] /\ failed' = failed + 1
    /\ UNCHANGED <<source, document, chunks, entry, removed, doubtVars>>

Tombstone(h) ==
    /\ hand[h].at = "tombstone"
    /\ IF hand[h].held
       THEN /\ document' = [document EXCEPT !.deleted = TRUE]
            /\ chunks' = [chunks EXCEPT !.deleted = (chunks # NoChunks)]
       ELSE UNCHANGED <<document, chunks>>
    /\ hand' = [hand EXCEPT ![h] = Idle]
    /\ UNCHANGED <<source, entry, failed, removed, doubtVars>>

(* document_content_hash, and the parse of what has changed.                *)
Compare(h) ==
    LET unchanged == document.rev = hand[h].rev /\ ~document.deleted IN
    /\ hand[h].at = "compare"
    /\ hand' = [hand EXCEPT ![h].at = "upsert", ![h].parsed = ~unchanged]
    /\ UNCHANGED <<source, document, chunks, entry, failed, removed, doubtVars>>

(* It is no format that is read, or has no text: a skip counts as one.      *)
Skip(h) ==
    /\ hand[h].at = "compare" /\ hand' = [hand EXCEPT ![h] = Idle]
    /\ failed' = IF hand[h].share # NoShare /\ failed = 0 THEN 1 ELSE failed
    /\ UNCHANGED <<source, document, chunks, entry, removed, doubtVars>>

(* A document that was withdrawn stays so.  What was found unchanged is     *)
(* written as the record, also when it has changed or gone since.           *)
UpsertDocument(h) ==
    LET next == IF hand[h].parsed THEN "replace"
                ELSE IF hand[h].share = NoShare THEN "idle" ELSE "enter" IN
    /\ hand[h].at = "upsert"
    /\ document' = [rev |-> hand[h].rev, deleted |-> document.deleted]
    /\ hand' = [hand EXCEPT ![h] = IF next = "idle" THEN Idle
                                   ELSE [@ EXCEPT !.at = next, !.held = TRUE]]
    /\ torn' = \/ torn
               \/ \E x \in Hands \ {h} : hand[x].at \in Between
               \/ ~hand[h].parsed /\ document.rev # hand[h].rev
    /\ UNCHANGED <<source, chunks, entry, failed, removed, overtaken, narrowed>>

----------------------------------------------------------------------------
(* replace_chunks and record_entry *)

ReplaceBegins(h) ==
    /\ hand[h].at = "replace" /\ hand[h].held
    /\ hand' = Refreshing(h, "replacing", entry)
    /\ UNCHANGED <<source, document, chunks, entry, failed, removed, doubtVars>>

(* A mutant: new chunks are in no channel until the next share.             *)
ChunksFor(h) == [of |-> hand[h].rev, channels |-> {}, deleted |-> FALSE]

(* DELETE_CHUNKS, INSERT_CHUNK and the refresh.                             *)
ChunksOf(h) == [of |-> hand[h].rev, channels |-> hand[h].snap, deleted |-> FALSE]

(* They commit, unless the document is gone or somebody else's chunks have  *)
(* the same ordinals, which raises (Fails).                                 *)
Replace(h) ==
    /\ hand[h].at = "replacing" /\ hand[h].held /\ hand[h].seen = (chunks # NoChunks)
    /\ chunks' = ChunksOf(h)
    /\ hand' = OthersSee(h, IF hand[h].share = NoShare THEN Idle ELSE [hand[h] EXCEPT !.at = "enter"])
    /\ torn' = (document.rev # hand[h].rev \/ \E x \in Hands \ {h} : hand[x].at \in Between)
    /\ narrowed' = (hand[h].snap # LiveOf(entry))
    /\ UNCHANGED <<source, document, entry, failed, removed, overtaken>>

(* A mutant: recording a share again makes it a new one.                    *)
EnteredAgain(s) == [entry EXCEPT ![s] = "live"]

(* RECORD_ENTRY: the same share stays what it is.                           *)
Entered(s) == [entry EXCEPT ![s] = IF @ = "none" THEN "live" ELSE @]

EnterBegins(h) ==
    /\ hand[h].at = "enter" /\ hand[h].held
    /\ hand' = Refreshing(h, "entering", Entered(hand[h].share))
    /\ UNCHANGED <<source, document, chunks, entry, failed, removed, doubtVars>>

Enter(h) ==
    LET s == hand[h].share IN
    /\ hand[h].at = "entering" /\ hand[h].held
    /\ entry' = Entered(s) /\ chunks' = Refreshed(h)
    /\ hand' = [hand EXCEPT ![h] = Idle]
    /\ overtaken' = overtaken \cup IF entry[s] = "none" THEN {s} \cap removed ELSE {}
    /\ narrowed' = (narrowed \/ Stale(h))
    /\ UNCHANGED <<source, document, failed, removed, torn>>

----------------------------------------------------------------------------
(* handle_message_deleted, and the purges of a channel, a person or an age *)

WithdrawBegins(h, s) ==
    /\ hand[h] = Idle /\ s \notin removed
    /\ hand' = [Refreshing(h, "withdrawing", [entry EXCEPT ![s] = "withdrawn"])
                  EXCEPT ![h].share = s, ![h].from = {s} \cap LiveOf(entry)]
    /\ UNCHANGED <<source, document, chunks, entry, failed, removed, doubtVars>>

(* It refreshes the documents whose entries it has marked.                  *)
Withdraw(h) ==
    LET s == hand[h].share
        mine == hand[h].from \cap LiveOf(entry) IN
    /\ hand[h].at = "withdrawing"
    /\ entry' = [x \in Shares |-> IF x \in mine THEN "withdrawn" ELSE entry[x]]
    /\ chunks' = IF hand[h].from = {} THEN chunks ELSE Refreshed(h)
    /\ hand' = [hand EXCEPT ![h] = Idle]
    /\ removed' = removed \cup {s}
    /\ overtaken' = overtaken \cup ({s} \cap LiveOf(entry'))
    /\ narrowed' = (narrowed \/ Stale(h))
    /\ UNCHANGED <<source, document, failed, torn>>

(* It deletes entries, and every document without one.                      *)
PurgeBegins(h, S) ==
    LET left == {s \in Shares \ S : entry[s] # "none"} IN
    /\ hand[h] = Idle /\ Stored
    /\ hand' = [Refreshing(h, "purging", [s \in Shares |-> IF s \in S THEN "none" ELSE entry[s]])
                  EXCEPT ![h].from = {s \in S : entry[s] # "none"},
                         ![h].doomed = (left = {}), ![h].held = TRUE]
    /\ UNCHANGED <<source, document, chunks, entry, failed, removed, doubtVars>>

(* Commits.  Chunks and entries go with the document.                       *)
Purge(h) ==
    LET dies == hand[h].doomed /\ hand[h].held IN
    /\ hand[h].at = "purging"
    /\ IF dies
       THEN /\ document' = NoDocument /\ chunks' = NoChunks
            /\ entry' = [s \in Shares |-> "none"]
            /\ hand' = OthersHold(h, Idle)
            /\ torn' = FALSE /\ narrowed' = FALSE
       ELSE /\ entry' = [s \in Shares |-> IF s \in hand[h].from THEN "none" ELSE entry[s]]
            /\ chunks' = IF hand[h].from = {} THEN chunks ELSE Refreshed(h)
            /\ hand' = [hand EXCEPT ![h] = Idle]
            /\ narrowed' = (narrowed \/ Stale(h))
            /\ UNCHANGED <<document, torn>>
    /\ UNCHANGED <<source, failed, removed, overtaken>>

----------------------------------------------------------------------------
SourceChanges ==
    /\ source < MaxSourceRevision /\ source' = source + 1
    /\ UNCHANGED <<document, chunks, entry, failed, hand, removed, doubtVars>>

(* The database fails or refuses, or the process stops: of this call only   *)
(* what it has committed remains.                                           *)
Fails(h) ==
    /\ hand[h].at # "idle" /\ hand' = [hand EXCEPT ![h] = Idle]
    /\ torn' = (torn \/ (hand[h].at \in Between /\ hand[h].held))
    /\ UNCHANGED <<source, document, chunks, entry, failed, removed, overtaken, narrowed>>

HandStep(h) ==
    \/ FetchDocument(h) \/ Unretrievable(h) \/ Tombstone(h) \/ Compare(h) \/ Skip(h) \/ UpsertDocument(h)
    \/ ReplaceBegins(h) \/ Replace(h) \/ EnterBegins(h) \/ Enter(h)
    \/ Withdraw(h) \/ Purge(h) \/ Fails(h)

DocumentsNext ==
    \/ SourceChanges
    \/ \E h \in Hands : HandStep(h) \/ Reconcile(h)
    \/ \E h \in Hands, s \in Shares : CaptureShare(h, s) \/ WithdrawBegins(h, s)
    \/ \E h \in Hands, S \in SUBSET Shares : PurgeBegins(h, S)

DocumentsSpec == DocumentsInit /\ [][DocumentsNext]_documentVars

----------------------------------------------------------------------------
DocumentsTypeOK ==
    /\ source \in 1..MaxSourceRevision /\ failed \in 0..(MaxAttempts + Cardinality(Hands))
    /\ document.rev \in 0..MaxSourceRevision /\ chunks.of \in 0..MaxSourceRevision
    /\ chunks.channels \subseteq Shares
    /\ \A s \in Shares : entry[s] \in {"none", "live", "withdrawn"}

(* What a search of a channel returns: chunks and document live, the copy   *)
(* of the channels and an entry both say so.                                *)
FoundIn(s) == /\ Stored /\ ~document.deleted /\ chunks.of # 0 /\ ~chunks.deleted
              /\ s \in chunks.channels /\ entry[s] = "live"

(* A share that was withdrawn stays so, through captures of the same        *)
(* message in flight, backfills and purges; unless it was not entered until *)
(* after its message was deleted, which nothing later takes back.           *)
WithdrawnIsNotFound == \A s \in removed \ overtaken : ~FoundIn(s)

(* A share is found in its channel, unless two refreshes crossed.           *)
SharesAreFound ==
    Stored /\ chunks.of # 0 /\ ~narrowed => LiveOf(entry) \subseteq chunks.channels

(* The text that is found is of the content that is on record, unless an    *)
(* ingestion stopped or was crossed between the two: nothing parses the     *)
(* same content again.                                                      *)
ChunksAreOfTheRecord ==
    Stored /\ ~torn /\ (\A h \in Hands : hand[h].at \in Between => ~hand[h].held) =>
        chunks.of = document.rev

DocumentsInv ==
    DocumentsTypeOK /\ WithdrawnIsNotFound /\ SharesAreFound /\ ChunksAreOfTheRecord
=============================================================================
