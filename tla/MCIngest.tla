------------------------------ MODULE MCIngest -------------------------------
(***************************************************************************)
(* The ingest process besides the corpus: how history is read, what is     *)
(* read out of messages, what Langfuse keeps of answers, and the documents *)
(* that messages share.  They share no row here, and turn one at a time,   *)
(* so that TLC checks the sum of their states instead of the product.      *)
(* History turns twice: with reconciliation beside backfill, and with      *)
(* backfill over a bot's message.                                          *)
(* Extraction turns twice: one message through everything that can happen  *)
(* to it, and two messages of a channel, one read as the other's context.  *)
(* Traces turn three times: those of somebody who opts out and in and out  *)
(* again, of a message that is deleted or whose author leaves, and two     *)
(* traces deleted in a pass.  Documents turn twice: one share of a source  *)
(* that changes, captured by one hand while another reconciles, withdraws  *)
(* and purges, and two shares of one that stays as it is.                  *)
(***************************************************************************)
EXTENDS History, Extraction, Traces, Documents

CONSTANTS asker, author, post, t1, t2, d1, d2, h1, h2

VARIABLE turn

MCAskerOf == [t \in TraceIds |-> asker]
MCAuthorOf == [m \in Quotable |-> author]

Imports == turn \in {"history", "bots"}
Reads == turn \in {"message", "channel"}
Shared == turn \in {"revising", "sharing"}
Exports == turn \in {"asker", "quoted", "drain"}

NoHistory ==
    /\ plat = [m \in Msg |-> "unsent"] /\ stored = [m \in Msg |-> "none"]
    /\ up = TRUE /\ queue = {} /\ delq = {} /\ cursor = Null /\ top = Null
    /\ back = IdleBack /\ recon = IdleRecon /\ faults = 0

IngestInit ==
    /\ turn \in {"history", "bots", "message", "channel", "asker", "quoted", "drain",
                 "revising", "sharing"}
    /\ IF Imports THEN Init ELSE NoHistory
    /\ ExtractionInit /\ TracesInit /\ DocumentsInit

(* The bot's message is deleted first, or stays while nobody else posts or  *)
(* deletes.                                                                 *)
ImportingTurn ==
    /\ Imports /\ Next
    /\ turn = "history" => \A m \in Bots : plat'[m] = "deleted"
    /\ turn = "bots" => plat' = plat /\ recon' = recon
    /\ UNCHANGED <<extractionVars, traceVars, documentVars, turn>>

ReadingTurn ==
    /\ Reads /\ ExtractionNext
    /\ turn = "message" => texts'[2] = <<>>
    /\ turn = "channel" => /\ queued' = {} /\ mishaps' = 0 /\ resets' = 0
                           /\ Len(texts'[1]) + Len(texts'[2]) <= 3
                           /\ \A m \in DOMAIN texts' : \A i \in DOMAIN texts'[m] :
                                texts'[m][i] # "ask" /\ i <= 2
                           /\ alive' \subseteq oldEnough'
    /\ UNCHANGED <<vars, traceVars, documentVars, turn>>

ExportTurn ==
    /\ Exports /\ TracesNext
    /\ turn # "drain" => run'[t2].at = "none"
    /\ turn # "quoted" => inCorpus' = inCorpus /\ out'[author] = "in"
    /\ turn = "asker" => run'[t1].quotes = {} /\ old' = {}
    /\ turn = "quoted" => out'[asker] = "in" /\ outs' <= 1
    /\ turn = "drain" => failures' = 0 /\ outs' <= 1 /\ old' = {} /\ run'[t2].quotes = {}
    /\ UNCHANGED <<vars, extractionVars, documentVars, turn>>

DocumentTurn ==
    /\ Shared /\ UNCHANGED turn /\ DocumentsNext
    /\ hand'[h1].at \notin {"withdrawing", "purging"}
    /\ turn = "revising" => /\ hand'[h1].share # d2 /\ hand'[h2].share # d2
                            /\ hand'[h1].at = "fetch" => hand'[h1].share = d1
                            /\ hand'[h2].at = "fetch" => hand'[h2].share = NoShare
    /\ turn = "sharing" => /\ source' = 1 /\ failed' = 0
                           /\ \A h \in Hands : hand'[h].at = "fetch" => hand'[h].share # NoShare
    /\ UNCHANGED <<vars, extractionVars, traceVars>>

IngestNext == ImportingTurn \/ ReadingTurn \/ ExportTurn \/ DocumentTurn

ImportingFairness ==
    /\ WF_vars(Imports /\ BackfillLoop)
    /\ WF_vars(turn = "history" /\ ReconcileLoop)
    /\ WF_vars(Imports /\ Live)
    /\ WF_vars(Imports /\ Restart)

ReadingFairness ==
    /\ \A m \in Posts : WF_extractionVars(Reads /\ GrowsOld(m))
    /\ WF_extractionVars(Reads /\ RunLive(TRUE))
    /\ WF_extractionVars(Reads /\ ReadPending)
    /\ WF_extractionVars(Reads /\ TakeChunk)
    /\ \A w \in Passes : WF_extractionVars(Reads /\ ExtractStep(w))

ExportFairness ==
    /\ \A t \in TraceIds : WF_traceVars(Exports /\ BotStep(t))
    /\ \A m \in Quotable : WF_traceVars(Exports /\ WithdrawMessageTraces(m))
    /\ \A p \in Persons : WF_traceVars(Exports /\ OptOutStep(p))
    /\ WF_traceVars(Exports /\ PassStep) /\ WF_traceVars(Exports /\ RetentionStep)
    /\ \A f \in Flushers : WF_traceVars(Exports /\ FlushStep(f))

IngestSpec == /\ IngestInit /\ [][IngestNext]_<<vars, extractionVars, traceVars, documentVars, turn>>
              /\ ImportingFairness /\ ReadingFairness /\ ExportFairness
-----------------------------------------------------------------------------
(* Passes and batches hold what they read, rows what was stored.            *)
IngestTypeOK == TypeOK /\ ExtractionTypeOK /\ TracesTypeOK

(* Everything is in one place, and nothing is found of a document that was  *)
(* taken back or is another's.                                              *)
IngestInv == IngestTypeOK /\ DocumentsInv

(* Whatever is missed is found in the end: history and deletions by the     *)
(* archive, texts by extraction, withdrawals by the trace store.            *)
IngestCatchesUp == ArchiveCatchesUp /\ CatchesUp /\ TracesGo
=============================================================================
