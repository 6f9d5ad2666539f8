------------------------------- MODULE Traces -------------------------------
(***************************************************************************)
(* The exported traces of answers: the bot posts a run to Langfuse and     *)
(* then records it in trace_export, with who asked and what it quotes;     *)
(* deletions, opt-outs and retention mark rows there, and ingest deletes   *)
(* what is marked, at once or in its withdrawal drain.  The index is the    *)
(* whole of the connection between the processes.                          *)
(*                                                                         *)
(* Abstractions.  A trace is what Langfuse does with it: held, deleting    *)
(* (accepted, and still listed) or gone.  Counts and times are left out,   *)
(* but for the order of a person's requests and a search.                  *)
(***************************************************************************)
EXTENDS Integers, FiniteSets, FiniteSetsExt

CONSTANTS
    TraceIds,
    AskerOf,     \* who asks the question a trace is of
    Quotable,    \* messages a run can quote
    AuthorOf,    \* their authors
    DrainBatch,  \* drain_pending's batch
    MaxOuts,     \* opt-outs
    MaxFailures  \* failed calls and writes, and restarts

Persons == {AskerOf[t] : t \in TraceIds} \cup {AuthorOf[m] : m \in Quotable}

ASSUME TracesAssumption ==
    /\ DrainBatch \in Nat \ {0} /\ MaxOuts \in Nat /\ MaxFailures \in Nat

VARIABLES
    run,       \* each answer on its way to being traced, and what it quotes
    kept,      \* what Langfuse does with its trace
    row,       \* its row of trace_export
    inCorpus,  \* messages stored and not deleted
    untold,    \* deletions that have not reached the index
    told,      \* messages whose traces were marked
    out,       \* each person's opt-out: "in", or its step
    wasOut,    \* who has been out (auxiliary)
    search,    \* trace_asker_search: the request's number, 0 for none
    drain,     \* the withdrawal pass
    flush,     \* the traces each _flush is deleting
    old,       \* traces past retention
    listed,    \* what the retention sweep found
    outs, failures,
    missed,    \* traces a deletion could not know of (auxiliary)
    unsearched \* traces lost while their asker was out (auxiliary)

botVars == <<run, kept, row>>
peopleVars == <<inCorpus, untold, told, out, wasOut, search>>
ingestVars == <<drain, flush, listed>>
restVars == <<old, outs, failures, missed, unsearched>>
traceVars == <<botVars, peopleVars, ingestVars, restVars>>

NoRow == [st |-> "none", asker |-> FALSE, quotes |-> {}]
NoFlush == [at |-> "idle", ids |-> {}]
NoTracePass == [at |-> "idle", askers |-> {}, of |-> {}, found |-> {}, started |-> 0]
Unlisted == {"unlisted"}
Flushers == {"pass", "inline"}

TracesInit ==
    /\ run = [t \in TraceIds |-> [at |-> "none", quotes |-> {}, born |-> "live"]]
    /\ kept = [t \in TraceIds |-> "none"] /\ row = [t \in TraceIds |-> NoRow]
    /\ inCorpus = Quotable /\ untold = {} /\ told = {}
    /\ out = [p \in Persons |-> "in"] /\ wasOut = {} /\ search = [p \in Persons |-> 0]
    /\ drain = NoTracePass /\ flush = [f \in Flushers |-> NoFlush] /\ listed = Unlisted
    /\ old = {} /\ outs = 0 /\ failures = 0 /\ missed = {} /\ unsearched = {}

Fault == failures < MaxFailures /\ failures' = failures + 1

----------------------------------------------------------------------------
(* The bot *)

IsOut(p) == out[p] # "in"

(* An answer quotes what is in the corpus, and nobody who is out.           *)
AnswerRun(t, Q) ==
    /\ run[t].at = "none" /\ Q \subseteq {m \in inCorpus : ~IsOut(AuthorOf[m])}
    /\ run' = [run EXCEPT ![t].at = "answered", ![t].quotes = Q]
    /\ UNCHANGED <<kept, row, peopleVars, ingestVars, restVars>>

(* OptOutAwareTracer: a run whose asker is out is not exported.             *)
CheckAsker(t) ==
    /\ run[t].at = "answered"
    /\ run' = [run EXCEPT ![t].at = IF IsOut(AskerOf[t]) THEN "over" ELSE "checked"]
    /\ UNCHANGED <<kept, row, peopleVars, ingestVars, restVars>>

PostRun(t) ==
    /\ run[t].at = "checked"
    /\ run' = [run EXCEPT ![t].at = "accepted"] /\ kept' = [kept EXCEPT ![t] = "held"]
    /\ UNCHANGED <<row, peopleVars, ingestVars, restVars>>

(* The POST fails, or times out after Langfuse accepted it.                 *)
PostFails(t) ==
    /\ run[t].at = "checked" /\ Fault
    /\ run' = [run EXCEPT ![t].at = "over"]
    /\ kept' \in {kept, [kept EXCEPT ![t] = "held"]}
    /\ unsearched' = IF IsOut(AskerOf[t]) THEN unsearched \cup {t} ELSE unsearched
    /\ UNCHANGED <<row, peopleVars, ingestVars, old, outs, missed>>

(* A mutant: a trace is never born pending.                                 *)
BornLive(t) == "live"

(* RECORD_TRACE: a trace whose asker opted out meanwhile is born pending.   *)
Born(t) == IF IsOut(AskerOf[t]) THEN "marked" ELSE "live"

(* record_export, up to its commit, and its commit.  A row that is there    *)
(* already stays as it is, but the messages are added to it.                *)
RecordTrace(t) ==
    /\ run[t].at = "accepted"
    /\ run' = [run EXCEPT ![t].at = "recording", ![t].born = Born(t)]
    /\ UNCHANGED <<kept, row, peopleVars, ingestVars, restVars>>

CommitExport(t) ==
    /\ run[t].at = "recording"
    /\ run' = [run EXCEPT ![t].at = "over"]
    /\ row' = [row EXCEPT ![t] = IF row[t].st = "none"
                                 THEN [st |-> run[t].born, asker |-> TRUE,
                                       quotes |-> run[t].quotes]
                                 ELSE [row[t] EXCEPT !.quotes = row[t].quotes \cup run[t].quotes]]
    /\ missed' = IF run[t].quotes \cap told # {} \/ row[t].st = "confirmed"
                 THEN missed \cup {t} ELSE missed
    /\ UNCHANGED <<kept, peopleVars, ingestVars, old, outs, failures, unsearched>>

(* The index cannot be written, or the bot stops: the trace stays, unknown. *)
ExportLost(t) ==
    /\ run[t].at \in {"answered", "checked", "accepted", "recording"} /\ Fault
    /\ run' = [run EXCEPT ![t].at = "over"]
    /\ unsearched' = IF IsOut(AskerOf[t]) THEN unsearched \cup {t} ELSE unsearched
    /\ UNCHANGED <<kept, row, peopleVars, ingestVars, old, outs, missed>>

----------------------------------------------------------------------------
(* Marking *)

Marked(S) == [t \in TraceIds |-> IF t \in S /\ row[t].st = "live"
                                 THEN [row[t] EXCEPT !.st = "marked"] ELSE row[t]]
Unconfirmed(S) == {t \in S : row[t].st \in {"live", "marked"}}
Quoting(M) == {t \in TraceIds : row[t].quotes \cap M # {}}
AskedBy(p) == {t \in TraceIds : row[t].asker /\ AskerOf[t] = p}

(* handle_delete: the message first, and its traces last.                   *)
DeleteMessage(m) ==
    /\ m \in inCorpus
    /\ inCorpus' = inCorpus \ {m} /\ untold' = untold \cup {m}
    /\ UNCHANGED <<botVars, told, out, wasOut, search, ingestVars, restVars>>

(* A mutant: the destination is called, and nothing is marked.              *)
WithdrawMessageInline(m) ==
    LET S == Unconfirmed(Quoting({m})) IN
    /\ m \in untold /\ flush["inline"] = NoFlush
    /\ untold' = untold \ {m} /\ told' = told \cup {m}
    /\ flush' = IF S = {} THEN flush ELSE [flush EXCEPT !["inline"] = [at |-> "delete", ids |-> S]]
    /\ UNCHANGED <<botVars, inCorpus, out, wasOut, search, drain, listed, restVars>>

(* withdraw_message marks what quotes it, and sets about deleting it.       *)
WithdrawMessageTraces(m) ==
    LET S == Unconfirmed(Quoting({m})) IN
    /\ m \in untold /\ flush["inline"] = NoFlush
    /\ untold' = untold \ {m} /\ told' = told \cup {m}
    /\ row' = Marked(S)
    /\ flush' = IF S = {} THEN flush ELSE [flush EXCEPT !["inline"] = [at |-> "delete", ids |-> S]]
    /\ UNCHANGED <<run, kept, inCorpus, out, wasOut, search, drain, listed, restVars>>

(* request_deletion_for_message fails, and swallows it.                     *)
DeletionUntold(m) ==
    /\ m \in untold /\ Fault
    /\ untold' = untold \ {m} /\ told' = told \cup {m}
    /\ missed' = missed \cup {t \in TraceIds : m \in run[t].quotes}
    /\ UNCHANGED <<botVars, inCorpus, out, wasOut, search, ingestVars, old, outs, unsearched>>

(* opt_out: the exclusion, the traces, and then the purge.                  *)
ExcludePerson(p) ==
    /\ out[p] = "in" /\ outs < MaxOuts /\ outs' = outs + 1
    /\ out' = [out EXCEPT ![p] = "excluded"] /\ wasOut' = wasOut \cup {p}
    /\ UNCHANGED <<botVars, inCorpus, untold, told, search, ingestVars, old, failures, missed, unsearched>>

(* A mutant: nothing is searched for.                                       *)
WithdrawPersonUnsearched(p) ==
    /\ out[p] = "excluded" /\ out' = [out EXCEPT ![p] = "withdrawn"]
    /\ row' = Marked(AskedBy(p) \cup Quoting({m \in Quotable : AuthorOf[m] = p}))
    /\ told' = told \cup {m \in Quotable : AuthorOf[m] = p}
    /\ UNCHANGED <<run, kept, inCorpus, untold, wasOut, search, ingestVars, restVars>>

(* request_deletion_for_person: the traces of what they asked and of what   *)
(* they wrote, and a search for those nobody recorded.                      *)
WithdrawPerson(p) ==
    /\ out[p] = "excluded" /\ out' = [out EXCEPT ![p] = "withdrawn"]
    /\ row' = Marked(AskedBy(p) \cup Quoting({m \in Quotable : AuthorOf[m] = p}))
    /\ told' = told \cup {m \in Quotable : AuthorOf[m] = p}
    /\ search' = [search EXCEPT ![p] = outs]
    /\ UNCHANGED <<run, kept, inCorpus, untold, wasOut, ingestVars, restVars>>

PurgePerson(p) ==
    /\ out[p] = "withdrawn" /\ out' = [out EXCEPT ![p] = "purged"]
    /\ inCorpus' = {m \in inCorpus : AuthorOf[m] # p}
    /\ UNCHANGED <<botVars, untold, told, wasOut, search, ingestVars, restVars>>

OptIn(p) ==
    /\ out[p] = "purged" /\ out' = [out EXCEPT ![p] = "in"]
    /\ UNCHANGED <<botVars, inCorpus, untold, told, wasOut, search, ingestVars, restVars>>

----------------------------------------------------------------------------
(* What Langfuse lists, and what is recorded of it *)

ListedNow == {t \in TraceIds : kept[t] \in {"held", "deleting"}}

(* RECORD_FOUND_TRACE, RECORD_EXPIRED_TRACE: a row confirmed deleted is     *)
(* left alone, for Langfuse may still list it.                              *)
Found(S, asked) ==
    [t \in TraceIds |-> IF t \in S /\ row[t].st # "confirmed"
                        THEN [row[t] EXCEPT !.st = "marked", !.asker = @ \/ asked]
                        ELSE row[t]]

BeginTracePass ==
    /\ drain.at = "idle"
    /\ \/ \E p \in Persons : search[p] # 0
       \/ \E t \in TraceIds : row[t].st = "marked"
    /\ drain' = [NoTracePass EXCEPT !.at = "search",
                                   !.askers = {p \in Persons : search[p] # 0}]
    /\ UNCHANGED <<botVars, peopleVars, flush, listed, restVars>>

(* A mutant: the search takes whatever is listed.                           *)
FindByAnyone(p) ==
    /\ drain.at = "search" /\ p \in drain.askers
    /\ drain' = [at |-> "found", askers |-> drain.askers \ {p}, of |-> {p},
                 found |-> ListedNow, started |-> outs]
    /\ UNCHANGED <<botVars, peopleVars, flush, listed, restVars>>

(* find_traces_by_user: None is left for the next drain.                    *)
FindByAsker(p) ==
    /\ drain.at = "search" /\ p \in drain.askers
    /\ drain' = [at |-> "found", askers |-> drain.askers \ {p}, of |-> {p},
                found |-> {t \in ListedNow : AskerOf[t] = p}, started |-> outs]
    /\ UNCHANGED <<botVars, peopleVars, flush, listed, restVars>>

SearchDeferred(p) ==
    /\ drain.at = "search" /\ p \in drain.askers /\ Fault
    /\ drain' = [drain EXCEPT !.askers = @ \ {p}]
    /\ UNCHANGED <<botVars, peopleVars, flush, listed, old, outs, missed, unsearched>>

(* COMPLETE_ASKER_SEARCH: only a request from before the search began.      *)
SearchClosed(p, started) == IF search[p] <= started THEN [search EXCEPT ![p] = 0] ELSE search

RecordFound(p) ==
    /\ drain.at = "found" /\ drain.of = {p}
    /\ row' = Found(drain.found, TRUE) /\ search' = SearchClosed(p, drain.started)
    /\ drain' = [NoTracePass EXCEPT !.at = "search", !.askers = drain.askers]
    /\ UNCHANGED <<run, kept, inCorpus, untold, told, out, wasOut, flush, listed, restVars>>

(* TraceRetention.sweep: the index, then what Langfuse lists besides.       *)
GrowOld(t) ==
    /\ kept[t] = "held" /\ run[t].at = "over" /\ t \notin old /\ old' = old \cup {t}
    /\ UNCHANGED <<botVars, peopleVars, ingestVars, outs, failures, missed, unsearched>>

SweepRetention ==
    /\ listed = Unlisted /\ \E t \in old : kept[t] = "held" /\ row[t].st \in {"none", "live"}
    /\ row' = Marked(old) /\ listed' = ListedNow \cap old
    /\ UNCHANGED <<run, kept, peopleVars, drain, flush, restVars>>

RecordExpired ==
    /\ listed # Unlisted /\ row' = Found(listed, FALSE) /\ listed' = Unlisted
    /\ UNCHANGED <<run, kept, peopleVars, drain, flush, restVars>>

----------------------------------------------------------------------------
(* Deleting *)

Pending == {t \in TraceIds : row[t].st = "marked"}

(* drain_pending, once the searches are done.                               *)
ReadPendingDeletions ==
    /\ drain.at = "search" /\ drain.askers = {} /\ flush["pass"] = NoFlush
    /\ IF Pending = {} THEN drain' = NoTracePass /\ UNCHANGED flush
       ELSE /\ \E S \in kSubset(Min({DrainBatch, Cardinality(Pending)}), Pending) :
                 flush' = [flush EXCEPT !["pass"] = [at |-> "delete", ids |-> S]]
            /\ UNCHANGED drain
    /\ UNCHANGED <<botVars, peopleVars, listed, restVars>>

(* _flush.  Langfuse accepts the deletion and carries it out later.         *)
DeleteTraces(f) ==
    /\ flush[f].at = "delete"
    /\ kept' = [t \in TraceIds |-> IF t \in flush[f].ids /\ kept[t] = "held" THEN "deleting"
                                   ELSE kept[t]]
    /\ flush' = [flush EXCEPT ![f].at = "confirm"]
    /\ UNCHANGED <<run, row, peopleVars, drain, listed, restVars>>

(* A refused deletion ends the pass; the rows stay marked.                  *)
DeleteRefused(f) ==
    /\ flush[f].at = "delete" /\ Fault
    /\ flush' = [flush EXCEPT ![f] = NoFlush]
    /\ drain' = IF f = "pass" THEN NoTracePass ELSE drain
    /\ UNCHANGED <<botVars, peopleVars, listed, old, outs, missed, unsearched>>

(* CONFIRM_DELETED keeps the trace's id, and not who asked or what it quotes. *)
ConfirmedRow(t) == [row[t] EXCEPT !.st = "confirmed", !.asker = FALSE, !.quotes = {}]

ConfirmDeleted(f) ==
    /\ flush[f].at = "confirm"
    /\ row' = [t \in TraceIds |-> IF t \in Unconfirmed(flush[f].ids) THEN ConfirmedRow(t)
                                  ELSE row[t]]
    /\ flush' = [flush EXCEPT ![f] = NoFlush]
    /\ drain' = IF f = "pass" /\ Cardinality(flush[f].ids) < DrainBatch THEN NoTracePass ELSE drain
    /\ UNCHANGED <<run, kept, peopleVars, listed, restVars>>

(* Langfuse carries out a deletion it accepted.                             *)
TraceGone(t) ==
    /\ kept[t] = "deleting" /\ kept' = [kept EXCEPT ![t] = "gone"]
    /\ UNCHANGED <<run, row, peopleVars, ingestVars, restVars>>

(* Ingest stops: what its memory held is lost, a deletion's last step too.  *)
IngestRestarts ==
    /\ Fault
    /\ drain' = NoTracePass /\ flush' = [f \in Flushers |-> NoFlush] /\ listed' = Unlisted
    /\ untold' = {} /\ told' = told \cup untold
    /\ missed' = missed \cup {t \in TraceIds : run[t].quotes \cap untold # {}}
    /\ UNCHANGED <<botVars, inCorpus, out, wasOut, search, old, outs, unsearched>>

----------------------------------------------------------------------------
BotStep(t) == CheckAsker(t) \/ PostRun(t) \/ RecordTrace(t) \/ CommitExport(t)
OptOutStep(p) == WithdrawPerson(p) \/ PurgePerson(p)
PassStep ==
    \/ BeginTracePass \/ ReadPendingDeletions
    \/ \E p \in Persons : FindByAsker(p) \/ RecordFound(p)
FlushStep(f) == DeleteTraces(f) \/ ConfirmDeleted(f)
RetentionStep == SweepRetention \/ RecordExpired

TracesNext ==
    \/ \E t \in TraceIds :
         \/ \E Q \in SUBSET Quotable : AnswerRun(t, Q)
         \/ BotStep(t) \/ PostFails(t) \/ ExportLost(t) \/ GrowOld(t) \/ TraceGone(t)
    \/ \E m \in Quotable : DeleteMessage(m) \/ WithdrawMessageTraces(m) \/ DeletionUntold(m)
    \/ \E p \in Persons : ExcludePerson(p) \/ OptOutStep(p) \/ OptIn(p) \/ SearchDeferred(p)
    \/ PassStep \/ RetentionStep
    \/ \E f \in Flushers : FlushStep(f) \/ DeleteRefused(f)
    \/ IngestRestarts

TracesFairness ==
    /\ \A t \in TraceIds : WF_traceVars(BotStep(t))
    /\ \A m \in Quotable : WF_traceVars(WithdrawMessageTraces(m))
    /\ \A p \in Persons : WF_traceVars(OptOutStep(p))
    /\ WF_traceVars(PassStep) /\ WF_traceVars(RetentionStep)
    /\ \A f \in Flushers : WF_traceVars(FlushStep(f))

TracesSpec == TracesInit /\ [][TracesNext]_traceVars /\ TracesFairness

----------------------------------------------------------------------------
(* Properties *)

(* Only what Langfuse was asked to keep is marked or deleted, a batch is of *)
(* rows that are marked or confirmed, and a search is for somebody who has  *)
(* been out (TraceWithdrawal, PostgresTraceIndex).                          *)
TracesTypeOK ==
    /\ \A t \in TraceIds :
         /\ row[t].st \in {"none", "live", "marked", "confirmed"}
         /\ row[t].st # "none" => kept[t] # "none"
         /\ run[t].at \in {"none", "answered", "checked"} => kept[t] = "none"
    /\ \A f \in Flushers : \A t \in flush[f].ids : row[t].st \in {"marked", "confirmed"}
    /\ \A p \in Persons : search[p] \in 0..outs /\ (search[p] # 0 => p \in wasOut)

(* A trace is only deleted when its asker, or the author of something it    *)
(* quotes, has opted out, or something it quotes was deleted, or it is past *)
(* retention, whoever marked it and however late (REQUEST_DELETION...).     *)
DeletedForCause ==
    \A t \in TraceIds : kept[t] \in {"deleting", "gone"} =>
        \/ AskerOf[t] \in wasOut \/ t \in old
        \/ \E m \in run[t].quotes : m \notin inCorpus \/ AuthorOf[m] \in wasOut

(* A confirmed deletion keeps neither who asked nor what it quotes          *)
(* (CONFIRM_DELETED).  Excepted are the messages of an export that was      *)
(* recorded after its trace had been found and deleted.                     *)
ConfirmedForgets ==
    \A t \in TraceIds : row[t].st = "confirmed" =>
        ~row[t].asker /\ (row[t].quotes = {} \/ t \in missed)

(* What becomes of a trace has a cause, and leaves no trace of its own      *)
(* (langfuse_trace, langfuse_trace_message).                                *)
TracesInv == DeletedForCause /\ ConfirmedForgets

(* The traces of somebody who is out and stays out go, indexed or not, and  *)
(* those exported while they were opting out; not one posted after the      *)
(* search and never recorded, which is retention's (search_askers).         *)
AskerTracesGo ==
    \A t \in TraceIds :
        <>[](IsOut(AskerOf[t]) /\ t \notin unsearched) => <>[](kept[t] # "held")

(* A trace that quotes a deleted message goes, when its export was recorded *)
(* before the deletion and the index could be told (withdraw_message).      *)
QuotedTracesGo ==
    \A t \in TraceIds :
        <>[](row[t].quotes \ inCorpus # {} /\ t \notin missed) => <>[](kept[t] # "held")

(* Past retention every trace goes, one the index never knew of included    *)
(* (TraceRetention).                                                        *)
OldTracesGo == \A t \in TraceIds : t \in old ~> kept[t] # "held"
(* Whatever must go goes, and only that (TraceWithdrawal, TraceRetention).  *)
TracesGo == AskerTracesGo /\ QuotedTracesGo /\ OldTracesGo
=============================================================================
