------------------------------- MODULE Memory -------------------------------
(***************************************************************************)
(* What the assistant remembers of one person in one place.  A question is *)
(* answered with what the person may be reminded of, and stored with the   *)
(* channels its run read and those of the memory it was shown.  Past a     *)
(* bound a background task has a model condense the older turns, and one   *)
(* statement replaces them by the summary, whose channels are the union of *)
(* what that statement deleted.  The person forgets, opts out and returns, *)
(* retention expires, and access changes, at any moment.                   *)
(*                                                                         *)
(* A turn is its id; what it says is which turns it may restate.           *)
(***************************************************************************)
EXTENDS Integers, FiniteSets, FiniteSetsExt

CONSTANTS
    Channels,
    Asks,            \* the questions that can be in progress at once
    MaxTurns,        \* bound on the turns stored
    RecentTurns,     \* recent_turns: shown to a run, and kept verbatim
    SummariseAfter,  \* summarise_after_turns
    MaxAccess,       \* bound on the changes of access
    MaxForgets,      \* bound on the times the person forgets or opts out
    MaxPurges,       \* bound on the sweeps of retention
    MaxMisses        \* bound on reads and models that fail

ASSUME MemoryAssumption ==
    /\ IsFiniteSet(Channels) /\ Asks # {} /\ MaxTurns \in Nat \ {0}
    /\ RecentTurns \in Nat \ {0} /\ SummariseAfter \in Nat /\ SummariseAfter > RecentTurns
    /\ {MaxAccess, MaxForgets, MaxPurges, MaxMisses} \subseteq Nat

VARIABLES
    readable,      \* the channels that person and audience may read
    memoryOut,     \* the person is opted out
    stored,        \* conversation_turn: the ids of the turns it holds
    channelIds,    \* id -> the channel_ids the turn was stored with
    summaries,     \* conversation_summary: [ids, through, starts, of]
    question,      \* the questions in progress
    summarising,   \* the background task of this conversation
    nextTurn,      \* the sequence of turn ids
    memoryCounts,  \* [access, forgets, purges, misses] so far
    drew,          \* id -> the channels its run read
    rests,         \* id -> the turns its text may restate, its own included
    horizon,       \* turns up to this id are past the retention window
    forgotten,     \* turns forgotten while none was being written
    lost           \* what turns may restate that were deleted while the summariser
                   \* held their text

memoryVars == <<readable, memoryOut, stored, channelIds, summaries, question, summarising,
                nextTurn, memoryCounts, drew, rests, horizon, forgotten, lost>>
asideVars == <<channelIds, drew, rests, horizon, forgotten, lost>>

TurnIds == 1..MaxTurns

Idle == [at |-> "idle", scope |-> {}, shown |-> {}, rests |-> {}, id |-> 0]
NoSummariser == [at |-> "idle", scope |-> {}, of |-> {}, through |-> 0]

Summary == [ids : SUBSET Channels, through : TurnIds, starts : TurnIds, of : SUBSET TurnIds]
-----------------------------------------------------------------------------
Newest(S, n) == {i \in S : Cardinality({j \in S : j > i}) < n}

(* Both statements hold the channels against the scope, and return nothing  *)
(* of somebody who is opted out.                                            *)
RecalledTurns(scope, n) ==
    IF memoryOut THEN {} ELSE Newest({i \in stored : channelIds[i] \subseteq scope}, n)

RecalledSummaries(scope) ==
    IF memoryOut THEN {} ELSE {s \in summaries : s.ids \subseteq scope}

(* The turns whose text a text condensed from, or shown, these may restate. *)
Restated(O) == UNION {rests[i] : i \in O}
Condensed(S) == UNION {s.of : s \in S}

Inherited(T, S) == (UNION {channelIds[i] : i \in T}) \cup (UNION {s.ids : s \in S})

Miss == memoryCounts.misses < MaxMisses /\ memoryCounts' = [memoryCounts EXCEPT !.misses = @ + 1]
NoMiss == UNCHANGED memoryCounts
-----------------------------------------------------------------------------
(* A question.  The scope is taken once, and everything that follows is     *)
(* judged by it.                                                            *)
InProgress == {a \in Asks : question[a].at # "idle"}

AskBegins(a) ==
    /\ question[a].at = "idle" /\ nextTurn + Cardinality(InProgress) <= MaxTurns
    /\ question' = [question EXCEPT ![a] = [Idle EXCEPT !.at = "recalling", !.scope = readable]]
    /\ UNCHANGED <<readable, memoryOut, stored, summaries, summarising, nextTurn,
                   memoryCounts, asideVars>>

Reminded(a, T, S) ==
    question' = [question EXCEPT ![a].at = "answering", ![a].shown = Inherited(T, S),
                                 ![a].rests = Restated(T \cup Condensed(S))]

AskRecalls(a) ==
    /\ question[a].at = "recalling"
    /\ \/ NoMiss /\ Reminded(a, RecalledTurns(question[a].scope, RecentTurns),
                                RecalledSummaries(question[a].scope))
       \/ Miss /\ Reminded(a, {}, {})      \* recall fails to no memory
    /\ UNCHANGED <<readable, memoryOut, stored, summaries, summarising, nextTurn, asideVars>>

(* A mutant: memory counts as nothing that was drawn on.                    *)
ProvenanceOfRun(a, D) == D

(* The run has read the channels D; the turn also counts those of the       *)
(* memory it was shown.                                                     *)
Provenance(a, D) == D \cup question[a].shown

(* The insert begins: an opted-out person's row is dropped by the trigger.  *)
AskStores(a, D) ==
    /\ question[a].at = "answering" /\ D \subseteq question[a].scope
    /\ IF memoryOut
         THEN /\ question' = [question EXCEPT ![a] = Idle]
              /\ UNCHANGED <<nextTurn, drew, rests>>
         ELSE /\ question' = [question EXCEPT ![a].at = "writing", ![a].id = nextTurn,
                                              ![a].shown = Provenance(a, D)]
              /\ nextTurn' = nextTurn + 1
              /\ drew' = [drew EXCEPT ![nextTurn] = D]
              /\ rests' = [rests EXCEPT ![nextTurn] = {nextTurn} \cup question[a].rests]
    /\ UNCHANGED <<readable, memoryOut, stored, channelIds, summaries, summarising, memoryCounts,
                   horizon, forgotten, lost>>

(* The answer drew on something whose channels nobody can re-check, or the  *)
(* run or its write failed: the turn is not stored.                         *)
AskUnstored(a) ==
    /\ question[a].at \in {"answering", "writing"}
    /\ Miss /\ question' = [question EXCEPT ![a] = Idle]
    /\ UNCHANGED <<readable, memoryOut, stored, summaries, summarising, nextTurn, asideVars>>

(* The turn is committed, and the conversation looked at unless that is     *)
(* going on already.                                                        *)
AskCommits(a) ==
    /\ question[a].at = "writing"
    /\ stored' = stored \cup {question[a].id}
    /\ channelIds' = [channelIds EXCEPT ![question[a].id] = question[a].shown]
    /\ summarising' = IF summarising.at # "idle" THEN summarising
                      ELSE [NoSummariser EXCEPT !.at = "scheduled", !.scope = question[a].scope]
    /\ question' = [question EXCEPT ![a] = Idle]
    /\ UNCHANGED <<readable, memoryOut, summaries, nextTurn, memoryCounts, drew, rests, horizon,
                   forgotten, lost>>
-----------------------------------------------------------------------------
(* The summariser reads afresh, under the scope of the question that        *)
(* started it; the model then takes its time over the text.                 *)
SummariserRecalls ==
    LET recalled == RecalledTurns(summarising.scope, 2 * SummariseAfter)
        older    == recalled \ Newest(recalled, RecentTurns)
    IN /\ summarising.at = "scheduled"
       /\ summarising' =
             IF Cardinality(recalled) <= SummariseAfter THEN NoSummariser
             ELSE [summarising EXCEPT !.at = "condensing",
                       !.of = older \cup Condensed(RecalledSummaries(summarising.scope)),
                       !.through = Max(older)]
       /\ UNCHANGED <<readable, memoryOut, stored, summaries, question, nextTurn,
                      memoryCounts, asideVars>>

(* The model fails, writes nothing, or the process stops.                   *)
SummariserFails ==
    /\ summarising.at # "idle" /\ Miss /\ summarising' = NoSummariser
    /\ UNCHANGED <<readable, memoryOut, stored, summaries, question, nextTurn, asideVars>>

(* What REPLACE_WITH_SUMMARY deletes: nothing where a summary reaches as    *)
(* far already.                                                             *)
Guarded == \A s \in summaries : s.through < summarising.through
ReplacedTurns == {i \in stored : i <= summarising.through}

(* A mutant: the summary is written whatever became of the turns.           *)
WorthWritingAlways(T, S) == TRUE

(* A summary of nothing that was deleted is not written, nor is one of an   *)
(* opted-out person.                                                        *)
WorthWriting(T, S) == T # {} \/ S # {}

Replacement(T, S) ==
    [ids |-> Inherited(T, S), through |-> summarising.through,
     starts |-> Min(T \cup {s.starts : s \in S} \cup {summarising.through}),
     of |-> summarising.of]

SummariserReplaces ==
    /\ summarising.at = "condensing"
    /\ IF Guarded
         THEN /\ stored' = stored \ ReplacedTurns
              /\ summaries' = IF memoryOut \/ ~WorthWriting(ReplacedTurns, summaries) THEN {}
                              ELSE {Replacement(ReplacedTurns, summaries)}
         ELSE UNCHANGED <<stored, summaries>>
    /\ summarising' = NoSummariser
    /\ UNCHANGED <<readable, memoryOut, question, nextTurn, memoryCounts, asideVars>>
-----------------------------------------------------------------------------
(* Deletions.  What the summariser holds of them it goes on holding.        *)
Deleted(T, S) ==
    /\ stored' = stored \ T
    /\ summaries' = summaries \ S
    /\ lost' = lost \cup Restated((T \cup Condensed(S)) \cap summarising.of)

Writing == {a \in Asks : question[a].at = "writing"}

ForgotAll ==
    /\ memoryCounts.forgets < MaxForgets
    /\ memoryCounts' = [memoryCounts EXCEPT !.forgets = @ + 1]
    /\ Deleted(stored, summaries)
    /\ forgotten' = IF Writing # {} THEN forgotten
                    ELSE forgotten \cup stored \cup Condensed(summaries)

Forget ==
    /\ ForgotAll
    /\ UNCHANGED <<readable, memoryOut, question, summarising, nextTurn, channelIds, drew, rests,
                   horizon>>

(* The record of the opt-out purges in its own transaction.                 *)
OptOut ==
    /\ ~memoryOut /\ ForgotAll /\ memoryOut' = TRUE
    /\ UNCHANGED <<readable, question, summarising, nextTurn, channelIds, drew, rests, horizon>>

OptIn ==
    /\ memoryOut /\ memoryOut' = FALSE
    /\ UNCHANGED <<readable, stored, summaries, question, summarising, nextTurn,
                   memoryCounts, asideVars>>

(* Retention goes by when a turn was asked, and for a summary by the        *)
(* earliest of what it replaced; a turn being written is of now.            *)
ExpiredTurns(h) == {i \in stored : i <= h}
ExpiredSummaries(h) == {s \in summaries : s.starts <= h}

Purge(h) ==
    /\ h > horizon /\ h < nextTurn /\ horizon' = h
    /\ \A a \in Writing : h < question[a].id
    /\ memoryCounts.purges < MaxPurges
    /\ memoryCounts' = [memoryCounts EXCEPT !.purges = @ + 1]
    /\ Deleted(ExpiredTurns(h), ExpiredSummaries(h))
    /\ UNCHANGED <<readable, memoryOut, question, summarising, nextTurn, channelIds, drew, rests,
                   forgotten>>

AccessChanges(C) ==
    /\ memoryCounts.access < MaxAccess /\ C # readable /\ readable' = C
    /\ memoryCounts' = [memoryCounts EXCEPT !.access = @ + 1]
    /\ UNCHANGED <<memoryOut, stored, summaries, question, summarising, nextTurn, asideVars>>
-----------------------------------------------------------------------------
MemoryInit ==
    /\ readable = Channels /\ memoryOut = FALSE
    /\ stored = {} /\ summaries = {} /\ channelIds = [i \in TurnIds |-> {}]
    /\ question = [a \in Asks |-> Idle] /\ summarising = NoSummariser /\ nextTurn = 1
    /\ memoryCounts = [access |-> 0, forgets |-> 0, purges |-> 0, misses |-> 0]
    /\ drew = [i \in TurnIds |-> {}] /\ rests = [i \in TurnIds |-> {}]
    /\ horizon = 0 /\ forgotten = {} /\ lost = {}

AskStep(a) ==
    \/ AskBegins(a) \/ AskRecalls(a) \/ AskCommits(a) \/ AskUnstored(a)
    \/ \E D \in SUBSET Channels : AskStores(a, D)

MemoryNext ==
    \/ \E a \in Asks : AskStep(a)
    \/ SummariserRecalls \/ SummariserFails \/ SummariserReplaces
    \/ Forget \/ OptOut \/ OptIn
    \/ \E h \in TurnIds : Purge(h)
    \/ \E C \in SUBSET Channels : AccessChanges(C)

MemorySpec == MemoryInit /\ [][MemoryNext]_memoryVars
-----------------------------------------------------------------------------
MemoryTypeOK ==
    /\ readable \subseteq Channels /\ memoryOut \in BOOLEAN
    /\ stored \subseteq TurnIds /\ channelIds \in [TurnIds -> SUBSET Channels]
    /\ summaries \subseteq Summary /\ Cardinality(summaries) <= 1
    /\ \A a \in Asks : /\ question[a].at \in {"idle", "recalling", "answering", "writing"}
                       /\ question[a].shown \subseteq Channels
    /\ summarising.at \in {"idle", "scheduled", "condensing"}
    /\ nextTurn \in 1..(MaxTurns + 1) /\ horizon \in 0..MaxTurns

Drawn(R) == UNION {drew[i] : i \in R}

(* Every channel whose content a stored text may restate is among the       *)
(* channels it is withheld by, unless a deletion took the turn away from    *)
(* under the summariser: provenance is inherited through the memory shown   *)
(* to a run, and through a summary of summaries.                            *)
AccountedFor ==
    /\ \A i \in stored : Drawn(rests[i] \ lost) \subseteq channelIds[i]
    /\ \A s \in summaries : Drawn(Restated(s.of) \ lost) \subseteq s.ids

(* No model is shown, as a reminder or to condense, a text that restates a  *)
(* channel outside the scope the question is answered under, whatever was   *)
(* revoked since the text was stored.                                       *)
ShownIsReadable ==
    /\ \A a \in Asks : question[a].at = "answering" =>
          Drawn(question[a].rests \ lost) \subseteq question[a].scope
    /\ Drawn(Restated(summarising.of) \ lost) \subseteq summarising.scope

(* A summary that was being written when the person forgot, or opted out,   *)
(* does not bring back what was forgotten.                                  *)
ForgottenStaysForgotten == \A s \in summaries : s.of \cap forgotten = {}

(* Nothing stored condenses a turn past the retention window, however late  *)
(* the summary was written.                                                 *)
ExpiredIsGone == \A s \in summaries : \A i \in s.of \ lost : i > horizon

MemoryInv == AccountedFor /\ ShownIsReadable /\ ForgottenStaysForgotten /\ ExpiredIsGone
=============================================================================
