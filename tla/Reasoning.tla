------------------------------ MODULE Reasoning -----------------------------
(***************************************************************************)
(* One question, from its route to its reply.  The corpus comes first, by  *)
(* the fixed path (one line of enquiry) or by the loop (a plan of several);*)
(* a line retrieves, has the result judged and corrects its query, within  *)
(* a budget the lines share.  When what was found falls short, a second    *)
(* run with a ledger of its own may call one outside tool before it plans, *)
(* and its answer is taken only if it improves on the first.  A question   *)
(* that is for outside sources alone searches nothing.                     *)
(*                                                                         *)
(* The judge, the planner, the writer and the tools answer anything.  No   *)
(* condition is configured and no retrieval has a time range, so widening  *)
(* the time is never available and a cause is one of four.                 *)
(***************************************************************************)
EXTENDS Integers, Sequences, FiniteSets, SequencesExt

CONSTANTS
    Texts,          \* the lookups a plan or a reformulation can come up with
    Windows,        \* what the corpus holds for this asker
    Asked,          \* the text of the question, one of Texts
    MaxLines,       \* max_sub_questions
    FixedAttempts,  \* Budget.max_attempts of the fixed path
    LoopAttempts,   \* the same, of LOOP_BUDGET
    Widest          \* how often a result limit can be widened

ASSUME ReasoningAssumption ==
    /\ Asked \in Texts /\ IsFiniteSet(Texts) /\ IsFiniteSet(Windows)
    /\ {MaxLines, FixedAttempts, LoopAttempts} \subseteq Nat \ {0} /\ Widest \in Nat

VARIABLES
    stage,      \* what the question waits for
    federated,  \* this deployment has tools to call
    path,       \* the run in progress: fixed, loop, escalated or external
    run,        \* its ledgers and its cycle
    corpus,     \* what the run over the corpus came to
    reply,      \* what the asker is told
    sent        \* the runs that sent the question outside, and what they held then

reasoningVars == <<stage, federated, path, run, corpus, reply, sent>>

Outside == "outside"    \* what a tool returned
Query(t) == [text |-> t, limit |-> 0]

NewRun == [held |-> {}, noted |-> {}, attempts |-> 0, late |-> FALSE, lines |-> <<>>, planned |-> 0,
           query |-> Query(Asked), rounds |-> 0, results |-> <<>>, searched |-> FALSE]

NoOutcome == [status |-> "none", cause |-> "none", text |-> "none", partial |-> FALSE, cited |-> {},
              held |-> {}, lines |-> 0, planned |-> 0]
-----------------------------------------------------------------------------
Budget == IF path = "fixed" THEN FixedAttempts ELSE LoopAttempts

(* A mutant: one attempt too many.                                          *)
ExhaustedLate(r) == r.attempts > Budget \/ r.late

Exhausted(r) == r.attempts >= Budget \/ r.late

(* The clock or the tokens of a run may run out at any moment.              *)
TimeRunsOut ==
    /\ stage \notin {"asked", "answered"} /\ ~run.late
    /\ run' = [run EXCEPT !.late = TRUE]
    /\ UNCHANGED <<stage, federated, path, corpus, reply, sent>>

Begin(p, at, lines) ==
    /\ path' = p /\ stage' = at
    /\ run' = [NewRun EXCEPT !.lines = lines, !.planned = Len(lines)]

Tell(outcome) == stage' = "answered" /\ reply' = outcome

Refused == [NoOutcome EXCEPT !.status = "answered", !.text = "refused"]

(* Lexical routing.  What widens the agent's reach is refused, prices,      *)
(* wallets and web searches go outside only, and a follow-up goes to the    *)
(* loop.                                                                    *)
Route ==
    /\ stage = "asked"
    /\ \/ Begin("fixed", "searching", <<Asked>>) /\ UNCHANGED reply
       \/ Begin("loop", "planning", <<>>) /\ UNCHANGED reply
       \/ Begin("external", "offering", <<>>) /\ UNCHANGED reply
       \/ Tell(Refused) /\ UNCHANGED <<path, run>>
    /\ UNCHANGED <<federated, corpus, sent>>
-----------------------------------------------------------------------------
(* Outside.  At most one call, proposed while the run holds nothing.        *)
AfterCall == IF path = "external" THEN "writing" ELSE "planning"

Offer ==
    /\ stage = "offering"
    /\ \/ stage' = AfterCall                       \* no tool for this question
       \/ federated /\ ~Exhausted(run) /\ stage' = "proposing"
    /\ UNCHANGED <<federated, path, run, corpus, reply, sent>>

(* The model fails, wants none, or names one that was not offered; or names *)
(* one.                                                                     *)
ProposeAction ==
    /\ stage = "proposing" /\ stage' \in {AfterCall, "calling"}
    /\ UNCHANGED <<federated, path, run, corpus, reply, sent>>

Invoke ==
    /\ stage = "calling" /\ stage' = AfterCall
    /\ sent' = sent \cup {[path |-> path, held |-> run.held]}
    /\ \/ UNCHANGED run                            \* refused, failed or timed out
       \/ run' = [run EXCEPT !.held = @ \cup {Outside}]
    /\ UNCHANGED <<federated, path, corpus, reply>>

Plan ==
    /\ stage = "planning" /\ stage' = "searching"
    /\ \E n \in 1..MaxLines : \E lines \in [1..n -> Texts] :
          run' = [run EXCEPT !.lines = lines, !.planned = n, !.query = Query(lines[1])]
    /\ UNCHANGED <<federated, path, corpus, reply, sent>>
-----------------------------------------------------------------------------
(* What a run comes to.  Evidence found on any line makes it answerable; a  *)
(* result from outside undoes an abstention; lines that were not run are a  *)
(* budget that was exhausted.                                               *)
CausePrecedence == <<"sufficient", "exhausted", "no_progress", "empty">>

Combined(results) ==
    LET causes == {results[i].cause : i \in DOMAIN results}
        first  == CHOOSE i \in 1..4 : /\ CausePrecedence[i] \in causes
                                      /\ \A j \in 1..(i - 1) : CausePrecedence[j] \notin causes
    IN CausePrecedence[first]

Cause(r) == IF Len(r.results) < r.planned THEN "exhausted" ELSE Combined(r.results)

Abstains(r) == Outside \notin r.held /\ \A i \in DOMAIN r.results : r.results[i].abstained

Ended(r, status, cause, text, partial, cited) ==
    [status |-> status, cause |-> cause, text |-> text, partial |-> partial, cited |-> cited,
     held |-> r.held, lines |-> Len(r.results), planned |-> r.planned]

Abstention(r) == Ended(r, "abstained", "empty",
                       IF path = "external" THEN "nothing outside" ELSE "nothing found", FALSE, {})
Failure(r) == Ended(r, "failed", "dependency", "search failed", FALSE, {})

(* A failed run is no shortfall: an answer from the web would hide that     *)
(* retrieval was down.                                                      *)
FallsShort(outcome) ==
    \/ outcome.status = "abstained"
    \/ outcome.status = "answered" /\ outcome.cause # "sufficient"

ImprovesOn(original, escalated) ==
    /\ escalated.status = "answered"
    /\ original.status = "abstained" \/ Outside \in escalated.held

(* A mutant: a second run that falls short is followed by a third.          *)
EscalatesAgain(outcome) == path # "external" /\ FallsShort(outcome) /\ federated

Escalates(outcome) == path \in {"fixed", "loop"} /\ FallsShort(outcome) /\ federated

RunEnds(outcome) ==
    IF Escalates(outcome)
      THEN /\ corpus' = outcome /\ Begin("escalated", "offering", <<>>) /\ UNCHANGED reply
      ELSE /\ corpus' = IF path \in {"fixed", "loop"} THEN outcome ELSE corpus
           /\ Tell(IF path = "escalated" /\ ~ImprovesOn(corpus, outcome) THEN corpus ELSE outcome)
           /\ UNCHANGED <<path, run>>

(* The next line, unless the budget is spent; after the last, the answer.   *)
CycleEnds(r, cause, abstained) ==
    LET after == [r EXCEPT !.results = Append(@, [cause |-> cause, abstained |-> abstained])]
        more  == Len(after.results) < r.planned /\ ~Exhausted(after)
    IN IF more
         THEN /\ run' = [after EXCEPT !.query = Query(r.lines[Len(after.results) + 1]),
                                      !.rounds = 0]
              /\ stage' = "searching" /\ UNCHANGED <<path, corpus, reply>>
         ELSE IF after.held # {} /\ ~Abstains(after)
                THEN run' = after /\ stage' = "writing" /\ UNCHANGED <<path, corpus, reply>>
                ELSE RunEnds(Abstention(after))
-----------------------------------------------------------------------------
(* The corrective actions, in their order of preference.                    *)
Preferred(verdict) ==
    CASE verdict = "sufficient"   -> "answer"
      [] verdict = "partial"      -> "widen_results"
      [] verdict = "irrelevant"   -> "reformulate"
      [] verdict = "empty"        -> "widen_time_range"
      [] verdict = "unanswerable" -> "abstain"

Available(action, r) ==
    CASE action = "answer"           -> r.held # {}
      [] action = "reformulate"      -> r.attempts < Budget
      [] action = "widen_results"    -> r.attempts < Budget /\ r.query.limit < Widest
      [] action = "widen_time_range" -> FALSE
      [] action = "abstain"          -> TRUE

Decided(verdict, r) ==
    LET order == <<Preferred(verdict), "reformulate", "answer", "abstain">>
    IN order[CHOOSE i \in 1..4 : /\ Available(order[i], r)
                                 /\ \A j \in 1..(i - 1) : ~Available(order[j], r)]

AnswerCause(verdict, r) ==
    IF verdict = "sufficient" THEN "sufficient"
    ELSE IF Exhausted(r) THEN "exhausted" ELSE "no_progress"

Corrected(r, q) == run' = [r EXCEPT !.query = q, !.rounds = @ + 1] /\ stage' = "searching"

Decide(verdict, r) ==
    LET action == Decided(verdict, r)
    IN CASE action = "answer"  -> CycleEnds(r, AnswerCause(verdict, r), FALSE)
         [] action = "abstain" -> CycleEnds(r, "empty", TRUE)
         [] action = "widen_results" ->
               /\ Corrected(r, [r.query EXCEPT !.limit = @ + 1]) /\ UNCHANGED <<path, corpus, reply>>
         [] action = "reformulate" ->
               /\ \E t \in Texts : Corrected(r, [r.query EXCEPT !.text = t])
               /\ UNCHANGED <<path, corpus, reply>>

(* A cycle stops before it repeats a query of this run or spends past its   *)
(* budget.                                                                  *)
Noted(r) == [r EXCEPT !.noted = @ \cup {r.query}]

StopsBeforeRetrieval ==
    /\ stage = "searching"
    /\ \/ run.query \in run.noted /\ CycleEnds(run, "no_progress", FALSE)
       \/ run.query \notin run.noted /\ Exhausted(run) /\ CycleEnds(Noted(run), "exhausted", FALSE)
    /\ UNCHANGED <<federated, sent>>

Attempted(r) == [Noted(r) EXCEPT !.attempts = @ + 1]

SearchFails ==
    /\ stage = "searching" /\ run.query \notin run.noted /\ ~Exhausted(run)
    /\ RunEnds(Failure(Attempted(run)))
    /\ UNCHANGED <<federated, sent>>

(* A corrective round that brings nothing new has not moved.                *)
Retrieve(found) ==
    LET r == [Attempted(run) EXCEPT !.held = @ \cup found, !.searched = TRUE]
    IN /\ stage = "searching" /\ run.query \notin run.noted /\ ~Exhausted(run)
       /\ IF r.rounds > 0 /\ found \subseteq run.held THEN CycleEnds(r, "no_progress", FALSE)
          ELSE IF found = {} THEN Decide("empty", r)
          ELSE run' = r /\ stage' = "judging" /\ UNCHANGED <<path, corpus, reply>>
       /\ UNCHANGED <<federated, sent>>

Judge(verdict) ==
    /\ stage = "judging"
    /\ Decide(verdict, run)
    /\ UNCHANGED <<federated, sent>>

(* The writer cites what it likes; what the run does not hold is dropped,   *)
(* and an answer without a citation is not one.                             *)
Citations(named, r) == named \cap r.held

(* A mutant: lines that were never run are not looked at.                   *)
MarkedByResults(r) == path # "external" /\ Combined(r.results) # "sufficient"

Marked(r) == path # "external" /\ Cause(r) # "sufficient"

Write(named) ==
    /\ stage = "writing"
    /\ IF Citations(named, run) = {} THEN RunEnds(Abstention(run))
       ELSE RunEnds(Ended(run, "answered", IF path = "external" THEN "sufficient" ELSE Cause(run),
                          "found", Marked(run), Citations(named, run)))
    /\ UNCHANGED <<federated, sent>>

(* A model that raises ends the question; whatever was held is lost.        *)
ModelRaises ==
    /\ stage \in {"planning", "judging", "writing"}
    /\ Tell([NoOutcome EXCEPT !.status = "raised"])
    /\ UNCHANGED <<federated, path, run, corpus, sent>>
-----------------------------------------------------------------------------
ReasoningInit ==
    /\ stage = "asked" /\ federated \in BOOLEAN /\ path = "none" /\ run = NewRun
    /\ corpus = NoOutcome /\ reply = NoOutcome /\ sent = {}

Verdicts == {"sufficient", "partial", "irrelevant", "unanswerable"}
Citable == Windows \cup {Outside, "unheld"}

ReasoningNext ==
    \/ Route \/ Offer \/ ProposeAction \/ Invoke \/ Plan
    \/ StopsBeforeRetrieval \/ SearchFails \/ ModelRaises \/ TimeRunsOut
    \/ \E found \in SUBSET Windows : Retrieve(found)
    \/ \E verdict \in Verdicts : Judge(verdict)
    \/ \E named \in SUBSET Citable : Write(named)

ReasoningSpec == ReasoningInit /\ [][ReasoningNext]_reasoningVars /\ WF_reasoningVars(ReasoningNext)
-----------------------------------------------------------------------------
ReasoningTypeOK ==
    /\ stage \in {"asked", "offering", "proposing", "calling", "planning", "searching", "judging",
                  "writing", "answered"}
    /\ path \in {"none", "fixed", "loop", "escalated", "external"} /\ federated \in BOOLEAN
    /\ run.held \subseteq Windows \cup {Outside} /\ run.query.text \in Texts
    /\ run.attempts \in 0..Budget /\ run.query.limit \in 0..Widest

(* A question about the team's conversations goes outside only after the    *)
(* corpus was searched for it and fell short, never when the search failed, *)
(* and never with anything that was read.                                   *)
CorpusFirst ==
    \A s \in sent : /\ s.held = {}
                    /\ s.path = "escalated" => FallsShort(corpus)
                    /\ s.path \in {"escalated", "external"}

(* An answer that is not marked partial rests on evidence judged sufficient *)
(* and on every line of the plan; one that is cites what its run held.      *)
PartialIsSaid ==
    (reply.status = "answered" /\ reply.text = "found") =>
        /\ reply.cited # {} /\ reply.cited \subseteq reply.held
        /\ ~reply.partial => reply.cause = "sufficient" /\ reply.lines = reply.planned

(* The second run never costs the asker the answer of the first.            *)
NeverWorse ==
    (stage = "answered" /\ corpus.status = "answered" /\ reply.status # "raised") =>
        reply.status = "answered" /\ (reply = corpus \/ Outside \in reply.held)

(* "I found nothing" is said by a run that searched, or ran out of time: an *)
(* index that did not answer is told as such.                               *)
NothingFoundIsMeant ==
    /\ reply.text = "nothing found" => corpus.status = "abstained"
    /\ corpus.status = "failed" => reply = corpus

ReasoningInv == CorpusFirst /\ PartialIsSaid /\ NeverWorse /\ NothingFoundIsMeant

(* Every question is answered, whatever models, index and tools do.         *)
EveryQuestionAnswered == <>(stage = "answered")
=============================================================================
