------------------------------ MODULE MCAnswers ------------------------------
(***************************************************************************)
(* A question and what it may draw on: how a spoken one is heard, how it   *)
(* goes from its route to its reply, what the asker is reminded of, and    *)
(* what a cached permission still admits.  The memory takes the scope of   *)
(* its question as given, the run takes what the corpus holds for it, and  *)
(* a recording ends as a text, so the four share no row; one turns at a    *)
(* time, and TLC checks the sum of their states.                           *)
(***************************************************************************)
EXTENDS Memory, Audience, Reasoning, Voice

CONSTANTS a1, a2, n1, n2, s1

VARIABLE turn

(* Two disturbances of a conversation of three turns, asked in by one       *)
(* question at a time; one where two are in progress, or where more turns   *)
(* are begun, by one question at a time, so that a summary is summarised.   *)
Disturbed == memoryCounts'.access + memoryCounts'.forgets + memoryCounts'.purges
             + memoryCounts'.misses
TurnsBegun == nextTurn - 1 + Cardinality(InProgress \ Writing)
FewDisturbances ==
    /\ Disturbed <= 2
    /\ question'[a2].at # "idle" => Disturbed <= 1
    /\ TurnsBegun' > 3 => Disturbed <= 1 /\ question'[a2].at = "idle"

(* One disturbance of the hearing of two recordings, the first of which     *)
(* arrives first, from the one speaker who may have a row already.          *)
HearingDisturbed ==
    voiceCounts'.ticks + voiceCounts'.stops + (month' - 1) + Cardinality(unwilling')
    + MapThenSumSet(LAMBDA p : voiceCounts'.folds[p], Speakers)
HearingInOrder == note'[n2] # NoNote => note[n1] # NoNote

AnswersInit ==
    /\ turn \in {"remembering", "admitting", "reasoning", "hearing"}
    /\ MemoryInit /\ AudienceInit /\ ReasoningInit /\ VoiceInit
    /\ linked \subseteq IF turn = "hearing" THEN {s1} ELSE {}
    /\ turn # "admitting" => process = "bot"
    /\ turn # "reasoning" => ~federated

RememberingTurn ==
    /\ turn = "remembering" /\ MemoryNext /\ FewDisturbances
    /\ UNCHANGED <<audienceVars, reasoningVars, voiceVars, turn>>

AdmittingTurn ==
    /\ turn = "admitting" /\ AudienceNext
    /\ UNCHANGED <<memoryVars, reasoningVars, voiceVars, turn>>

ReasoningTurn ==
    /\ turn = "reasoning" /\ ReasoningNext
    /\ UNCHANGED <<memoryVars, audienceVars, voiceVars, turn>>

HearingTurn ==
    /\ turn = "hearing" /\ VoiceNext /\ HearingDisturbed <= 1 /\ HearingInOrder
    /\ UNCHANGED <<memoryVars, audienceVars, reasoningVars, turn>>

AnswersNext == RememberingTurn \/ AdmittingTurn \/ ReasoningTurn \/ HearingTurn

(* A run goes on, and so does the hearing of a recording: each of their     *)
(* waits ends, with an answer or without.                                   *)
AnswersSpec ==
    /\ AnswersInit /\ [][AnswersNext]_<<memoryVars, audienceVars, reasoningVars, voiceVars, turn>>
    /\ WF_reasoningVars(turn = "reasoning" /\ ReasoningNext)
    /\ WF_voiceVars(turn = "hearing" /\ Hearing)
-----------------------------------------------------------------------------
(* The four keep their types.                                               *)
AnswersTypeOK == MemoryTypeOK /\ AudienceTypeOK /\ ReasoningTypeOK /\ VoiceTypeOK

(* Every question is answered, typed or spoken, whatever models, index,     *)
(* ledger and tools do.                                                     *)
QuestionsAnswered ==
    /\ turn = "reasoning" => EveryQuestionAnswered
    /\ turn = "hearing" => EveryVoiceAnswered
=============================================================================
