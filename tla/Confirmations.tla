---------------------------- MODULE Confirmations -----------------------------
(***************************************************************************)
(* How a run calls a tool that changes something elsewhere: the invoker's  *)
(* gate refuses and proposes, the desk puts the proposal to the person who *)
(* asked, their answer goes into the ledger, and the run tries the gate    *)
(* again.  The ledger keeps one answer for a person and a tool, and the    *)
(* person may have several questions under way: what they say to one run   *)
(* is what the gate reads for all.                                         *)
(*                                                                         *)
(* Abstractions.  The runs are one person's and call one tool; arguments   *)
(* are what their digest tells apart.  All of it is in the memory of the   *)
(* bot, and a restart is the initial state again.                          *)
(***************************************************************************)
EXTENDS Integers, FiniteSets

CONSTANTS
    Runs,
    Arguments,
    Rounds       \* DEFAULT_CONFIRMATION_ROUNDS

ASSUME ConfirmationsAssumption == Rounds \in Nat

NoAnswer == [args |-> "none", granted |-> FALSE, fresh |-> FALSE]

VARIABLES
    answer,   \* ConfirmationLedger._responses for the person and the tool
    attempt,  \* with_confirmation of each run
    wanted,   \* the arguments it calls the tool with
    asked,    \* the rounds each has spent
    prompt,   \* what the person sees of its latest prompt
    lastWord, \* the last answer recorded (auxiliary)
    approved, \* approvals recorded for each arguments (auxiliary)
    called    \* calls made with them (auxiliary)

ledgerVars == <<lastWord, approved>>
confirmationVars == <<answer, attempt, wanted, asked, prompt, ledgerVars, called>>

ConfirmationsInit ==
    /\ answer = NoAnswer
    /\ attempt = [r \in Runs |-> "none"] /\ wanted = [r \in Runs |-> "none"]
    /\ asked = [r \in Runs |-> 0]
    /\ prompt = [r \in Runs |-> "none"]
    /\ lastWord = NoAnswer
    /\ approved = [a \in Arguments |-> 0] /\ called = [a \in Arguments |-> 0]

----------------------------------------------------------------------------
(* The gate *)

(* The run's model asks for the tool.                                       *)
WantTool(r, args) ==
    /\ attempt[r] = "none" /\ attempt' = [attempt EXCEPT ![r] = "gate"]
    /\ wanted' = [wanted EXCEPT ![r] = args]
    /\ UNCHANGED <<answer, asked, prompt, ledgerVars, called>>

(* A mutant: a yes to other arguments is close enough.                      *)
StateForAnything(r) ==
    IF answer = NoAnswer THEN "absent" ELSE IF ~answer.granted THEN "declined"
    ELSE IF ~answer.fresh THEN "expired" ELSE "granted"

(* state_for.                                                               *)
StateFor(r) ==
    IF answer = NoAnswer THEN "absent" ELSE IF ~answer.granted THEN "declined"
    ELSE IF answer.args # wanted[r] THEN "changed"
    ELSE IF ~answer.fresh THEN "expired" ELSE "granted"

(* authorize: the answer is read, and is not looked at again.               *)
PassGate(r) ==
    /\ attempt[r] = "gate" /\ StateFor(r) = "granted"
    /\ attempt' = [attempt EXCEPT ![r] = "passed"]
    /\ UNCHANGED <<wanted, answer, asked, prompt, ledgerVars, called>>

(* The person's key has come, if the tool takes one: the call is on its     *)
(* way, and the approval is spent when it comes back.                       *)
BeginCall(r) ==
    /\ attempt[r] = "passed" /\ attempt' = [attempt EXCEPT ![r] = "calling"]
    /\ called' = [called EXCEPT ![wanted[r]] = @ + 1]
    /\ UNCHANGED <<wanted, answer, asked, prompt, ledgerVars>>

(* The egress guard refuses, or the person has no key: spent all the same.  *)
RefuseApproved(r) ==
    /\ attempt[r] = "passed"
    /\ answer' = NoAnswer /\ attempt' = [attempt EXCEPT ![r] = "over"]
    /\ UNCHANGED <<wanted, asked, prompt, ledgerVars, called>>

(* A mutant: a call that failed leaves the approval.                        *)
EndCallSparing(r) ==
    /\ attempt[r] = "calling" /\ answer' \in {NoAnswer, answer}
    /\ attempt' = [attempt EXCEPT ![r] = "over"]
    /\ UNCHANGED <<wanted, asked, prompt, ledgerVars, called>>

(* The call succeeded, failed or timed out.                                 *)
EndCall(r) ==
    /\ attempt[r] = "calling" /\ answer' = NoAnswer
    /\ attempt' = [attempt EXCEPT ![r] = "over"]
    /\ UNCHANGED <<wanted, asked, prompt, ledgerVars, called>>

(* What a person can resolve is proposed, which takes back any answer; it   *)
(* is put to them while the run has rounds left.                            *)
ProposeCall(r) ==
    /\ attempt[r] = "gate" /\ StateFor(r) \in {"absent", "changed", "expired"}
    /\ answer' = NoAnswer
    /\ IF asked[r] < Rounds
       THEN /\ attempt' = [attempt EXCEPT ![r] = "asking"]
            /\ asked' = [asked EXCEPT ![r] = @ + 1]
            /\ prompt' = [prompt EXCEPT ![r] = "sending"]
       ELSE /\ attempt' = [attempt EXCEPT ![r] = "over"] /\ UNCHANGED <<asked, prompt>>
    /\ UNCHANGED <<wanted, ledgerVars, called>>

(* A decline stands, whatever it was a decline of.                          *)
RefuseDeclined(r) ==
    /\ attempt[r] = "gate" /\ StateFor(r) = "declined"
    /\ attempt' = [attempt EXCEPT ![r] = "over"]
    /\ UNCHANGED <<wanted, answer, asked, prompt, ledgerVars, called>>

----------------------------------------------------------------------------
(* The desk and the person *)

Deliver(r) ==
    /\ attempt[r] = "asking" /\ prompt[r] = "sending"
    /\ prompt' = [prompt EXCEPT ![r] = "open"]
    /\ UNCHANGED <<wanted, answer, attempt, asked, ledgerVars, called>>

Undeliverable(r) ==
    /\ attempt[r] = "asking" /\ prompt[r] = "sending"
    /\ attempt' = [attempt EXCEPT ![r] = "over"] /\ prompt' = [prompt EXCEPT ![r] = "gone"]
    /\ UNCHANGED <<wanted, answer, asked, ledgerVars, called>>

(* The person presses a button and is told "Approved" or "Declined".        *)
Press(r, told) ==
    /\ prompt[r] = "open" /\ told \in {"approved", "declined"}
    /\ prompt' = [prompt EXCEPT ![r] = told]
    /\ UNCHANGED <<wanted, answer, attempt, asked, ledgerVars, called>>

(* A mutant: a decline is left unrecorded.                                  *)
RecordApprovals(r) ==
    LET said == [args |-> wanted[r], granted |-> prompt[r] = "approved", fresh |-> TRUE] IN
    /\ attempt[r] = "asking" /\ prompt[r] \in {"approved", "declined"}
    /\ answer' = IF said.granted THEN said ELSE answer
    /\ lastWord' = said
    /\ approved' = [approved EXCEPT ![wanted[r]] = @ + IF said.granted THEN 1 ELSE 0]
    /\ attempt' = [attempt EXCEPT ![r] = IF said.granted THEN "gate" ELSE "over"]
    /\ UNCHANGED <<wanted, asked, prompt, called>>

(* The answer is recorded, yes or no, and a yes tries the gate again.       *)
Record(r) ==
    LET said == [args |-> wanted[r], granted |-> prompt[r] = "approved", fresh |-> TRUE] IN
    /\ attempt[r] = "asking" /\ prompt[r] \in {"approved", "declined"}
    /\ answer' = said
    /\ lastWord' = said
    /\ approved' = [approved EXCEPT ![wanted[r]] = @ + IF said.granted THEN 1 ELSE 0]
    /\ attempt' = [attempt EXCEPT ![r] = IF said.granted THEN "gate" ELSE "over"]
    /\ UNCHANGED <<wanted, asked, prompt, called>>

(* The desk's window runs from before the prompt is sent, and the view's    *)
(* from after: the desk's is over first, and cancels the view's wait before *)
(* it could close the prompt.                                               *)
DeskDeadline(r) ==
    /\ attempt[r] = "asking"
    /\ attempt' = [attempt EXCEPT ![r] = "over"]
    /\ prompt' = [prompt EXCEPT ![r] = IF @ = "sending" THEN "gone" ELSE @]
    /\ UNCHANGED <<wanted, answer, asked, ledgerVars, called>>

(* discord.py stops listening to the view when its own timeout is over.     *)
ViewTimesOut(r) ==
    /\ attempt[r] # "asking" /\ prompt[r] = "open"
    /\ prompt' = [prompt EXCEPT ![r] = "gone"]
    /\ UNCHANGED <<wanted, answer, attempt, asked, ledgerVars, called>>

(* The ledger's window passes over an answer.                               *)
AnswerAges ==
    /\ answer.granted /\ answer.fresh /\ answer' = [answer EXCEPT !.fresh = FALSE]
    /\ UNCHANGED <<wanted, attempt, asked, prompt, ledgerVars, called>>

----------------------------------------------------------------------------
GateStep(r) ==
    \/ PassGate(r) \/ BeginCall(r) \/ RefuseApproved(r) \/ EndCall(r)
    \/ ProposeCall(r) \/ RefuseDeclined(r)
DeskStep(r) == Record(r) \/ DeskDeadline(r)
PersonStep(r) == Deliver(r) \/ Undeliverable(r) \/ \E told \in {"approved", "declined"} : Press(r, told)

ConfirmationsNext ==
    \/ \E r \in Runs, args \in Arguments : WantTool(r, args)
    \/ \E r \in Runs : GateStep(r) \/ DeskStep(r) \/ PersonStep(r) \/ ViewTimesOut(r)
    \/ AnswerAges

ConfirmationsSpec == ConfirmationsInit /\ [][ConfirmationsNext]_confirmationVars

----------------------------------------------------------------------------
ConfirmationsTypeOK ==
    /\ answer.granted \in BOOLEAN /\ answer.fresh \in BOOLEAN
    /\ \A r \in Runs :
        /\ attempt[r] \in {"none", "gate", "asking", "passed", "calling", "over"}
        /\ prompt[r] \in {"none", "sending", "open", "approved", "declined", "gone"}
        /\ asked[r] \in 0..Rounds

(* A call sets out only on the person's last word: of all they answered, to *)
(* any run, the latest when the gate was passed was a yes to exactly these  *)
(* arguments, and no call is made but past the gate.  A no that is given    *)
(* while the key is fetched comes too late.                                 *)
CallsOnTheLastWord ==
    [][\A r \in Runs :
          /\ attempt[r] # "passed" /\ attempt'[r] = "passed" =>
                lastWord.granted /\ lastWord.args = wanted[r]
          /\ attempt[r] # "calling" /\ attempt'[r] = "calling" => attempt[r] = "passed"]_confirmationVars

(* With no run under way no yes is left in the ledger, which a later call   *)
(* could spend without asking anyone.                                       *)
NoYesLeftOver ==
    (\A r \in Runs : attempt[r] \in {"none", "over"}) => ~answer.granted

(* Every run ends (each begins once), whatever the person and their client  *)
(* do.                                                                      *)
RunsEnd == []<>(\A r \in Runs : attempt[r] \in {"none", "over"})

(* "One approval authorises one call": no arguments are called with more    *)
(* often than they were approved.                                           *)
OneCallPerApproval == \A a \in Arguments : called[a] <= approved[a]
=============================================================================
