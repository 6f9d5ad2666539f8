----------------------------- MODULE ToolsProofs ------------------------------
(***************************************************************************)
(* Theorems about the doors: what a tool may be called with (Confirmations *)
(* and Federation), whom a session lets in (Sessions), what a link rests   *)
(* on (AccountLinks), and the composition of these with Erasure, for any   *)
(* number of runs, calls, people, keys, tokens, requests and codes.        *)
(***************************************************************************)
EXTENDS MCDoors, ErasureProofs, FiniteSetTheorems, SequenceTheorems, TLAPS

-----------------------------------------------------------------------------
(* Confirmations *)

Answers == [args : Arguments \cup {"none"}, granted : BOOLEAN, fresh : BOOLEAN]

ConfirmationsTypes ==
    /\ answer \in Answers /\ lastWord \in Answers
    /\ attempt \in [Runs -> {"none", "gate", "asking", "passed", "calling", "over"}]
    /\ wanted \in [Runs -> Arguments \cup {"none"}]
    /\ asked \in [Runs -> 0..Rounds]
    /\ prompt \in [Runs -> {"none", "sending", "open", "approved", "declined", "gone"}]

(* A run holds arguments from the moment its model wants the tool.          *)
WantedIsNamed == \A r \in Runs : attempt[r] # "none" => wanted[r] \in Arguments

(* A yes in the ledger is the person's last word.                           *)
YesIsLastWord == answer.granted => lastWord.granted /\ lastWord.args = answer.args

(* And some run is on its way to spend it: the one that recorded it comes   *)
(* back to the gate, and from there to no other place without spending it.  *)
YesIsAwaited == answer.granted => \E r \in Runs : attempt[r] \in {"gate", "passed", "calling"}

ConfirmationsIInv == ConfirmationsTypes /\ WantedIsNamed /\ YesIsLastWord /\ YesIsAwaited

LEMMA ConfirmationsIInvInit == ConfirmationsInit => ConfirmationsIInv
BY ConfirmationsAssumption
DEF ConfirmationsInit, ConfirmationsIInv, ConfirmationsTypes, WantedIsNamed, YesIsLastWord,
    YesIsAwaited, NoAnswer, Answers

LEMMA ConfirmationsTypesStep ==
    ASSUME ConfirmationsIInv, ConfirmationsNext
    PROVE  ConfirmationsTypes' /\ WantedIsNamed'
<1> USE ConfirmationsAssumption
    DEF ConfirmationsIInv, ConfirmationsTypes, WantedIsNamed, NoAnswer, Answers, ledgerVars
<1>1. ASSUME NEW r \in Runs, NEW args \in Arguments, WantTool(r, args)
      PROVE  ConfirmationsTypes' /\ WantedIsNamed'
  BY <1>1 DEF WantTool
<1>2. ASSUME NEW r \in Runs, GateStep(r)
      PROVE  ConfirmationsTypes' /\ WantedIsNamed'
  <2>1. CASE PassGate(r) \/ BeginCall(r)
    BY <2>1 DEF PassGate, BeginCall
  <2>2. CASE RefuseApproved(r)
    BY <2>2 DEF RefuseApproved
  <2>3. CASE EndCall(r)
    BY <2>3 DEF EndCall
  <2>4. CASE ProposeCall(r)
    BY <2>4 DEF ProposeCall
  <2>5. CASE RefuseDeclined(r)
    BY <2>5 DEF RefuseDeclined
  <2>6. QED
    BY <1>2, <2>1, <2>2, <2>3, <2>4, <2>5 DEF GateStep
<1>3. ASSUME NEW r \in Runs, DeskStep(r)
      PROVE  ConfirmationsTypes' /\ WantedIsNamed'
  <2>1. CASE Record(r)
    BY <2>1 DEF Record
  <2>2. CASE DeskDeadline(r)
    BY <2>2 DEF DeskDeadline
  <2>3. QED
    BY <1>3, <2>1, <2>2 DEF DeskStep
<1>4. ASSUME NEW r \in Runs, PersonStep(r) \/ ViewTimesOut(r)
      PROVE  ConfirmationsTypes' /\ WantedIsNamed'
  BY <1>4 DEF PersonStep, Deliver, Undeliverable, Press, ViewTimesOut
<1>5. CASE AnswerAges
  BY <1>5 DEF AnswerAges
<1>6. QED
  BY <1>1, <1>2, <1>3, <1>4, <1>5 DEF ConfirmationsNext

(* What a yes in the ledger says of the last word and of the runs: only a   *)
(* recorded yes puts one there, and whoever leaves the gate takes it along. *)
LEMMA YesStep ==
    ASSUME ConfirmationsIInv, ConfirmationsNext
    PROVE  YesIsLastWord' /\ YesIsAwaited'
<1> USE DEF ConfirmationsIInv, ConfirmationsTypes, YesIsLastWord, YesIsAwaited, NoAnswer,
            Answers, ledgerVars
<1>1. ASSUME NEW r \in Runs, NEW args \in Arguments, WantTool(r, args)
      PROVE  YesIsLastWord' /\ YesIsAwaited'
  BY <1>1 DEF WantTool
<1>2. ASSUME NEW r \in Runs, GateStep(r)
      PROVE  YesIsLastWord' /\ YesIsAwaited'
  <2>1. CASE PassGate(r) \/ BeginCall(r)
    BY <2>1 DEF PassGate, BeginCall
  <2>2. CASE RefuseApproved(r) \/ EndCall(r) \/ ProposeCall(r)
    <3>1. ~answer'.granted
      BY <2>2 DEF RefuseApproved, EndCall, ProposeCall
    <3>2. QED
      BY <3>1
  <2>3. CASE RefuseDeclined(r)
    <3>1. ~answer.granted
      BY <2>3 DEF RefuseDeclined, StateFor
    <3>2. QED
      BY <2>3, <3>1 DEF RefuseDeclined
  <2>4. QED
    BY <1>2, <2>1, <2>2, <2>3 DEF GateStep
<1>3. ASSUME NEW r \in Runs, DeskStep(r)
      PROVE  YesIsLastWord' /\ YesIsAwaited'
  <2>1. CASE Record(r)
    BY <2>1 DEF Record
  <2>2. CASE DeskDeadline(r)
    BY <2>2 DEF DeskDeadline
  <2>3. QED
    BY <1>3, <2>1, <2>2 DEF DeskStep
<1>4. ASSUME NEW r \in Runs, PersonStep(r) \/ ViewTimesOut(r)
      PROVE  YesIsLastWord' /\ YesIsAwaited'
  BY <1>4 DEF PersonStep, Deliver, Undeliverable, Press, ViewTimesOut
<1>5. CASE AnswerAges
  BY <1>5 DEF AnswerAges
<1>6. QED
  BY <1>1, <1>2, <1>3, <1>4, <1>5 DEF ConfirmationsNext

LEMMA ConfirmationsInvariant == ConfirmationsSpec => []ConfirmationsIInv
<1>1. ConfirmationsIInv /\ UNCHANGED confirmationVars => ConfirmationsIInv'
  BY DEF ConfirmationsIInv, ConfirmationsTypes, WantedIsNamed, YesIsLastWord, YesIsAwaited,
         confirmationVars, ledgerVars
<1>2. ConfirmationsIInv /\ ConfirmationsNext => ConfirmationsIInv'
  BY ConfirmationsTypesStep, YesStep DEF ConfirmationsIInv
<1>3. QED
  BY ConfirmationsIInvInit, <1>1, <1>2, PTL DEF ConfirmationsSpec

(* No yes is left in the ledger with no run under way                       *)
(* (ConfirmationLedger.spend, propose).                                     *)
THEOREM YesIsSpent == ConfirmationsSpec => []NoYesLeftOver
<1>1. ConfirmationsIInv => NoYesLeftOver
  BY DEF ConfirmationsIInv, ConfirmationsTypes, Answers, YesIsAwaited, NoYesLeftOver
<1>2. QED
  BY ConfirmationsInvariant, <1>1, PTL

(* A call sets out only when the last thing the person said, to any run of  *)
(* theirs, was a yes to exactly its arguments, and is made only from there  *)
(* (authorize, state_for, with_confirmation).                               *)
THEOREM LastWordDecides == ConfirmationsSpec => CallsOnTheLastWord
<1> DEFINE Decided == \A r \in Runs :
               /\ attempt[r] # "passed" /\ attempt'[r] = "passed" =>
                     lastWord.granted /\ lastWord.args = wanted[r]
               /\ attempt[r] # "calling" /\ attempt'[r] = "calling" => attempt[r] = "passed"
<1>1. ASSUME ConfirmationsIInv, ConfirmationsNext
      PROVE  Decided
  <2> USE DEF ConfirmationsIInv, ConfirmationsTypes
  <2>1. ASSUME NEW r \in Runs, attempt[r] # attempt'[r], attempt'[r] \in {"passed", "calling"}
        PROVE  PassGate(r) \/ BeginCall(r)
    <3>1. ASSUME NEW q \in Runs, NEW args \in Arguments, WantTool(q, args)
          PROVE  FALSE
      BY <1>1, <2>1, <3>1 DEF WantTool
    <3>2. ASSUME NEW q \in Runs, GateStep(q)
          PROVE  PassGate(r) \/ BeginCall(r)
      BY <1>1, <2>1, <3>2
      DEF GateStep, PassGate, BeginCall, RefuseApproved, EndCall, ProposeCall, RefuseDeclined
    <3>3. ASSUME NEW q \in Runs, DeskStep(q) \/ PersonStep(q) \/ ViewTimesOut(q)
          PROVE  FALSE
      BY <1>1, <2>1, <3>3
      DEF DeskStep, Record, DeskDeadline, PersonStep, Deliver, Undeliverable, Press, ViewTimesOut
    <3>4. ~AnswerAges
      BY <2>1 DEF AnswerAges
    <3>5. QED
      BY <1>1, <3>1, <3>2, <3>3, <3>4 DEF ConfirmationsNext
  <2>2. ASSUME NEW r \in Runs, PassGate(r)
        PROVE  lastWord.granted /\ lastWord.args = wanted[r]
    <3>1. answer.granted /\ answer.args = wanted[r]
      BY <2>2 DEF PassGate, StateFor
    <3>2. QED
      BY <1>1, <3>1 DEF YesIsLastWord
  <2>3. ASSUME NEW r \in Runs, attempt[r] # "passed", attempt'[r] = "passed"
        PROVE  lastWord.granted /\ lastWord.args = wanted[r]
    <3>1. PassGate(r)
      BY <1>1, <2>1, <2>3 DEF BeginCall
    <3>2. QED
      BY <2>2, <3>1
  <2>4. ASSUME NEW r \in Runs, attempt[r] # "calling", attempt'[r] = "calling"
        PROVE  attempt[r] = "passed"
    BY <1>1, <2>1, <2>4 DEF BeginCall, PassGate
  <2>5. QED
    BY <2>3, <2>4
<1>2. ConfirmationsIInv /\ [ConfirmationsNext]_confirmationVars => [Decided]_confirmationVars
  BY <1>1
<1>3. QED
  BY ConfirmationsInvariant, <1>2, PTL DEF ConfirmationsSpec, CallsOnTheLastWord


-----------------------------------------------------------------------------
(* Federation *)

CallStates == {"idle", "key", "keyed", "shared", "over"}
Outcomes == {"none", "refused", "unavailable", "no key", "key rejected", "withheld",
             "own data", "data", "tool error", "timeout"}
CallRecord == [at : CallStates, tool : Tools \cup {"none"}, who : People \cup {Nobody},
               direct : BOOLEAN, key : Nat, outcome : Outcomes]
PostRecord == [at : {"none", "wants", "minting", "sent", "failed", "done"}, token : Nat,
               sends : 0..2]

FederationTypes ==
    /\ offered \in SUBSET Tools
    /\ lost \in Calls \cup {Nobody} /\ lock \in Calls \cup {Nobody}
    /\ call \in [Calls -> CallRecord] /\ post \in [Calls -> PostRecord]
    /\ token \in 0..MaxTokens /\ minted \in 0..MaxTokens /\ ages \in Nat
    /\ aged \in BOOLEAN
    /\ keyOf \in [People -> Nat] /\ connected \in Seq(People)

(* What a call holds at each of its places: a personal tool's is in its     *)
(* asker's DM, and goes with a key that asker connected; the shared         *)
(* connection, and the request behind it, are for other tools.              *)
Holds(c) ==
    /\ call[c].at = "idle" => post[c].at = "none"
    /\ call[c].at \in {"key", "keyed"} => call[c].direct /\ call[c].who \in People
    /\ call[c].at = "keyed" =>
          call[c].key \in 1..Len(connected) /\ connected[call[c].key] = call[c].who
    /\ call[c].at = "shared" => call[c].tool \notin Personal
    /\ post[c].at # "none" => call[c].tool \notin Personal
    /\ call[c].outcome = "own data" => call[c].direct

CallsHold == \A c \in Calls : Holds(c)

KeysAreTheirs ==
    \A p \in People : keyOf[p] # 0 =>
        keyOf[p] \in 1..Len(connected) /\ connected[keyOf[p]] = p

(* The call that marked the server lost is over, and was told so.           *)
LostByCall ==
    lost # Nobody => /\ call[lost].at = "over" /\ call[lost].outcome = "unavailable"
                     /\ call[lost].tool \notin Personal

(* The lock is held by the one request that mints, and only while there is  *)
(* no token to use; a request is sent once, and once more after a refusal.  *)
LockIsMinting ==
    /\ \A c \in Calls : post[c].at = "minting" <=> lock = c
    /\ \A c \in Calls : post[c].at = "minting" => token = 0 \/ aged
    /\ \A c \in Calls : post[c].at \in {"wants", "minting"} => post[c].sends \in 0..1

(* What pays for the next token: once the cached one has aged or was        *)
(* dropped, as many tokens aged or were refused as were issued.             *)
TokensArePaidFor ==
    /\ token \in {0, minted}
    /\ \E n \in 0..minted :
          /\ refused = 1..n
          /\ minted <= ages + n + 1
          /\ token = 0 \/ aged => minted <= ages + n

FederationIInv ==
    /\ FederationTypes /\ CallsHold /\ KeysAreTheirs /\ LostByCall /\ LockIsMinting
    /\ TokensArePaidFor

LEMMA FederationNumbers ==
    MaxKeys \in Nat /\ MaxTokens \in Nat \ {0} /\ Nobody \notin Calls /\ Nobody \notin People
BY FederationAssumption DEF FederationAssumption

LEMMA FederationIInvInit == FederationInit => FederationIInv
<1> SUFFICES ASSUME FederationInit PROVE FederationIInv
  OBVIOUS
<1> USE FederationNumbers
<1>1. FederationTypes
  <2>1. offered \in SUBSET Tools /\ minted \in {0, 1} /\ token = minted
    BY DEF FederationInit, Registered
  <2>2. NotAsked \in CallRecord /\ NotPosted \in PostRecord
    BY DEF NotAsked, NotPosted, CallRecord, PostRecord, CallStates, Outcomes
  <2>3. connected \in Seq(People) /\ keyOf \in [People -> Nat]
    BY DEF FederationInit
  <2>4. call \in [Calls -> CallRecord] /\ post \in [Calls -> PostRecord]
    BY <2>2 DEF FederationInit
  <2>5. minted \in 0..MaxTokens /\ token \in 0..MaxTokens /\ ages \in Nat
    BY <2>1 DEF FederationInit
  <2>6. QED
    BY <2>1, <2>3, <2>4, <2>5 DEF FederationInit, FederationTypes
<1>2. CallsHold /\ KeysAreTheirs /\ LostByCall /\ LockIsMinting
  BY DEF FederationInit, CallsHold, Holds, KeysAreTheirs, LostByCall, LockIsMinting, NotAsked, NotPosted
<1>3. TokensArePaidFor
  <2>1. minted \in {0, 1} /\ token = minted /\ ages = 0 /\ refused = 1..0 /\ aged = FALSE
    BY DEF FederationInit
  <2>2. QED
    BY <2>1 DEF TokensArePaidFor
<1>4. QED
  BY <1>1, <1>2, <1>3 DEF FederationIInv

(* Invoke, taken apart.                                                     *)
Begun(p, tool, direct, at, outcome) ==
    [at |-> at, tool |-> tool, who |-> p, direct |-> direct, key |-> 0, outcome |-> outcome]

LEMMA InvokeCases ==
    ASSUME NEW c \in Calls, NEW p, NEW tool \in Tools, NEW direct \in BOOLEAN,
           Invoke(c, p, tool, direct)
    PROVE  \/ /\ tool \in Personal /\ ~direct /\ UNCHANGED post
              /\ call' = [call EXCEPT ![c] = Begun(p, tool, direct, "over", "refused")]
           \/ /\ tool \in Personal /\ direct /\ UNCHANGED post
              /\ call' = [call EXCEPT ![c] = Begun(p, tool, direct, "key", "none")]
           \/ /\ tool \notin Personal /\ lost # Nobody /\ UNCHANGED post
              /\ call' = [call EXCEPT ![c] = Begun(p, tool, direct, "over", "unavailable")]
           \/ /\ tool \notin Personal /\ lost = Nobody
              /\ call' = [call EXCEPT ![c] = Begun(p, tool, direct, "shared", "none")]
              /\ post' = [post EXCEPT ![c] = [NotPosted EXCEPT !.at = "wants"]]
BY ZenonT(60) DEF Invoke, Begun, NotAsked

LEMMA InvokedAt ==
    ASSUME FederationTypes, NEW c \in Calls, NEW p \in People, NEW tool \in Tools,
           NEW direct \in BOOLEAN, Invoke(c, p, tool, direct)
    PROVE  /\ \A d \in Calls : d # c => call'[d] = call[d] /\ post'[d] = post[d]
           /\ \/ /\ tool \in Personal /\ ~direct /\ post'[c] = post[c]
                 /\ call'[c] = Begun(p, tool, direct, "over", "refused")
              \/ /\ tool \in Personal /\ direct /\ post'[c] = post[c]
                 /\ call'[c] = Begun(p, tool, direct, "key", "none")
              \/ /\ tool \notin Personal
                 /\ call'[c] = Begun(p, tool, direct, "over", "unavailable")
              \/ /\ tool \notin Personal /\ call'[c] = Begun(p, tool, direct, "shared", "none")
<1>1. call \in [Calls -> CallRecord] /\ post \in [Calls -> PostRecord]
  BY DEF FederationTypes
<1>2. \A d \in Calls : d # c => call'[d] = call[d] /\ post'[d] = post[d]
  <2>1. \E rec : call' = [call EXCEPT ![c] = rec]
    BY InvokeCases
  <2>2. post' = post \/ \E rec : post' = [post EXCEPT ![c] = rec]
    BY InvokeCases
  <2>3. QED
    BY <1>1, <2>1, <2>2
<1>3. ASSUME NEW rec, call' = [call EXCEPT ![c] = rec]
      PROVE  call'[c] = rec
  BY <1>1, <1>3
<1>4. QED
  BY <1>2, <1>3, InvokeCases

LEMMA ShownCases ==
    ASSUME NEW c, NEW personal \in BOOLEAN, call[c].direct \in BOOLEAN
    PROVE  /\ Shown(c, personal) \in {"withheld", "own data", "data"}
           /\ Shown(c, personal) = "own data" => call[c].direct
BY DEF Shown

(* What every step does to the types: the invoker's and the keys' ...       *)
LEMMA InvokeTypes ==
    ASSUME FederationTypes, NEW c \in Calls, NEW p \in People, NEW tool \in Tools,
           NEW direct \in BOOLEAN, Invoke(c, p, tool, direct)
    PROVE  FederationTypes'
<1>1. ASSUME NEW at \in CallStates, NEW outcome \in Outcomes
      PROVE  Begun(p, tool, direct, at, outcome) \in CallRecord
  BY DEF Begun, CallRecord
<1>2. [NotPosted EXCEPT !.at = "wants"] \in PostRecord
  BY DEF NotPosted, PostRecord
<1>3. \/ call' = [call EXCEPT ![c] = Begun(p, tool, direct, "over", "refused")]
      \/ call' = [call EXCEPT ![c] = Begun(p, tool, direct, "key", "none")]
      \/ call' = [call EXCEPT ![c] = Begun(p, tool, direct, "over", "unavailable")]
      \/ call' = [call EXCEPT ![c] = Begun(p, tool, direct, "shared", "none")]
  BY InvokeCases
<1>4. call' \in [Calls -> CallRecord]
  BY <1>1, <1>3 DEF FederationTypes, CallStates, Outcomes
<1>5. post' \in [Calls -> PostRecord]
  BY <1>2, InvokeCases, ZenonT(60) DEF FederationTypes
<1>6. QED
  BY <1>4, <1>5 DEF Invoke, FederationTypes, tokenVars, keyVars

LEMMA ToldType ==
    ASSUME FederationTypes, NEW c \in Calls, NEW outcome \in Outcomes
    PROVE  Told(c, outcome) \in [Calls -> CallRecord]
BY ZenonT(60) DEF FederationTypes, Told, CallRecord, CallStates

LEMMA KeyedTypes ==
    ASSUME FederationTypes, CallsHold, NEW c \in Calls, KeyedStep(c)
    PROVE  FederationTypes'
<1>1. CASE LookUpKey(c)
  <2>1. call' \in [Calls -> CallRecord]
    <3>1. CASE keyOf[call[c].who] = 0
      BY <1>1, <3>1, ToldType DEF LookUpKey, Outcomes
    <3>2. CASE keyOf[call[c].who] # 0
      <4>1. call[c] \in CallRecord /\ keyOf[call[c].who] \in Nat
        BY <1>1 DEF LookUpKey, FederationTypes, CallsHold, Holds
      <4>2. [call[c] EXCEPT !.at = "keyed", !.key = keyOf[call[c].who]] \in CallRecord
        BY <4>1 DEF CallRecord, CallStates
      <4>3. call' = [call EXCEPT ![c] = [call[c] EXCEPT !.at = "keyed",
                                                       !.key = keyOf[call[c].who]]]
        BY <1>1, <3>2 DEF LookUpKey
      <4>4. QED
        BY <4>2, <4>3 DEF FederationTypes
    <3>3. QED
      BY <3>1, <3>2
  <2>2. QED
    BY <1>1, <2>1 DEF LookUpKey, FederationTypes, tokenVars, keyVars
<1>2. CASE KeyRejected(c) \/ KeyedFails(c)
  BY <1>2, ToldType DEF KeyRejected, KeyedFails, FederationTypes, Outcomes, tokenVars, keyVars
<1>3. ASSUME NEW personal \in BOOLEAN, KeyedAnswer(c, personal)
      PROVE  FederationTypes'
  <2>1. Shown(c, personal) \in Outcomes
    BY ShownCases DEF FederationTypes, CallRecord, Outcomes
  <2>2. QED
    BY <1>3, <2>1, ToldType DEF KeyedAnswer, FederationTypes, tokenVars, keyVars
<1>4. QED
  BY <1>1, <1>2, <1>3 DEF KeyedStep

(* ... and the requests' behind the shared connection.                      *)
LEMMA PostTypes ==
    ASSUME FederationTypes, LockIsMinting, NEW c \in Calls, PostStep(c)
    PROVE  FederationTypes'
<1> USE FederationNumbers DEF FederationTypes, tokenVars, keyVars
<1>1. CASE TakeToken(c)
  <2>1. post' \in [Calls -> PostRecord]
    <3>1. post[c] \in PostRecord /\ token \in Nat
      OBVIOUS
    <3>2. post[c].sends + 1 \in 0..2
      BY <1>1, SMTT(30) DEF TakeToken, LockIsMinting
    <3>3. /\ [post[c] EXCEPT !.at = "minting"] \in PostRecord
          /\ [post[c] EXCEPT !.at = "sent", !.token = token, !.sends = @ + 1] \in PostRecord
      BY <3>1, <3>2 DEF PostRecord
    <3>4. \/ post' = [post EXCEPT ![c] = [post[c] EXCEPT !.at = "minting"]]
          \/ post' = [post EXCEPT ![c] = [post[c] EXCEPT !.at = "sent", !.token = token,
                                                         !.sends = @ + 1]]
      BY <1>1 DEF TakeToken
    <3>5. QED
      BY <3>3, <3>4
  <2>2. QED
    BY <1>1, <2>1 DEF TakeToken
<1>2. CASE Mint(c)
  <2>1. minted + 1 \in 0..MaxTokens /\ minted + 1 \in Nat
    BY <1>2 DEF Mint
  <2>2. post' \in [Calls -> PostRecord]
    BY <1>2, <2>1, SMTT(30) DEF Mint, LockIsMinting, PostRecord
  <2>3. QED
    BY <1>2, <2>1, <2>2 DEF Mint
<1>3. CASE MintFails(c)
  BY <1>3 DEF MintFails, PostRecord
<1>4. CASE Refuse(c)
  <2>1. token' \in 0..MaxTokens
    BY <1>4 DEF Refuse, Invalidate
  <2>2. post' \in [Calls -> PostRecord]
    <3>1. CASE post' = [post EXCEPT ![c].at = "wants"]
      BY <3>1 DEF PostRecord
    <3>2. CASE post' = [post EXCEPT ![c].at = "failed"]
      BY <3>2 DEF PostRecord
    <3>3. QED
      BY <1>4, <3>1, <3>2 DEF Refuse
  <2>3. QED
    BY <1>4, <2>1, <2>2 DEF Refuse
<1>5. CASE Cancelled(c)
  BY <1>5 DEF Cancelled, PostRecord
<1>6. ASSUME NEW outcome \in {"data", "own data", "withheld", "tool error"},
             ToolAnswers(c, outcome)
      PROVE  FederationTypes'
  <2>1. call' \in [Calls -> CallRecord]
    BY <1>6, ToldType DEF ToolAnswers, Outcomes
  <2>2. QED
    BY <1>6, <2>1 DEF ToolAnswers, PostRecord
<1>7. QED
  BY <1>1, <1>2, <1>3, <1>4, <1>5, <1>6 DEF PostStep

LEMMA FederationTypesStep ==
    ASSUME FederationIInv, FederationNext
    PROVE  FederationTypes'
<1> USE FederationNumbers DEF FederationIInv
<1>1. ASSUME NEW c \in Calls, CallStep(c) \/ PostStep(c)
      PROVE  FederationTypes'
  <2>1. CASE KeyedStep(c)
    BY <2>1, KeyedTypes
  <2>2. CASE SharedFails(c) \/ TimesOut(c)
    <3>1. call' = Told(c, "unavailable") \/ call' = Told(c, "timeout")
      BY <2>2 DEF SharedFails, TimesOut
    <3>2. call' \in [Calls -> CallRecord]
      BY <3>1, ToldType, ZenonT(60) DEF Outcomes
    <3>3. QED
      BY <2>2, <3>2 DEF SharedFails, TimesOut, FederationTypes, tokenVars, keyVars
  <2>3. CASE PostStep(c)
    BY <2>3, PostTypes
  <2>4. QED
    BY <1>1, <2>1, <2>2, <2>3 DEF CallStep
<1>2. ASSUME NEW c \in Calls, NEW p \in People, NEW tool \in Tools, NEW direct \in BOOLEAN,
             Invoke(c, p, tool, direct)
      PROVE  FederationTypes'
  BY <1>2, InvokeTypes
<1>3. CASE TokenAges \/ TokensRefused
  <2>1. aged' \in BOOLEAN /\ (ages' = ages \/ ages' = ages + 1)
    BY <1>3 DEF TokenAges, TokensRefused, FederationTypes
  <2>2. UNCHANGED <<offered, lost, call, post, token, lock, minted, keyOf, connected>>
    BY <1>3 DEF TokenAges, TokensRefused, keyVars
  <2>3. QED
    BY <2>1, <2>2 DEF FederationTypes
<1>4. ASSUME NEW p \in People, ConnectKey(p) \/ ForgetKey(p) \/ KeyExpires(p)
      PROVE  FederationTypes'
  <2>1. keyOf' \in [People -> Nat] /\ connected' \in Seq(People)
    <3>1. CASE ConnectKey(p)
      BY <3>1, AppendProperties, LenProperties DEF ConnectKey, FederationTypes
    <3>2. CASE ForgetKey(p) \/ KeyExpires(p)
      BY <3>2 DEF ForgetKey, KeyExpires, FederationTypes
    <3>3. QED
      BY <1>4, <3>1, <3>2
  <2>2. QED
    BY <1>4, <2>1 DEF ConnectKey, ForgetKey, KeyExpires, FederationTypes, tokenVars
<1>5. QED
  BY <1>1, <1>2, <1>3, <1>4 DEF FederationNext

(* Keys: what was connected stays connected to whom it was.                 *)
LEMMA ConnectedStays ==
    ASSUME FederationTypes, FederationNext, NEW i \in 1..Len(connected)
    PROVE  i \in 1..Len(connected') /\ connected'[i] = connected[i]
<1>1. connected' = connected \/ \E p \in People : connected' = Append(connected, p)
  BY ZenonT(60) DEF FederationNext, CallStep, KeyedStep, LookUpKey, KeyRejected, KeyedFails, KeyedAnswer,
         SharedFails, TimesOut, PostStep, TakeToken, Mint, MintFails, Refuse, Cancelled,
         ToolAnswers, Invoke, TokenAges, TokensRefused, ConnectKey, ForgetKey, KeyExpires, keyVars
<1>2. QED
  BY <1>1 DEF FederationTypes

LEMMA KeysStep ==
    ASSUME FederationTypes, KeysAreTheirs, FederationNext
    PROVE  KeysAreTheirs'
<1>1. ASSUME NEW p \in People, ConnectKey(p)
      PROVE  KeysAreTheirs'
  BY <1>1, ConnectedStays DEF ConnectKey, KeysAreTheirs, FederationTypes
<1>2. ASSUME NEW p \in People, ForgetKey(p)
      PROVE  KeysAreTheirs'
  BY <1>2 DEF ForgetKey, KeysAreTheirs, FederationTypes
<1>3. CASE UNCHANGED <<keyOf, connected>>
  BY <1>3 DEF KeysAreTheirs
<1>4. QED
  BY <1>1, <1>2, <1>3, ZenonT(60)
  DEF FederationNext, CallStep, KeyedStep, LookUpKey, KeyRejected, KeyedFails, KeyedAnswer,
      SharedFails, TimesOut, PostStep, TakeToken, Mint, MintFails, Refuse, Cancelled,
      ToolAnswers, Invoke, TokenAges, TokensRefused, KeyExpires, keyVars

(* The calls.  An answer marked as somebody's own reaches a call only when  *)
(* it was made in a DM, whichever connection it came by.                    *)
LEMMA CallsTold ==
    ASSUME FederationTypes, CallsHold, NEW c \in Calls, NEW outcome \in Outcomes,
           outcome = "own data" => call[c].direct, call[c].at # "idle",
           call' = Told(c, outcome), UNCHANGED <<post, connected>>
    PROVE  CallsHold'
<1>1. ASSUME NEW d \in Calls, d # c PROVE Holds(d)'
  BY <1>1 DEF FederationTypes, CallsHold, Holds, Told
<1>2. /\ call'[c].at = "over" /\ call'[c].outcome = outcome
      /\ call'[c].tool = call[c].tool /\ call'[c].direct = call[c].direct
  BY DEF FederationTypes, Told, CallRecord
<1>3. Holds(c)'
  BY <1>2 DEF CallsHold, Holds
<1>4. QED
  BY <1>1, <1>3 DEF CallsHold

LEMMA CallsKeyed ==
    ASSUME FederationTypes, CallsHold, KeysAreTheirs, NEW c \in Calls, KeyedStep(c)
    PROVE  CallsHold'
<1>1. CASE LookUpKey(c)
  <2>1. CASE keyOf[call[c].who] = 0
    BY <1>1, <2>1, CallsTold DEF LookUpKey, Outcomes, keyVars
  <2>2. CASE keyOf[call[c].who] # 0
    <3>1. /\ call' = [call EXCEPT ![c].at = "keyed", ![c].key = keyOf[call[c].who]]
          /\ UNCHANGED <<post, connected>> /\ call[c].at = "key"
      BY <1>1, <2>2 DEF LookUpKey, keyVars
    <3>2. /\ keyOf[call[c].who] \in 1..Len(connected)
          /\ connected[keyOf[call[c].who]] = call[c].who
      BY <2>2, <3>1 DEF CallsHold, Holds, KeysAreTheirs
    <3>3. QED
      <4>1. ASSUME NEW d \in Calls, d # c PROVE Holds(d)'
        BY <3>1, <4>1 DEF FederationTypes, CallsHold, Holds
      <4>2. /\ call'[c].at = "keyed" /\ call'[c].key = keyOf[call[c].who]
            /\ call'[c].tool = call[c].tool /\ call'[c].direct = call[c].direct
            /\ call'[c].who = call[c].who /\ call'[c].outcome = call[c].outcome
        BY <3>1 DEF FederationTypes, CallRecord
      <4>3. Holds(c)'
        BY <3>1, <3>2, <4>2 DEF CallsHold, Holds
      <4>4. QED
        BY <4>1, <4>3 DEF CallsHold
  <2>3. QED
    BY <2>1, <2>2
<1>2. CASE KeyRejected(c) \/ KeyedFails(c)
  BY <1>2, CallsTold DEF KeyRejected, KeyedFails, Outcomes, keyVars
<1>3. ASSUME NEW personal \in BOOLEAN, KeyedAnswer(c, personal)
      PROVE  CallsHold'
  BY <1>3, CallsTold, ShownCases DEF KeyedAnswer, Outcomes, keyVars, FederationTypes, CallRecord
<1>4. QED
  BY <1>1, <1>2, <1>3 DEF KeyedStep

LEMMA CallsPosted ==
    ASSUME FederationTypes, CallsHold, NEW c \in Calls, PostStep(c)
    PROVE  CallsHold'
<1>1. CASE TakeToken(c) \/ Mint(c) \/ MintFails(c) \/ Refuse(c) \/ Cancelled(c)
  <2>1. UNCHANGED <<call, connected>>
    BY <1>1 DEF TakeToken, Mint, MintFails, Refuse, Cancelled, keyVars
  <2>2. /\ post[c].at # "none"
        /\ \A d \in Calls \ {c} : post'[d] = post[d]
    BY <1>1 DEF TakeToken, Mint, MintFails, Refuse, Cancelled, FederationTypes
  <2>3. QED
    BY <2>1, <2>2 DEF CallsHold, Holds
<1>2. ASSUME NEW outcome \in {"data", "own data", "withheld", "tool error"},
             ToolAnswers(c, outcome)
      PROVE  CallsHold'
  <2>1. /\ post[c].at = "sent" /\ UNCHANGED connected
        /\ \A d \in Calls \ {c} : post'[d] = post[d]
    BY <1>2 DEF ToolAnswers, FederationTypes, keyVars
  <2>2. call' = call \/ (call[c].at = "shared" /\ call' = Told(c, outcome))
    BY <1>2 DEF ToolAnswers
  <2>3. outcome = "own data" => call[c].direct
    BY <1>2, ShownCases DEF ToolAnswers, FederationTypes, CallRecord
  <2>4. QED
    <3>1. CASE call' = call
      BY <2>1, <3>1 DEF CallsHold, Holds
    <3>2. CASE call[c].at = "shared" /\ call' = Told(c, outcome)
      <4>1. ASSUME NEW d \in Calls, d # c PROVE Holds(d)'
        BY <2>1, <3>2, <4>1 DEF FederationTypes, CallsHold, Holds, Told
      <4>2. /\ call'[c].at = "over" /\ call'[c].outcome = outcome
            /\ call'[c].tool = call[c].tool /\ call'[c].direct = call[c].direct
        BY <3>2 DEF FederationTypes, Told, CallRecord
      <4>3. Holds(c)'
        BY <2>3, <3>2, <4>2 DEF CallsHold, Holds
      <4>4. QED
        BY <4>1, <4>3 DEF CallsHold
    <3>3. QED
      BY <2>2, <3>1, <3>2
<1>3. QED
  BY <1>1, <1>2 DEF PostStep

LEMMA CallsStep ==
    ASSUME FederationIInv, FederationNext
    PROVE  CallsHold'
<1> USE DEF FederationIInv
<1>1. ASSUME NEW c \in Calls, CallStep(c)
      PROVE  CallsHold'
  <2>1. CASE KeyedStep(c)
    BY <2>1, CallsKeyed
  <2>2. CASE SharedFails(c)
    BY <2>2, CallsTold DEF SharedFails, Outcomes, keyVars
  <2>3. CASE TimesOut(c)
    BY <2>3, CallsTold DEF TimesOut, Outcomes, keyVars
  <2>4. QED
    BY <1>1, <2>1, <2>2, <2>3 DEF CallStep
<1>2. ASSUME NEW c \in Calls, PostStep(c)
      PROVE  CallsHold'
  BY <1>2, CallsPosted
<1>3. ASSUME NEW c \in Calls, NEW p \in People, NEW tool \in Tools, NEW direct \in BOOLEAN,
             Invoke(c, p, tool, direct)
      PROVE  CallsHold'
  <2>1. UNCHANGED connected /\ call[c].at = "idle"
    BY <1>3 DEF Invoke, keyVars, NotAsked
  <2>2. \A d \in Calls : d # c => call'[d] = call[d] /\ post'[d] = post[d]
    BY <1>3, InvokedAt
  <2>3. post[c].at = "none"
    BY <2>1 DEF CallsHold, Holds
  <2>4. \/ /\ tool \in Personal /\ ~direct /\ post'[c] = post[c]
           /\ call'[c] = Begun(p, tool, direct, "over", "refused")
        \/ /\ tool \in Personal /\ direct /\ post'[c] = post[c]
           /\ call'[c] = Begun(p, tool, direct, "key", "none")
        \/ /\ tool \notin Personal /\ call'[c] = Begun(p, tool, direct, "over", "unavailable")
        \/ /\ tool \notin Personal /\ call'[c] = Begun(p, tool, direct, "shared", "none")
    BY <1>3, InvokedAt
  <2>5. ASSUME NEW d \in Calls, d # c PROVE Holds(d)'
    BY <2>1, <2>2, <2>5 DEF CallsHold, Holds
  <2>6. Holds(c)'
    <3>1. CASE /\ tool \in Personal /\ ~direct /\ post'[c] = post[c]
               /\ call'[c] = Begun(p, tool, direct, "over", "refused")
      BY <2>3, <3>1 DEF Holds, Begun
    <3>2. CASE /\ tool \in Personal /\ direct /\ post'[c] = post[c]
               /\ call'[c] = Begun(p, tool, direct, "key", "none")
      BY <2>3, <3>2 DEF Holds, Begun
    <3>3. CASE tool \notin Personal /\ call'[c] = Begun(p, tool, direct, "over", "unavailable")
      BY <3>3 DEF Holds, Begun
    <3>4. CASE tool \notin Personal /\ call'[c] = Begun(p, tool, direct, "shared", "none")
      BY <3>4 DEF Holds, Begun
    <3>5. QED
      BY <2>4, <3>1, <3>2, <3>3, <3>4
  <2>7. QED
    BY <2>5, <2>6 DEF CallsHold
<1>4. CASE TokenAges \/ TokensRefused
  BY <1>4 DEF TokenAges, TokensRefused, CallsHold, Holds, keyVars
<1>5. ASSUME NEW p \in People, ConnectKey(p) \/ ForgetKey(p) \/ KeyExpires(p)
      PROVE  CallsHold'
  <2>1. UNCHANGED <<call, post>>
    BY <1>5 DEF ConnectKey, ForgetKey, KeyExpires
  <2>2. ASSUME NEW d \in Calls PROVE Holds(d)'
    BY <2>1, ConnectedStays DEF CallsHold, Holds
  <2>3. QED
    BY <2>2 DEF CallsHold
<1>6. QED
  BY <1>1, <1>2, <1>3, <1>4, <1>5 DEF FederationNext

(* Only a call that failed on the shared connection marks the server, and   *)
(* nothing changes a call that is over.                                     *)
LEMMA OverStays ==
    ASSUME FederationTypes, FederationNext, NEW c \in Calls, call[c].at = "over"
    PROVE  call'[c] = call[c]
<1> USE DEF FederationTypes, Told
<1>1. ASSUME NEW d \in Calls, CallStep(d)
      PROVE  call'[c] = call[c]
  BY <1>1 DEF CallStep, KeyedStep, LookUpKey, KeyRejected, KeyedFails, KeyedAnswer, SharedFails,
              TimesOut
<1>2. ASSUME NEW d \in Calls, PostStep(d)
      PROVE  call'[c] = call[c]
  BY <1>2 DEF PostStep, TakeToken, Mint, MintFails, Refuse, Cancelled, ToolAnswers
<1>3. ASSUME NEW d \in Calls, NEW p \in People, NEW tool \in Tools, NEW direct \in BOOLEAN,
             Invoke(d, p, tool, direct)
      PROVE  call'[c] = call[c]
  <2>1. d # c
    BY <1>3 DEF Invoke, NotAsked
  <2>2. QED
    BY <1>3, <2>1, InvokedAt
<1>4. QED
  BY <1>1, <1>2, <1>3
  DEF FederationNext, TokenAges, TokensRefused, ConnectKey, ForgetKey, KeyExpires

LEMMA LostStep ==
    ASSUME FederationIInv, FederationNext
    PROVE  LostByCall'
<1> USE DEF FederationIInv
<1>1. ASSUME NEW c \in Calls, SharedFails(c)
      PROVE  LostByCall'
  BY <1>1, ZenonT(60) DEF SharedFails, LostByCall, Told, CallsHold, Holds, FederationTypes, CallRecord
<1>2. CASE lost' = lost
  BY <1>2, OverStays DEF LostByCall, FederationTypes
<1>3. QED
  BY <1>1, <1>2, ZenonT(60)
  DEF FederationNext, CallStep, KeyedStep, LookUpKey, KeyRejected, KeyedFails, KeyedAnswer,
      TimesOut, PostStep, TakeToken, Mint, MintFails, Refuse, Cancelled, ToolAnswers, Invoke,
      TokenAges, TokensRefused, ConnectKey, ForgetKey, KeyExpires

(* The lock: a request that mints holds it, and the token it replaces is    *)
(* still gone or aged, since only the holder puts another in its place.     *)
LEMMA LockStep ==
    ASSUME FederationIInv, FederationNext
    PROVE  LockIsMinting'
<1> USE FederationNumbers DEF FederationIInv
<1>1. ASSUME NEW c \in Calls, PostStep(c)
      PROVE  LockIsMinting'
  <2>1. CASE TakeToken(c)
    <3>1. CASE token = 0 \/ aged
      <4>1. /\ post[c].at = "wants" /\ lock = Nobody /\ lock' = c /\ UNCHANGED <<token, aged>>
            /\ post' = [post EXCEPT ![c].at = "minting"]
        BY <2>1, <3>1 DEF TakeToken
      <4>2. /\ post'[c].at = "minting" /\ post'[c].sends = post[c].sends
            /\ \A d \in Calls : d # c => post'[d] = post[d]
        BY <4>1 DEF FederationTypes, PostRecord
      <4>3. QED
        BY <3>1, <4>1, <4>2 DEF LockIsMinting
    <3>2. CASE ~(token = 0 \/ aged)
      BY <2>1, <3>2, SMTT(30) DEF TakeToken, LockIsMinting, FederationTypes, PostRecord
    <3>3. QED
      BY <3>1, <3>2
  <2>2. CASE Mint(c)
    BY <2>2 DEF Mint, LockIsMinting, FederationTypes, PostRecord
  <2>3. CASE MintFails(c)
    BY <2>3 DEF MintFails, LockIsMinting, FederationTypes, PostRecord
  <2>4. CASE Refuse(c)
    <3>1. /\ post[c].at = "sent" /\ UNCHANGED <<lock, aged>>
          /\ token' = token \/ token' = 0
      BY <2>4 DEF Refuse, Invalidate
    <3>2. /\ post'[c].at \in {"wants", "failed"}
          /\ post'[c].at = "wants" => post'[c].sends = 1
          /\ \A d \in Calls : d # c => post'[d] = post[d]
      BY <2>4 DEF Refuse, FederationTypes, PostRecord
    <3>3. QED
      BY <3>1, <3>2 DEF LockIsMinting
  <2>5. CASE Cancelled(c)
    BY <2>5 DEF Cancelled, LockIsMinting, FederationTypes, PostRecord
  <2>6. ASSUME NEW outcome \in {"data", "own data", "withheld", "tool error"},
               ToolAnswers(c, outcome)
        PROVE  LockIsMinting'
    BY <2>6 DEF ToolAnswers, LockIsMinting, FederationTypes, PostRecord, tokenVars
  <2>7. QED
    BY <1>1, <2>1, <2>2, <2>3, <2>4, <2>5, <2>6 DEF PostStep
<1>2. ASSUME NEW c \in Calls, NEW p \in People, NEW tool \in Tools, NEW direct \in BOOLEAN,
             Invoke(c, p, tool, direct)
      PROVE  LockIsMinting'
  <2>1. UNCHANGED <<lock, token, aged>> /\ post[c].at = "none"
    <3>1. call[c].at = "idle" /\ UNCHANGED <<lock, token, aged>>
      BY <1>2 DEF Invoke, tokenVars, NotAsked
    <3>2. QED
      BY <3>1 DEF CallsHold, Holds
  <2>2. \/ post' = post
        \/ post' = [post EXCEPT ![c] = [NotPosted EXCEPT !.at = "wants"]]
    BY <1>2, InvokeCases
  <2>3. CASE post' = [post EXCEPT ![c] = [NotPosted EXCEPT !.at = "wants"]]
    <3>1. /\ post'[c].at = "wants" /\ post'[c].sends = 0
          /\ \A d \in Calls : d # c => post'[d] = post[d]
      BY <2>3 DEF FederationTypes, NotPosted
    <3>2. QED
      BY <2>1, <3>1 DEF LockIsMinting
  <2>4. QED
    BY <2>1, <2>2, <2>3 DEF LockIsMinting
<1>3. CASE TokenAges \/ TokensRefused
  BY <1>3 DEF TokenAges, TokensRefused, LockIsMinting
<1>4. CASE UNCHANGED <<post, lock, token, aged>>
  BY <1>4 DEF LockIsMinting
<1>5. QED
  BY <1>1, <1>2, <1>3, <1>4
  DEF FederationNext, CallStep, KeyedStep, LookUpKey, KeyRejected, KeyedFails, KeyedAnswer,
      SharedFails, TimesOut, ConnectKey, ForgetKey, KeyExpires, tokenVars

(* The tokens: each is minted in place of one that was paid for.            *)
LEMMA TokensStep ==
    ASSUME FederationIInv, FederationNext
    PROVE  TokensArePaidFor'
<1> USE FederationNumbers DEF FederationIInv
<1>1. PICK n \in 0..minted : /\ refused = 1..n
                             /\ minted <= ages + n + 1
                             /\ token = 0 \/ aged => minted <= ages + n
  BY DEF TokensArePaidFor
<1>2. token \in {0, minted} /\ token \in Nat /\ minted \in Nat /\ ages \in Nat
  BY DEF TokensArePaidFor, FederationTypes
<1>3. ASSUME NEW c \in Calls, Mint(c)
      PROVE  TokensArePaidFor'
  <2>1. /\ minted' = minted + 1 /\ token' = minted' /\ ~aged'
        /\ UNCHANGED <<refused, ages>>
    BY <1>3 DEF Mint
  <2>2. token = 0 \/ aged
    BY <1>3 DEF Mint, LockIsMinting
  <2>3. n \in 0..minted' /\ minted' <= ages + n + 1 /\ token' # 0
    BY <1>1, <1>2, <2>1, <2>2
  <2>4. QED
    BY <1>1, <2>1, <2>3 DEF TokensArePaidFor
<1>4. ASSUME NEW c \in Calls, Refuse(c)
      PROVE  TokensArePaidFor'
  <2>1. UNCHANGED <<refused, ages, minted, aged>>
    BY <1>4 DEF Refuse
  <2>2. token' = token \/ (token' = 0 /\ token \in refused)
    BY <1>4 DEF Refuse, Invalidate
  <2>3. CASE token' = token
    BY <1>1, <1>2, <2>1, <2>3 DEF TokensArePaidFor
  <2>4. CASE token' = 0 /\ token \in refused
    <3>1. token = minted /\ minted <= n
      BY <1>1, <1>2, <2>4
    <3>2. minted <= ages + n
      BY <1>1, <1>2, <3>1
    <3>3. QED
      BY <1>1, <2>1, <2>4, <3>2 DEF TokensArePaidFor
  <2>5. QED
    BY <2>2, <2>3, <2>4
<1>5. CASE TokensRefused
  <2>1. refused' = 1..minted /\ UNCHANGED <<token, aged, minted, ages>>
    BY <1>5 DEF TokensRefused
  <2>2. minted \in 0..minted /\ minted <= ages + minted
    BY <1>2
  <2>3. QED
    BY <1>2, <2>1, <2>2 DEF TokensArePaidFor
<1>6. CASE TokenAges
  <2>1. ages' = ages + 1 /\ UNCHANGED <<token, minted, refused>>
    BY <1>6 DEF TokenAges
  <2>2. minted <= ages' + n
    BY <1>1, <1>2, <2>1
  <2>3. minted <= ages' + n + 1
    BY <1>1, <1>2, <2>1
  <2>4. QED
    BY <1>1, <1>2, <2>1, <2>2, <2>3 DEF TokensArePaidFor
<1>7. CASE UNCHANGED tokenVars \/ UNCHANGED <<token, aged, minted, refused, ages>>
  BY <1>7 DEF TokensArePaidFor, tokenVars
<1>8. ASSUME NEW c \in Calls, CallStep(c)
      PROVE  TokensArePaidFor'
  BY <1>7, <1>8 DEF CallStep, KeyedStep, LookUpKey, KeyRejected, KeyedFails, KeyedAnswer,
                    SharedFails, TimesOut
<1>9. ASSUME NEW c \in Calls, PostStep(c)
      PROVE  TokensArePaidFor'
  BY <1>3, <1>4, <1>7, <1>9 DEF PostStep, TakeToken, MintFails, Cancelled, ToolAnswers
<1>10. ASSUME NEW p \in People, ConnectKey(p) \/ ForgetKey(p) \/ KeyExpires(p)
       PROVE  TokensArePaidFor'
  BY <1>7, <1>10 DEF ConnectKey, ForgetKey, KeyExpires
<1>11. ASSUME NEW c \in Calls, NEW p \in People, NEW tool \in Tools, NEW direct \in BOOLEAN,
              Invoke(c, p, tool, direct)
       PROVE  TokensArePaidFor'
  BY <1>7, <1>11 DEF Invoke
<1>12. QED
  BY <1>5, <1>6, <1>8, <1>9, <1>10, <1>11 DEF FederationNext

LEMMA FederationIInvStep == FederationIInv /\ [FederationNext]_federationVars => FederationIInv'
<1>1. ASSUME FederationIInv, FederationNext
      PROVE  FederationIInv'
  <2>1. FederationTypes'
    BY <1>1, FederationTypesStep
  <2>2. CallsHold' /\ KeysAreTheirs'
    BY <1>1, CallsStep, KeysStep DEF FederationIInv
  <2>3. LostByCall' /\ LockIsMinting' /\ TokensArePaidFor'
    BY <1>1, LostStep, LockStep, TokensStep
  <2>4. QED
    BY <2>1, <2>2, <2>3 DEF FederationIInv
<1>2. ASSUME FederationIInv, UNCHANGED federationVars
      PROVE  FederationIInv'
  BY <1>2 DEF federationVars, tokenVars, keyVars, FederationIInv, FederationTypes, CallsHold,
              Holds, KeysAreTheirs, LostByCall, LockIsMinting, TokensArePaidFor
<1>3. QED
  BY <1>1, <1>2

LEMMA FederationInvariant == FederationSpec => []FederationIInv
BY FederationIInvInit, FederationIInvStep, PTL DEF FederationSpec

(* What the five invariants say follows, the count of tokens too.           *)
LEMMA FederationIInvSuffices == FederationIInv => FederationInv
<1> SUFFICES ASSUME FederationIInv PROVE FederationInv
  OBVIOUS
<1> USE FederationNumbers DEF FederationIInv
<1>1. OwnKeyOnly /\ OwnDataInPrivate
  BY DEF CallsHold, Holds, OwnKeyOnly, OwnDataInPrivate
<1>2. LostForAll
  BY DEF LostByCall, LostForAll
<1>3. OneTokenPerRefusal
  <2>1. PICK n \in 0..minted : refused = 1..n /\ minted <= ages + n + 1
    BY DEF TokensArePaidFor
  <2>2. minted \in Nat /\ ages \in Nat /\ n \in Nat
    BY DEF FederationTypes
  <2>3. Cardinality(refused) = n
    BY <2>1, <2>2, FS_Interval
  <2>4. QED
    BY <2>1, <2>2, <2>3 DEF OneTokenPerRefusal
<1>4. LockHeld
  BY DEF LockIsMinting, LockHeld, FederationTypes
<1>5. QED
  BY <1>1, <1>2, <1>3, <1>4 DEF FederationInv

(* However calls overlap, time out, are cancelled or fail, with any number  *)
(* of people, keys and tokens: nobody's access is lent to another, what is  *)
(* marked as somebody's own stays in their DM, one person's trouble takes   *)
(* no tool away from the others, a burst of refusals costs one token, and   *)
(* the lock is never left behind (clients.py, tokens.py).                   *)
THEOREM NobodysAccessIsLent == FederationSpec => []FederationInv
BY FederationInvariant, FederationIInvSuffices, PTL

-----------------------------------------------------------------------------
(* Sessions *)

Holding == {"refresh", "store", "discard", "revoke", "use under lock"}
RequestPlaces == Finished \cup {"waiting", "use"} \cup Holding
EndingPlaces == {"none", "erasing", "revoke", "over"}

SessionsTypes ==
    /\ kind \in {"console", "user"} /\ state \in {"begun", "used"}
    /\ callback \in [Callbacks -> {"none", "verify", "over"}] /\ made \in 0..1
    /\ row \in {"none", "live", "revoked"} /\ held \in Nat
    /\ nearly \in BOOLEAN /\ signedOut \in BOOLEAN
    /\ request \in [Requests -> [at : RequestPlaces, token : Nat]]
    /\ ending \in [at : EndingPlaces, token : Nat]
    /\ issued \in 0..(MaxRefresh + 1) /\ valid \in {0, issued}
    /\ replayed \in BOOLEAN /\ demoted \in BOOLEAN /\ hitches \in Nat

(* One callback found the state, and has yet to make its session.           *)
SignInStands ==
    /\ state = "begun" => made = 0 /\ \A c \in Callbacks : callback[c] = "none"
    /\ \A c \in Callbacks : callback[c] = "verify" =>
          made = 0 /\ \A d \in Callbacks : callback[d] = "verify" => c = d

(* Whoever refreshes has the lock, alone, and so has who finds it done.     *)
LockStands ==
    /\ locked = {q \in Requests : request[q].at \in Holding}
    /\ \A p, q \in Requests : request[p].at \in Holding /\ request[q].at \in Holding => p = q

RowStands ==
    /\ row = "none" => /\ held = 0 /\ issued = 0 /\ ~nearly /\ ~signedOut
                       /\ ending = NoEnding
                       /\ \A q \in Requests : request[q].at = "none"
    /\ row # "none" => held > 0
    /\ held <= issued
    /\ nearly /\ held = issued => issued <= MaxRefresh
    /\ signedOut => row = "revoked" /\ ending.at \in {"revoke", "over"}

(* A refresh carries the token of the row, and what it gets is the newest.  *)
RefreshStands ==
    \A q \in Requests :
        /\ request[q].at = "refresh" =>
              /\ request[q].token = held /\ nearly
              /\ hitches = 0 => held = issued
        /\ request[q].at \in {"store", "discard"} => request[q].token = issued /\ held < issued
        /\ request[q].at = "discard" => row = "revoked"

InFlight == \E q \in Requests : request[q].at \in {"store", "discard"}

(* With no failure and no restart the row keeps in step with the provider,  *)
(* or somebody with the lock is about to bring it there, or to end it.      *)
KeptInStep ==
    hitches = 0 =>
        /\ ~replayed
        /\ held = issued \/ row = "revoked"
              \/ \E q \in Requests : request[q].at \in {"store", "revoke"}
        /\ ~demoted => /\ valid \in {0, held} \/ InFlight
                       /\ \A q \in Requests : request[q].at = "revoke" => valid = 0
        /\ signedOut => /\ ending.at = "revoke" => ending.token = held
                        /\ ending.at = "over" => valid # held

SessionsIInv ==
    SessionsTypes /\ SignInStands /\ LockStands /\ RowStands /\ RefreshStands /\ KeptInStep

LEMMA SessionsIInvInit == SessionsInit => SessionsIInv
<1> SUFFICES ASSUME SessionsInit PROVE SessionsIInv
  OBVIOUS
<1> USE SessionsAssumption DEF SessionsInit, Holding, RequestPlaces, Finished, EndingPlaces
<1>1. SessionsTypes
  <2>1. request \in [Requests -> [at : RequestPlaces, token : Nat]]
    OBVIOUS
  <2>2. ending \in [at : EndingPlaces, token : Nat]
    BY DEF NoEnding
  <2>3. nearly \in BOOLEAN /\ signedOut \in BOOLEAN /\ replayed \in BOOLEAN /\ demoted \in BOOLEAN
    OBVIOUS
  <2>4. /\ kind \in {"console", "user"} /\ state \in {"begun", "used"} /\ made \in 0..1
        /\ callback \in [Callbacks -> {"none", "verify", "over"}]
        /\ row \in {"none", "live", "revoked"} /\ held \in Nat /\ hitches \in Nat
        /\ issued \in 0..(MaxRefresh + 1) /\ valid \in {0, issued}
    OBVIOUS
  <2>5. QED
    BY ONLY <2>1, <2>2, <2>3, <2>4 DEF SessionsTypes
<1>2. SignInStands /\ RowStands /\ RefreshStands /\ KeptInStep
  BY DEF SignInStands, RowStands, RefreshStands, KeptInStep, NoEnding
<1>4. LockStands
  <2>1. \A q \in Requests : request[q].at \notin Holding
    BY DEF Holding
  <2>2. QED
    BY <2>1 DEF LockStands
<1>3. QED
  BY <1>1, <1>2, <1>4 DEF SessionsIInv

(* A request that moves, and leaves the others where they are.              *)
LEMMA MovesOne ==
    ASSUME SessionsTypes, NEW q \in Requests, NEW at \in RequestPlaces, NEW tk \in Nat,
           Moves(q, at, tk)
    PROVE  /\ request' \in [Requests -> [at : RequestPlaces, token : Nat]]
           /\ request'[q].at = at /\ request'[q].token = tk
           /\ \A p \in Requests : p # q => request'[p] = request[p]
BY DEF SessionsTypes, Moves

(* Signing in touches nothing of the lock, and makes the row it finds none. *)
LEMMA SignInKeepsSessions ==
    ASSUME SessionsIInv, NEW c \in Callbacks, Consume(c) \/ CreateSession(c) \/ SignInFails(c)
    PROVE  SessionsIInv'
<1> USE SessionsAssumption DEF SessionsIInv, SessionsTypes
<1>1. SignInStands'
  BY DEF SignInStands, Consume, CreateSession, SignInFails
<1>2. CASE Consume(c) \/ SignInFails(c)
  <2>1. SessionsTypes'
    BY <1>2 DEF Consume, SignInFails, sessionRow, providerVars
  <2>2. LockStands' /\ RowStands' /\ RefreshStands' /\ KeptInStep'
    BY <1>2 DEF Consume, SignInFails, sessionRow, providerVars, LockStands, RowStands,
                RefreshStands, KeptInStep, InFlight
  <2>3. QED
    BY <1>1, <2>1, <2>2
<1>3. CASE CreateSession(c)
  <2>1. made = 0 /\ callback[c] = "verify"
    BY <1>3 DEF CreateSession, SignInStands
  <2>2. SessionsTypes'
    BY <1>3, <2>1 DEF CreateSession
  <2>3. LockStands'
    BY <1>3 DEF CreateSession, LockStands
  <2>4. CASE row = "none"
    <3>1. row' = "live" /\ held' = 1 /\ issued' = 1 /\ valid' = 1 /\ ~nearly' /\ ~signedOut'
      BY <1>3, <2>4 DEF CreateSession, RowStands
    <3>2. \A q \in Requests : request'[q].at = "none"
      BY <1>3, <2>4 DEF CreateSession, RowStands
    <3>3. UNCHANGED <<hitches, replayed, ending, demoted>>
      BY <1>3 DEF CreateSession
    <3>4. RowStands' /\ RefreshStands'
      BY <3>1, <3>2 DEF RowStands, RefreshStands
    <3>5. KeptInStep'
      BY <3>1, <3>2, <3>3 DEF KeptInStep
    <3>6. QED
      BY <1>1, <2>2, <2>3, <3>4, <3>5
  <2>5. CASE row # "none"
    <3>1. UNCHANGED <<row, held, issued, valid, nearly, signedOut, locked, request, ending,
                      replayed, demoted, hitches>>
      BY <1>3, <2>5 DEF CreateSession
    <3>2. RowStands' /\ RefreshStands' /\ KeptInStep'
      BY <3>1 DEF RowStands, RefreshStands, KeptInStep, InFlight
    <3>3. QED
      BY <1>1, <2>2, <2>3, <3>2
  <2>6. QED
    BY <2>4, <2>5
<1>4. QED
  BY <1>2, <1>3

(* Nothing of the sign-in moves with a request.                             *)
LEMMA SignInRests ==
    ASSUME SessionsIInv, UNCHANGED loginVars
    PROVE  SignInStands'
BY DEF SessionsIInv, SignInStands, loginVars

(* A request that comes, or comes to the lock and finds the session ended,  *)
(* or one whose token was in hand and is verified, or not.                  *)
LEMMA UnlockedMoveKeepsSessions ==
    ASSUME SessionsIInv, NEW q \in Requests, NEW at \in RequestPlaces \ Holding,
           Moves(q, at, 0), row # "none", request[q].at \notin Holding,
           UNCHANGED <<loginVars, sessionRow, locked, ending, providerVars>>,
           hitches' \in {hitches, hitches + 1}
    PROVE  SessionsIInv'
<1>0. hitches \in Nat /\ hitches' \in Nat /\ (hitches' = 0 => hitches = 0)
  BY DEF SessionsIInv, SessionsTypes
<1>1. /\ request' \in [Requests -> [at : RequestPlaces, token : Nat]]
      /\ request'[q].at = at
      /\ \A p \in Requests : p # q => request'[p] = request[p]
  BY MovesOne DEF SessionsIInv
<1>2. SessionsTypes'
  BY <1>0, <1>1 DEF SessionsIInv, SessionsTypes, loginVars, sessionRow, providerVars
<1>3. SignInStands'
  BY SignInRests
<1>4. \A p \in Requests : /\ request'[p].at \in Holding <=> request[p].at \in Holding
                          /\ request'[p].at \in Holding => request'[p] = request[p]
                          /\ request[p].at \in Holding => request'[p] = request[p]
  BY <1>1
<1>5. LockStands'
  BY <1>4 DEF SessionsIInv, LockStands
<1>6. RowStands'
  BY <1>1 DEF SessionsIInv, RowStands, sessionRow, providerVars
<1>7. RefreshStands'
  BY <1>0, <1>4 DEF SessionsIInv, RefreshStands, sessionRow, providerVars, Holding
<1>8. KeptInStep'
  BY <1>0, <1>4 DEF SessionsIInv, KeptInStep, InFlight, sessionRow, providerVars, Holding
<1>9. QED
  BY <1>2, <1>3, <1>5, <1>6, <1>7, <1>8 DEF SessionsIInv

LEMMA ArriveKeepsSessions ==
    ASSUME SessionsIInv, NEW q \in Requests, Arrive(q)
    PROVE  SessionsIInv'
<1>1. PICK at \in {"denied", "waiting", "use"} : Moves(q, at, 0)
  BY DEF Arrive
<1>2. QED
  BY <1>1, UnlockedMoveKeepsSessions DEF Arrive, RequestPlaces, Holding, Finished

LEMMA EnterKeepsSessions ==
    ASSUME SessionsIInv, NEW q \in Requests, Enter(q)
    PROVE  SessionsIInv'
<1>1. /\ request[q].at = "waiting" /\ locked = {}
      /\ UNCHANGED <<loginVars, sessionRow, ending, providerVars, hitches>>
  BY DEF Enter
<1>2. \A p \in Requests : request[p].at \notin Holding
  BY <1>1 DEF SessionsIInv, LockStands
<1>3. row # "none"
  BY <1>1 DEF SessionsIInv, RowStands
<1>4. CASE row # "live"
  <2>1. Moves(q, "denied", 0) /\ UNCHANGED locked
    BY <1>4 DEF Enter
  <2>2. QED
    BY <1>1, <1>2, <1>3, <2>1, UnlockedMoveKeepsSessions DEF RequestPlaces, Holding, Finished
<1>7. CASE row = "live" /\ ~nearly
  <2>1. Moves(q, "use under lock", 0) /\ locked' = {q}
    BY <1>7 DEF Enter
  <2>2. /\ request' \in [Requests -> [at : RequestPlaces, token : Nat]]
        /\ request'[q].at = "use under lock"
        /\ \A p \in Requests : p # q => request'[p] = request[p]
    BY <2>1, MovesOne DEF SessionsIInv, RequestPlaces, Holding
  <2>3. SessionsTypes'
    BY <1>1, <2>2 DEF SessionsIInv, SessionsTypes, loginVars, sessionRow, providerVars
  <2>4. SignInStands'
    BY <1>1, SignInRests
  <2>5. LockStands'
    BY <1>2, <2>1, <2>2 DEF LockStands, Holding
  <2>6. RowStands'
    BY <1>1, <1>3, <2>2 DEF SessionsIInv, RowStands, sessionRow, providerVars
  <2>7. \A p \in Requests : request'[p].at \notin {"refresh", "store", "discard", "revoke"}
    BY <1>2, <2>2 DEF Holding
  <2>8. RefreshStands'
    BY <2>7 DEF RefreshStands
  <2>9. KeptInStep'
    BY <1>1, <1>2, <2>7 DEF SessionsIInv, KeptInStep, InFlight, sessionRow, providerVars, Holding
  <2>10. QED
    BY <2>3, <2>4, <2>5, <2>6, <2>8, <2>9 DEF SessionsIInv
<1>5. CASE row = "live" /\ nearly
  <2>1. Moves(q, "refresh", held) /\ locked' = {q}
    BY <1>5 DEF Enter
  <2>2. /\ request' \in [Requests -> [at : RequestPlaces, token : Nat]]
        /\ request'[q].at = "refresh" /\ request'[q].token = held
        /\ \A p \in Requests : p # q => request'[p] = request[p]
    BY <2>1, MovesOne DEF SessionsIInv, SessionsTypes, RequestPlaces, Holding
  <2>3. SessionsTypes'
    BY <1>1, <2>2 DEF SessionsIInv, SessionsTypes, loginVars, sessionRow, providerVars
  <2>4. SignInStands'
    BY <1>1, SignInRests
  <2>5. LockStands'
    BY <1>2, <2>1, <2>2 DEF LockStands, Holding
  <2>6. RowStands'
    BY <1>1, <1>3, <2>2 DEF SessionsIInv, RowStands, sessionRow, providerVars
  <2>7. hitches = 0 => held = issued
    BY <1>2, <1>5 DEF SessionsIInv, KeptInStep, Holding
  <2>8. RefreshStands'
    BY <1>1, <1>2, <1>5, <2>2, <2>7
    DEF SessionsIInv, RefreshStands, sessionRow, providerVars, Holding
  <2>9. KeptInStep'
    <3>1. \A p \in Requests : request'[p].at \notin {"store", "discard", "revoke"}
      BY <1>2, <2>2 DEF Holding
    <3>2. hitches = 0 /\ ~demoted => valid \in {0, held}
      BY <1>2 DEF SessionsIInv, KeptInStep, InFlight, Holding
    <3>3. QED
      BY <1>1, <2>7, <3>1, <3>2
      DEF SessionsIInv, KeptInStep, sessionRow, providerVars
  <2>10. QED
    BY <2>3, <2>4, <2>5, <2>6, <2>8, <2>9 DEF SessionsIInv
<1>6. QED
  BY <1>4, <1>5, <1>7

(* The one that refreshes, and what everybody else does meanwhile.          *)
LEMMA HolderIsAlone ==
    ASSUME SessionsIInv, NEW q \in Requests, request[q].at \in Holding
    PROVE  /\ \A p \in Requests : p # q => request[p].at \notin Holding
           /\ locked = {q} /\ row # "none" /\ held > 0
<1>1. \A p \in Requests : p # q => request[p].at \notin Holding
  BY DEF SessionsIInv, LockStands
<1>2. locked = {q}
  BY <1>1 DEF SessionsIInv, LockStands
<1>3. row # "none"
  BY DEF SessionsIInv, RowStands, Holding
<1>4. QED
  BY <1>1, <1>2, <1>3 DEF SessionsIInv, RowStands

(* What the provider does with a token of the family that is not beyond     *)
(* the newest.                                                              *)
LEMMA PresentFollows ==
    ASSUME SessionsTypes, NEW tk \in 1..issued, Present(tk)
    PROVE  /\ tk = valid => issued' = issued + 1 /\ valid' = issued + 1 /\ UNCHANGED replayed
                            /\ tk = issued
           /\ tk # valid => valid' = 0 /\ UNCHANGED issued
           /\ tk = issued => UNCHANGED replayed
           /\ replayed' \in BOOLEAN /\ issued' \in Nat /\ issued' >= issued
           /\ valid' \in {0, issued'}
<1> USE DEF SessionsTypes
<1>1. CASE tk = valid
  BY <1>1 DEF Present
<1>2. CASE tk # valid
  <2>1. valid' = 0 /\ issued' = issued /\ replayed' = (replayed \/ tk < issued)
    BY <1>2 DEF Present
  <2>2. tk = issued => ~(tk < issued)
    OBVIOUS
  <2>3. tk = issued => replayed' = replayed
    BY <2>1, <2>2
  <2>4. QED
    BY <1>2, <2>1, <2>3
<1>3. QED
  BY <1>1, <1>2

LEMMA RotateKeepsSessions ==
    ASSUME SessionsIInv, NEW q \in Requests, Rotate(q)
    PROVE  SessionsIInv'
<1> DEFINE tk == request[q].token
<1>1. /\ request[q].at = "refresh" /\ Present(tk)
      /\ UNCHANGED <<loginVars, sessionRow, locked, ending, hitches>>
  BY DEF Rotate
<1>2. /\ \A p \in Requests : p # q => request[p].at \notin Holding
      /\ locked = {q} /\ row # "none" /\ held > 0
  BY <1>1, HolderIsAlone DEF Holding
<1>3. /\ tk = held /\ nearly /\ tk \in 1..issued /\ tk \in Nat
      /\ hitches = 0 => tk = issued
  BY <1>1, <1>2 DEF SessionsIInv, SessionsTypes, RefreshStands, RowStands
<1>4. /\ tk = valid => issued' = issued + 1 /\ valid' = issued + 1 /\ UNCHANGED replayed
                       /\ tk = issued
      /\ tk # valid => valid' = 0 /\ UNCHANGED issued
      /\ tk = issued => UNCHANGED replayed
      /\ replayed' \in BOOLEAN /\ issued' \in Nat /\ issued' >= issued /\ valid' \in {0, issued'}
  BY <1>1, <1>3, PresentFollows DEF SessionsIInv
<1>5. PICK at \in {"store", "revoke"}, new \in Nat :
         /\ Moves(q, at, new)
         /\ at = "store" => tk = valid /\ new = issued + 1 /\ UNCHANGED demoted
         /\ at = "revoke" => (tk = valid /\ demoted') \/ (tk # valid /\ UNCHANGED demoted)
  <2>1. issued + 1 \in Nat
    BY DEF SessionsIInv, SessionsTypes
  <2>2. QED
    BY <2>1 DEF Rotate
<1>6. demoted' \in BOOLEAN
  BY DEF Rotate, SessionsIInv, SessionsTypes
<1>7. /\ request' \in [Requests -> [at : RequestPlaces, token : Nat]]
      /\ request'[q].at = at /\ request'[q].token = new
      /\ \A p \in Requests : p # q => request'[p] = request[p]
  <2>1. Moves(q, at, new) /\ at \in RequestPlaces
    BY <1>5 DEF RequestPlaces, Holding
  <2>2. QED
    BY <2>1, MovesOne DEF SessionsIInv
<1>8. held' = held /\ row' = row /\ nearly' = nearly /\ signedOut' = signedOut
      /\ hitches' = hitches /\ ending' = ending
  BY <1>1 DEF sessionRow
<1>9. issued' \in 0..(MaxRefresh + 1)
  <2>1. tk = issued => issued <= MaxRefresh
    BY <1>3 DEF SessionsIInv, RowStands
  <2>2. QED
    BY <1>4, <2>1, SessionsAssumption DEF SessionsIInv, SessionsTypes
<1>10. SessionsTypes'
  BY <1>1, <1>4, <1>6, <1>7, <1>8, <1>9 DEF SessionsIInv, SessionsTypes, loginVars
<1>11. SignInStands'
  BY <1>1, SignInRests
<1>12. \A p \in Requests : request'[p].at \in Holding <=> p = q
  BY <1>2, <1>5, <1>7 DEF Holding
<1>13. LockStands'
  BY <1>1, <1>2, <1>12 DEF LockStands
<1>14. RowStands'
  <2>1. row # "none" /\ held > 0 /\ (signedOut => row = "revoked" /\ ending.at \in {"revoke", "over"})
    BY <1>2 DEF SessionsIInv, RowStands
  <2>2. held <= issued'
    BY <1>4, <1>8 DEF SessionsIInv, SessionsTypes, RowStands
  <2>3. nearly /\ held = issued' => issued' <= MaxRefresh
    BY <1>3, <1>4 DEF SessionsIInv, SessionsTypes, RowStands
  <2>4. QED
    BY <1>8, <2>1, <2>2, <2>3 DEF RowStands
<1>15. RefreshStands'
  <2>1. at = "store" => new = issued' /\ held < issued'
    <3>1. at = "store" => tk = valid /\ new = issued + 1
      BY <1>5
    <3>2. at = "store" => issued' = issued + 1 /\ held = issued
      BY <3>1, <1>3, <1>4
    <3>3. issued \in Nat
      BY DEF SessionsIInv, SessionsTypes
    <3>4. QED
      BY ONLY <3>1, <3>2, <3>3
  <2>2. \A p \in Requests : p # q => request'[p].at \notin Holding
    BY <1>12
  <2>3. QED
    BY <1>5, <1>7, <1>8, <2>1, <2>2 DEF RefreshStands, Holding
<1>16. KeptInStep'
  <2>1. SUFFICES ASSUME hitches = 0 PROVE KeptInStep'
    BY <1>8 DEF KeptInStep
  <2>2. ~replayed'
    BY <1>3, <1>4, <2>1 DEF SessionsIInv, KeptInStep
  <2>3. request'[q].at \in {"store", "revoke"}
    BY <1>5, <1>7
  <2>4. ~demoted' => /\ valid' \in {0, held} \/ request'[q].at = "store"
                     /\ request'[q].at = "revoke" => valid' = 0
    BY <1>4, <1>5, <1>7
  <2>5. \A p \in Requests : request'[p].at = "revoke" => p = q
    BY <1>12 DEF Holding
  <2>6. signedOut /\ ending.at = "revoke" => ending.token = held
    BY <2>1 DEF SessionsIInv, KeptInStep
  <2>7. valid' # held
    BY <1>2, <1>3, <1>4 DEF SessionsIInv, SessionsTypes
  <2>8. QED
    BY <1>8, <2>2, <2>3, <2>4, <2>5, <2>6, <2>7 DEF KeptInStep, InFlight
<1>17. QED
  BY <1>10, <1>11, <1>13, <1>14, <1>15, <1>16 DEF SessionsIInv

LEMMA RotateFailsKeepsSessions ==
    ASSUME SessionsIInv, NEW q \in Requests, RotateFails(q)
    PROVE  SessionsIInv'
<1> DEFINE tk == request[q].token
<1>1. /\ request[q].at = "refresh" /\ Moves(q, "revoke", 0) /\ hitches' = hitches + 1
      /\ UNCHANGED <<loginVars, sessionRow, locked, ending, demoted>>
  BY DEF RotateFails, Hitch
<1>2. /\ \A p \in Requests : p # q => request[p].at \notin Holding
      /\ locked = {q} /\ row # "none" /\ held > 0
  BY <1>1, HolderIsAlone DEF Holding
<1>3. tk = held /\ nearly /\ tk \in 1..issued
  BY <1>1, <1>2 DEF SessionsIInv, SessionsTypes, RefreshStands, RowStands
<1>4. /\ issued' = issued \/ (tk = issued /\ issued' = issued + 1)
      /\ replayed' \in BOOLEAN /\ valid' \in {0, issued'}
  <2>1. CASE UNCHANGED <<issued, valid, replayed>>
    BY <2>1 DEF SessionsIInv, SessionsTypes
  <2>2. CASE Present(tk)
    BY <1>3, <2>2, PresentFollows DEF SessionsIInv
  <2>3. QED
    BY <2>1, <2>2 DEF RotateFails
<1>5. /\ request' \in [Requests -> [at : RequestPlaces, token : Nat]]
      /\ request'[q].at = "revoke"
      /\ \A p \in Requests : p # q => request'[p] = request[p]
  BY <1>1, MovesOne DEF SessionsIInv, RequestPlaces, Holding
<1>6. issued' \in 0..(MaxRefresh + 1) /\ issued' >= issued
  BY <1>3, <1>4, SessionsAssumption DEF SessionsIInv, SessionsTypes, RowStands
<1>7. held' = held /\ row' = row /\ nearly' = nearly /\ signedOut' = signedOut /\ ending' = ending
      /\ hitches' \in Nat /\ hitches' # 0
  BY <1>1 DEF sessionRow, SessionsIInv, SessionsTypes
<1>8. SessionsTypes'
  BY <1>1, <1>4, <1>5, <1>6, <1>7 DEF SessionsIInv, SessionsTypes, loginVars
<1>9. SignInStands'
  BY <1>1, SignInRests
<1>10. \A p \in Requests : request'[p].at \in Holding <=> p = q
  BY <1>2, <1>5 DEF Holding
<1>11. LockStands'
  BY <1>1, <1>2, <1>10 DEF LockStands
<1>12. RowStands'
  <2>1. held <= issued' /\ (nearly /\ held = issued' => issued' <= MaxRefresh)
    BY <1>3, <1>4, <1>6 DEF SessionsIInv, SessionsTypes, RowStands
  <2>2. QED
    BY <1>2, <1>7, <2>1 DEF SessionsIInv, RowStands
<1>13. RefreshStands'
  BY <1>5, <1>10 DEF RefreshStands, Holding
<1>14. KeptInStep'
  BY <1>7 DEF KeptInStep
<1>15. QED
  BY <1>8, <1>9, <1>11, <1>12, <1>13, <1>14 DEF SessionsIInv

(* A refresh that ends gives the lock back.                                 *)
LEMMA LockGivenBack ==
    ASSUME SessionsIInv, NEW q \in Requests, request[q].at \in Holding,
           NEW at \in {"admitted", "denied"}, Moves(q, at, 0), locked' = {}
    PROVE  /\ LockStands'
           /\ request' \in [Requests -> [at : RequestPlaces, token : Nat]]
           /\ \A p \in Requests : request'[p].at \notin Holding
<1>1. \A p \in Requests : p # q => request[p].at \notin Holding
  BY HolderIsAlone
<1>2. /\ request' \in [Requests -> [at : RequestPlaces, token : Nat]]
      /\ request'[q].at = at
      /\ \A p \in Requests : p # q => request'[p] = request[p]
  <2>1. at \in RequestPlaces
    BY DEF RequestPlaces, Finished
  <2>2. QED
    BY <2>1, MovesOne DEF SessionsIInv
<1>3. \A p \in Requests : request'[p].at \notin Holding
  BY <1>1, <1>2 DEF Holding
<1>4. QED
  BY <1>2, <1>3 DEF LockStands

(* A token in hand is verified or not, with the lock or without.            *)
LEMMA UseKeepsSessions ==
    ASSUME SessionsIInv, NEW q \in Requests, Use(q) \/ UseFails(q)
    PROVE  SessionsIInv'
<1>1. PICK at \in {"admitted", "denied"} : Moves(q, at, 0)
  BY DEF Use, UseFails
<1>2. /\ request[q].at \in Using /\ locked' = locked \ {q}
      /\ UNCHANGED <<loginVars, sessionRow, ending, providerVars>>
      /\ hitches' \in {hitches, hitches + 1}
  BY DEF Use, UseFails, Hitch
<1>3. row # "none"
  BY <1>2 DEF SessionsIInv, RowStands, Using
<1>4. CASE request[q].at = "use"
  <2>1. UNCHANGED locked
    BY <1>2, <1>4 DEF SessionsIInv, LockStands, Holding
  <2>2. QED
    BY <1>1, <1>2, <1>3, <1>4, <2>1, UnlockedMoveKeepsSessions
    DEF RequestPlaces, Holding, Finished
<1>5. CASE request[q].at = "use under lock"
  <2>1. \A p \in Requests : p # q => request[p].at \notin Holding
    BY <1>5, HolderIsAlone DEF Holding
  <2>2. locked' = {}
    BY <1>2, <1>5, HolderIsAlone DEF Holding
  <2>3. /\ LockStands' /\ request' \in [Requests -> [at : RequestPlaces, token : Nat]]
        /\ \A p \in Requests : request'[p].at \notin Holding
    BY <1>1, <1>5, <2>2, LockGivenBack DEF Holding
  <2>4. hitches \in Nat /\ hitches' \in Nat /\ (hitches' = 0 => hitches = 0)
    BY <1>2 DEF SessionsIInv, SessionsTypes
  <2>5. SessionsTypes'
    BY <1>2, <2>3, <2>4 DEF SessionsIInv, SessionsTypes, loginVars, sessionRow, providerVars
  <2>6. SignInStands'
    BY <1>2, SignInRests
  <2>7. RowStands'
    BY <1>2, <1>3 DEF SessionsIInv, RowStands, sessionRow, providerVars
  <2>8. RefreshStands'
    BY <2>3 DEF RefreshStands, Holding
  <2>9. KeptInStep'
    <3>1. \A p \in Requests : request[p].at \notin {"store", "discard", "revoke"}
      BY <1>5, <2>1 DEF Holding
    <3>2. \A p \in Requests : request'[p].at \notin {"store", "discard", "revoke"}
      BY <2>3 DEF Holding
    <3>3. QED
      BY <1>2, <2>4, <3>1, <3>2
      DEF SessionsIInv, KeptInStep, InFlight, sessionRow, providerVars
  <2>10. QED
    BY <2>3, <2>5, <2>6, <2>7, <2>8, <2>9 DEF SessionsIInv
<1>6. QED
  BY <1>2, <1>4, <1>5 DEF Using

LEMMA RevokeRowKeepsSessions ==
    ASSUME SessionsIInv, NEW q \in Requests, RevokeRow(q)
    PROVE  SessionsIInv'
<1>1. /\ request[q].at = "revoke" /\ Moves(q, "denied", 0) /\ locked' = {} /\ row' = "revoked"
      /\ UNCHANGED <<loginVars, held, nearly, signedOut, ending, providerVars, hitches>>
  BY DEF RevokeRow
<1>2. /\ LockStands' /\ request' \in [Requests -> [at : RequestPlaces, token : Nat]]
      /\ \A p \in Requests : request'[p].at \notin Holding
  BY <1>1, LockGivenBack DEF Holding
<1>3. row # "none" /\ held > 0 /\ \A p \in Requests : p # q => request[p].at \notin Holding
  BY <1>1, HolderIsAlone DEF Holding
<1>4. SessionsTypes'
  BY <1>1, <1>2 DEF SessionsIInv, SessionsTypes, loginVars, providerVars
<1>5. SignInStands'
  BY <1>1, SignInRests
<1>6. RowStands'
  BY <1>1, <1>3 DEF SessionsIInv, RowStands, providerVars
<1>7. RefreshStands'
  BY <1>2 DEF RefreshStands, Holding
<1>8. KeptInStep'
  <2>1. hitches = 0 /\ ~demoted => valid = 0
    BY <1>1 DEF SessionsIInv, KeptInStep
  <2>2. QED
    BY <1>1, <1>2, <2>1 DEF SessionsIInv, KeptInStep, providerVars, Holding
<1>9. QED
  BY <1>2, <1>4, <1>5, <1>6, <1>7, <1>8 DEF SessionsIInv

LEMMA StoreTokensKeepsSessions ==
    ASSUME SessionsIInv, NEW q \in Requests, StoreTokens(q)
    PROVE  SessionsIInv'
<1>1. /\ request[q].at = "store"
      /\ UNCHANGED <<loginVars, row, signedOut, ending, providerVars, hitches>>
  BY DEF StoreTokens
<1>2. /\ row # "none" /\ held > 0 /\ locked = {q}
      /\ \A p \in Requests : p # q => request[p].at \notin Holding
  BY <1>1, HolderIsAlone DEF Holding
<1>3. request[q].token = issued /\ held < issued /\ issued \in Nat
  BY <1>1 DEF SessionsIInv, RefreshStands, SessionsTypes
<1>4. SignInStands'
  BY <1>1, SignInRests
<1>5. CASE row = "live"
  <2>1. /\ held' = issued /\ nearly' = FALSE /\ Moves(q, "admitted", 0) /\ locked' = {}
    BY <1>3, <1>5 DEF StoreTokens
  <2>2. /\ LockStands' /\ request' \in [Requests -> [at : RequestPlaces, token : Nat]]
        /\ \A p \in Requests : request'[p].at \notin Holding
    BY <1>1, <2>1, LockGivenBack DEF Holding
  <2>3. SessionsTypes'
    BY <1>1, <1>3, <2>1, <2>2 DEF SessionsIInv, SessionsTypes, loginVars, providerVars
  <2>4. RowStands'
    BY <1>1, <1>2, <1>3, <1>5, <2>1 DEF SessionsIInv, SessionsTypes, RowStands, providerVars
  <2>5. RefreshStands'
    BY <2>2 DEF RefreshStands, Holding
  <2>6. ~signedOut
    BY <1>5 DEF SessionsIInv, RowStands
  <2>7. valid \in {0, held'}
    BY <2>1 DEF SessionsIInv, SessionsTypes
  <2>8. KeptInStep'
    BY <1>1, <2>1, <2>2, <2>6, <2>7 DEF SessionsIInv, KeptInStep, providerVars, Holding
  <2>9. QED
    BY <1>4, <2>2, <2>3, <2>4, <2>5, <2>8 DEF SessionsIInv
<1>6. CASE row # "live"
  <2>1. row = "revoked"
    BY <1>2, <1>6 DEF SessionsIInv, SessionsTypes
  <2>2. Moves(q, "discard", request[q].token) /\ UNCHANGED <<held, nearly, locked>>
    BY <1>6 DEF StoreTokens
  <2>3. /\ request' \in [Requests -> [at : RequestPlaces, token : Nat]]
        /\ request'[q].at = "discard" /\ request'[q].token = issued
        /\ \A p \in Requests : p # q => request'[p] = request[p]
    BY <1>3, <2>2, MovesOne DEF SessionsIInv, RequestPlaces, Holding
  <2>4. SessionsTypes'
    BY <1>1, <2>2, <2>3 DEF SessionsIInv, SessionsTypes, loginVars, providerVars
  <2>5. \A p \in Requests : request'[p].at \in Holding <=> p = q
    BY <1>2, <2>3 DEF Holding
  <2>6. LockStands'
    BY <1>2, <2>2, <2>5 DEF LockStands
  <2>7. RowStands'
    BY <1>1, <2>1, <2>2 DEF SessionsIInv, RowStands, providerVars
  <2>8. RefreshStands'
    BY <1>1, <1>3, <2>1, <2>2, <2>3, <2>5 DEF RefreshStands, Holding, providerVars
  <2>9. KeptInStep'
    BY <1>1, <2>1, <2>2, <2>3, <2>5
    DEF SessionsIInv, KeptInStep, InFlight, providerVars, Holding
  <2>10. QED
    BY <1>4, <2>4, <2>6, <2>7, <2>8, <2>9 DEF SessionsIInv
<1>7. QED
  BY <1>5, <1>6

LEMMA DiscardKeepsSessions ==
    ASSUME SessionsIInv, NEW q \in Requests, Discard(q)
    PROVE  SessionsIInv'
<1>1. /\ request[q].at = "discard" /\ Moves(q, "denied", 0) /\ locked' = {}
      /\ Revoked(request[q].token)
      /\ UNCHANGED <<loginVars, sessionRow, ending, issued, replayed, demoted, hitches>>
  BY DEF Discard
<1>2. /\ LockStands' /\ request' \in [Requests -> [at : RequestPlaces, token : Nat]]
      /\ \A p \in Requests : request'[p].at \notin Holding
  BY <1>1, LockGivenBack DEF Holding
<1>3. request[q].token = issued /\ row = "revoked" /\ held > 0
  BY <1>1, HolderIsAlone DEF SessionsIInv, RefreshStands, Holding
<1>4. valid' = 0
  BY <1>1, <1>3 DEF Revoked, SessionsIInv, SessionsTypes
<1>5. SessionsTypes'
  BY <1>1, <1>2, <1>4 DEF SessionsIInv, SessionsTypes, loginVars, sessionRow
<1>6. SignInStands'
  BY <1>1, SignInRests
<1>7. RowStands'
  BY <1>1, <1>3 DEF SessionsIInv, RowStands, sessionRow
<1>8. RefreshStands'
  BY <1>2 DEF RefreshStands, Holding
<1>9. KeptInStep'
  <2>1. \A p \in Requests : request'[p].at \notin {"store", "discard", "revoke"}
    BY <1>2 DEF Holding
  <2>2. QED
    BY <1>1, <1>3, <1>4, <2>1
    DEF SessionsIInv, SessionsTypes, KeptInStep, InFlight, sessionRow
<1>10. QED
  BY <1>2, <1>5, <1>6, <1>7, <1>8, <1>9 DEF SessionsIInv

(* The row is ended, by a sign-out or beside it.                            *)
LEMMA EndingKeepsSessions ==
    ASSUME SessionsIInv,
           AccessNearlySpent \/ SignOut \/ ReadToken \/ EndSubject \/ RevokeToken \/ Unlinked
    PROVE  SessionsIInv'
<1> DEFINE Leaves ==
      /\ UNCHANGED <<loginVars, held, locked, request, issued, replayed, demoted, hitches>>
      /\ row' = row \/ (row' = "revoked" /\ row # "none")
      /\ row = "none" => row' = row /\ ending' = ending
      /\ nearly' = nearly \/ (nearly' /\ row = "live" /\ issued <= MaxRefresh)
      /\ valid' \in {0, valid} /\ ending' \in [at : EndingPlaces, token : Nat]
      /\ nearly' \in BOOLEAN /\ signedOut' \in BOOLEAN
    Reaches ==
      /\ signedOut' => row' = "revoked" /\ ending'.at \in {"revoke", "over"}
      /\ signedOut' /\ hitches = 0 => /\ ending'.at = "revoke" => ending'.token = held
                                      /\ ending'.at = "over" => valid' # held
<1> USE DEF SessionsIInv
<1>0. /\ signedOut => row = "revoked" /\ ending.at \in {"revoke", "over"} /\ held > 0
      /\ signedOut /\ hitches = 0 => /\ ending.at = "revoke" => ending.token = held
                                     /\ ending.at = "over" => valid # held
      /\ ending \in [at : EndingPlaces, token : Nat] /\ held \in Nat
      /\ nearly \in BOOLEAN /\ signedOut \in BOOLEAN
      /\ row = "none" => ending.at = "none"
  BY DEF RowStands, KeptInStep, SessionsTypes, NoEnding
<1>1. ASSUME AccessNearlySpent PROVE Leaves /\ Reaches
  BY <1>0, <1>1 DEF AccessNearlySpent, loginVars, providerVars
<1>2. ASSUME SignOut PROVE Leaves /\ Reaches
  BY <1>0, <1>2 DEF SignOut, loginVars, providerVars, EndingPlaces
<1>3. ASSUME ReadToken PROVE Leaves /\ Reaches
  BY <1>0, <1>3 DEF ReadToken, loginVars, sessionRow, providerVars, EndingPlaces, NoEnding
<1>4. ASSUME EndSubject PROVE Leaves /\ Reaches
  <2>1. row # "none"
    BY <1>4 DEF EndSubject, RowStands, NoEnding
  <2>2. QED
    BY <1>0, <1>4, <2>1 DEF EndSubject, loginVars, providerVars, EndingPlaces
<1>5. ASSUME RevokeToken PROVE Leaves /\ Reaches
  BY <1>0, <1>5 DEF RevokeToken, Revoked, loginVars, sessionRow, EndingPlaces
<1>6. ASSUME Unlinked PROVE Leaves /\ Reaches
  BY <1>0, <1>6 DEF Unlinked, loginVars, providerVars
<1>7. Leaves /\ Reaches
  BY <1>1, <1>2, <1>3, <1>4, <1>5, <1>6
<1> HIDE DEF Reaches
<1>8. SessionsTypes'
  BY <1>7 DEF SessionsTypes, loginVars
<1>9. SignInStands'
  BY <1>7, SignInRests
<1>10. LockStands' /\ RefreshStands'
  BY <1>7 DEF LockStands, RefreshStands, SessionsTypes
<1>11. RowStands'
  BY <1>7 DEF RowStands, Reaches
<1>12. KeptInStep'
  BY <1>7 DEF KeptInStep, InFlight, Reaches
<1>13. QED
  BY <1>8, <1>9, <1>10, <1>11, <1>12

(* A process that stops loses what was under way; that it did is a hitch.   *)
LEMMA StopKeepsSessions ==
    ASSUME SessionsIInv, Stop
    PROVE  SessionsIInv'
<1> USE DEF SessionsIInv
<1>1. /\ locked' = {} /\ hitches' = hitches + 1
      /\ UNCHANGED <<kind, state, made, sessionRow, providerVars>>
  BY DEF Stop, Hitch
<1>2. /\ request' \in [Requests -> [at : RequestPlaces, token : Nat]]
      /\ \A q \in Requests : request'[q].at \notin Holding /\ (row = "none" => request'[q].at = "none")
  BY DEF Stop, RequestPlaces, Holding, Finished, RowStands
<1>3. /\ callback' \in [Callbacks -> {"none", "verify", "over"}]
      /\ \A c \in Callbacks : callback'[c] # "verify" /\ (callback[c] = "none" => callback'[c] = "none")
  BY DEF Stop, SessionsTypes
<1>4. /\ ending' \in [at : EndingPlaces, token : Nat]
      /\ row = "none" => ending' = NoEnding
      /\ signedOut => ending'.at \in {"revoke", "over"}
  BY DEF Stop, SessionsTypes, EndingPlaces, NoEnding, RowStands
<1>5. SessionsTypes'
  BY <1>1, <1>2, <1>3, <1>4 DEF SessionsTypes, sessionRow, providerVars
<1>6. SignInStands'
  BY <1>1, <1>3 DEF SignInStands
<1>7. LockStands' /\ RefreshStands'
  BY <1>1, <1>2 DEF LockStands, RefreshStands, Holding
<1>8. RowStands'
  BY <1>1, <1>2, <1>4 DEF RowStands, sessionRow, providerVars
<1>9. KeptInStep'
  BY <1>1 DEF KeptInStep, SessionsTypes
<1>10. QED
  BY <1>5, <1>6, <1>7, <1>8, <1>9

LEMMA SessionsIInvStep ==
    ASSUME SessionsIInv, [SessionsNext]_sessionVars
    PROVE  SessionsIInv'
<1>1. CASE SessionsNext
  <2>1. ASSUME NEW q \in Requests, RequestStep(q)
        PROVE  SessionsIInv'
    BY <2>1, EnterKeepsSessions, UseKeepsSessions, RotateKeepsSessions, RotateFailsKeepsSessions,
       RevokeRowKeepsSessions, StoreTokensKeepsSessions, DiscardKeepsSessions DEF RequestStep
  <2>2. QED
    BY <1>1, <2>1, SignInKeepsSessions, ArriveKeepsSessions, EndingKeepsSessions,
       StopKeepsSessions DEF SessionsNext
<1>2. CASE UNCHANGED sessionVars
  BY <1>2 DEF sessionVars, loginVars, sessionRow, providerVars, SessionsIInv, SessionsTypes,
              SignInStands, LockStands, RowStands, RefreshStands, KeptInStep, InFlight
<1>3. QED
  BY <1>1, <1>2

LEMMA SessionsInvariant == SessionsSpec => []SessionsIInv
BY SessionsIInvInit, SessionsIInvStep, PTL DEF SessionsSpec

LEMMA SessionsIInvSuffices == SessionsIInv => SessionsTypeOK /\ SessionsInv
<1> SUFFICES ASSUME SessionsIInv PROVE SessionsTypeOK /\ SessionsInv
  OBVIOUS
<1> USE DEF SessionsIInv
<1>1. Cardinality(locked) <= 1
  <2>1. CASE locked = {}
    BY <2>1, FS_EmptySet
  <2>2. ASSUME NEW q \in locked
        PROVE  Cardinality(locked) <= 1
    <3>1. locked = {q}
      BY <2>2 DEF LockStands
    <3>2. QED
      BY <3>1, FS_Singleton
  <2>3. QED
    BY <2>1, <2>2
<1>2. SessionsTypeOK
  <2>1. held \in 0..(MaxRefresh + 1) /\ valid \in 0..issued /\ held <= issued
    BY SessionsAssumption DEF SessionsTypes, RowStands
  <2>2. locked = {q \in Requests : request[q].at \in {"use under lock"} \cup Refreshing}
    BY DEF LockStands, Holding, Refreshing
  <2>3. \A q \in Requests :
           request[q].at \in Finished \cup {"waiting"} \cup Using \cup Refreshing
    BY DEF SessionsTypes, RequestPlaces, Holding, Using, Refreshing
  <2>4. row \in {"none", "live", "revoked"}
    BY DEF SessionsTypes
  <2>5. QED
    BY <1>1, <2>1, <2>2, <2>3, <2>4 DEF SessionsTypeOK
<1>3. OneSessionPerSignIn
  BY DEF OneSessionPerSignIn, SessionsTypes
<1>4. NoTokenReplayed
  BY DEF NoTokenReplayed, KeptInStep
<1>5. SignOutReachesProvider
  BY DEF SignOutReachesProvider, KeptInStep, InFlight, Refreshing
<1>6. QED
  BY <1>2, <1>3, <1>4, <1>5 DEF SessionsInv

(* A sign-in makes one session; with no failure no spent token is presented *)
(* and a sign-out leaves the provider no token of the session; whatever     *)
(* requests, endings and restarts meet the refresh (_refresh, sign_out,     *)
(* end_subject).                                                            *)
THEOREM SignOutIsComplete == SessionsSpec => [](SessionsTypeOK /\ SessionsInv)
BY SessionsInvariant, SessionsIInvSuffices, PTL

-----------------------------------------------------------------------------
(* Account links *)

Notices == [to : Members, of : Subjects] \cup [to : Members, of : Subjects, sent : {TRUE}]

CodeRows == [st : {"none", "live", "used", "dead"}, of : Members \cup {NoOne},
             email : Subjects \cup {NoOne}]
SignIns == [at : {"none", "verified", "linking", "linked", "over"}, code : Codes \cup {NoOne},
            sub : Subjects \cup {NoOne}]
LinkRows == [sub : Subjects \cup {NoOne}, notified : BOOLEAN]

AccountsTypes ==
    /\ consent \in [Members -> Subjects \cup {NoOne}] /\ agreed \in [Members -> SUBSET Subjects]
    /\ requests \in [Members -> Nat] /\ calls \in [Members -> Nat] /\ accepted \in [Members -> Nat]
    /\ code \in [Codes -> CodeRows]
    /\ uses \in [Codes -> 0..1]
    /\ browser \in [Browsers -> SignIns]
    /\ link \in [Members -> LinkRows]
    /\ web \subseteq Subjects /\ told \subseteq Members /\ shut \subseteq Members
    /\ announcer \subseteq Notices

(* What was asked of the provider today is on record, once, but for what    *)
(* seemed to fail.                                                          *)
RequestsStand ==
    \A m \in Members :
        /\ calls[m] <= requests[m] /\ requests[m] <= 1
        /\ m \notin misjudged => accepted[m] + calls[m] <= requests[m]

(* A code is somebody's, for an email they consented to; one that lives was *)
(* not used, and is the only one its member has.                            *)
CodesStand ==
    /\ \A m \in Members : consent[m] # NoOne => consent[m] \in agreed[m]
    /\ \A c \in Codes : code[c] # NoCode =>
          code[c].of \in Members /\ code[c].email \in agreed[code[c].of]
    /\ \A c \in Codes : code[c].st \in {"none", "live"} => uses[c] = 0
    /\ \A c, d \in Codes :
          code[c].st = "live" /\ code[d].st = "live" /\ code[c].of = code[d].of => c = d

(* A browser that is linking holds the row of its code, alone.              *)
BrowsersStand ==
    /\ \A b \in Browsers : browser[b].at # "none" =>
          browser[b].code \in Codes /\ browser[b].sub \in Subjects
    /\ \A b \in Browsers : browser[b].at = "linking" =>
          code[browser[b].code].st = "live" /\ code[browser[b].code].email = browser[b].sub
    /\ \A a, b \in Browsers :
          browser[a].at = "linking" /\ browser[b].at = "linking" /\ browser[a].code = browser[b].code
             => a = b

(* Two members never have one subject, nor one that neither agreed to.      *)
LinksStand ==
    /\ \A m \in Members : link[m].sub # NoOne => link[m].sub \in agreed[m]
    /\ \A m, n \in Members : link[m].sub # NoOne /\ link[m].sub = link[n].sub => m = n

AccountsIInv == AccountsTypes /\ RequestsStand /\ CodesStand /\ BrowsersStand /\ LinksStand

LEMMA AccountsIInvInit == AccountLinksInit => AccountsIInv
<1> SUFFICES ASSUME AccountLinksInit PROVE AccountsIInv
  OBVIOUS
<1> USE DEF AccountLinksInit, NoCode, NoLink, NotFollowing, CodeRows, SignIns, LinkRows
<1>1. AccountsTypes
  BY DEF AccountsTypes
<1>2. RequestsStand
  BY DEF RequestsStand
<1>3. CodesStand /\ BrowsersStand /\ LinksStand
  BY DEF CodesStand, BrowsersStand, LinksStand
<1>4. QED
  BY <1>1, <1>2, <1>3 DEF AccountsIInv

(* One field of one row is written.                                         *)
LEMMA OneCodeMoves ==
    ASSUME NEW rows \in [Codes -> CodeRows], NEW c \in Codes, NEW st \in {"used", "dead"},
           NEW next, next = [rows EXCEPT ![c].st = st]
    PROVE  /\ next \in [Codes -> CodeRows] /\ next[c].st = st
           /\ next[c].of = rows[c].of /\ next[c].email = rows[c].email
           /\ \A d \in Codes : d # c => next[d] = rows[d]
<1>1. rows[c] \in CodeRows /\ next[c] = [rows[c] EXCEPT !.st = st]
  OBVIOUS
<1>2. /\ next[c] \in CodeRows /\ next[c].st = st
      /\ next[c].of = rows[c].of /\ next[c].email = rows[c].email
  BY ONLY <1>1, st \in {"used", "dead"} DEF CodeRows
<1>3. /\ \A d \in Codes : d # c => next[d] = rows[d]
      /\ next = [d \in Codes |-> next[d]]
  OBVIOUS
<1>4. \A d \in Codes : next[d] \in CodeRows
  BY <1>2, <1>3
<1>5. next \in [Codes -> CodeRows]
  BY ONLY <1>3, <1>4
<1>6. QED
  BY <1>2, <1>3, <1>5

LEMMA OneBrowserMoves ==
    ASSUME NEW rows \in [Browsers -> SignIns], NEW b \in Browsers,
           NEW at \in {"linking", "linked", "over"}, NEW next, next = [rows EXCEPT ![b].at = at]
    PROVE  /\ next \in [Browsers -> SignIns] /\ next[b].at = at
           /\ next[b].code = rows[b].code /\ next[b].sub = rows[b].sub
           /\ \A a \in Browsers : a # b => next[a] = rows[a]
<1>1. rows[b] \in SignIns /\ next[b] = [rows[b] EXCEPT !.at = at]
  OBVIOUS
<1>2. /\ next[b] \in SignIns /\ next[b].at = at
      /\ next[b].code = rows[b].code /\ next[b].sub = rows[b].sub
  BY ONLY <1>1, at \in {"linking", "linked", "over"} DEF SignIns
<1>3. /\ \A a \in Browsers : a # b => next[a] = rows[a]
      /\ next = [a \in Browsers |-> next[a]]
  OBVIOUS
<1>4. \A a \in Browsers : next[a] \in SignIns
  BY <1>2, <1>3
<1>5. next \in [Browsers -> SignIns]
  BY ONLY <1>3, <1>4
<1>6. QED
  BY <1>2, <1>3, <1>5

(* The requests: everything but the codes, the browsers and the links.      *)
LEMMA AskingKeepsAccounts ==
    ASSUME AccountsIInv, NEW m \in Members,
           AskStep(m) \/ \E e \in Subjects : Reserve(m, e)
    PROVE  AccountsIInv'
<1> USE DEF AccountsIInv, AccountsTypes, CodeRows, SignIns, LinkRows
<1>1. UNCHANGED <<codeVars, browser, linkVars, announcer>>
  BY DEF AskStep, Reserve, ProviderAccepts, ProviderFails, RequestsAge
<1>2. /\ consent' \in [Members -> Subjects \cup {NoOne}] /\ agreed' \in [Members -> SUBSET Subjects]
      /\ \A n \in Members : agreed[n] \subseteq agreed'[n]
      /\ \A n \in Members : consent'[n] # NoOne => consent'[n] \in agreed'[n]
  <2>1. CASE \E e \in Subjects : Reserve(m, e)
    BY <2>1 DEF Reserve, CodesStand
  <2>2. CASE AskStep(m)
    BY <2>2 DEF AskStep, ProviderAccepts, ProviderFails, RequestsAge, CodesStand
  <2>3. QED
    BY <2>1, <2>2
<1>3. /\ requests' \in [Members -> Nat] /\ calls' \in [Members -> Nat]
      /\ accepted' \in [Members -> Nat] /\ RequestsStand'
  <2>1. CASE \E e \in Subjects : Reserve(m, e)
    BY <2>1 DEF Reserve, Counted, RequestsStand
  <2>2. CASE ProviderAccepts(m)
    BY <2>2 DEF ProviderAccepts, RequestsStand
  <2>3. CASE ProviderFails(m)
    BY <2>3 DEF ProviderFails, RequestsStand
  <2>4. CASE RequestsAge(m)
    BY <2>4 DEF RequestsAge, RequestsStand
  <2>5. QED
    BY <2>1, <2>2, <2>3, <2>4 DEF AskStep
<1>4. AccountsTypes'
  BY <1>1, <1>2, <1>3 DEF codeVars, linkVars
<1>5. CodesStand'
  BY <1>1, <1>2 DEF CodesStand, codeVars
<1>6. BrowsersStand'
  BY <1>1 DEF BrowsersStand, codeVars
<1>7. LinksStand'
  BY <1>1, <1>2 DEF LinksStand, linkVars
<1>8. QED
  BY <1>3, <1>4, <1>5, <1>6, <1>7

LEMMA RequestsRest ==
    ASSUME RequestsStand, UNCHANGED askingVars
    PROVE  RequestsStand'
BY DEF RequestsStand, askingVars

(* A code is issued, and kills the one before it, or it expires.            *)
LEMMA CodesKeepAccounts ==
    ASSUME AccountsIInv, NEW c \in Codes,
           CodeExpires(c) \/ \E m \in Members : IssueCode(m, c)
    PROVE  AccountsIInv'
<1> USE DEF AccountsIInv, AccountsTypes, CodeRows, SignIns, LinkRows
<1>1. UNCHANGED <<askingVars, uses, browser, linkVars, announcer>>
  BY DEF CodeExpires, IssueCode
<1>2. code' \in [Codes -> CodeRows]
  <2>1. CASE CodeExpires(c)
    BY <2>1, OneCodeMoves DEF CodeExpires
  <2>2. ASSUME NEW m \in Members, IssueCode(m, c)
        PROVE  code' \in [Codes -> CodeRows]
    <3>1. code' = Issued(m, c) /\ consent[m] \in Subjects
      BY <2>2 DEF IssueCode
    <3>2. \A d \in Codes : [code[d] EXCEPT !.st = "dead"] \in CodeRows
      <4>1. \A d \in Codes : code[d] \in CodeRows
        OBVIOUS
      <4>2. QED
        BY ONLY <4>1 DEF CodeRows
    <3>3. [st |-> "live", of |-> m, email |-> consent[m]] \in CodeRows
      BY <3>1
    <3>4. \A d \in Codes : Issued(m, c)[d] \in CodeRows
      BY <3>2, <3>3 DEF Issued
    <3>5. Issued(m, c) = [d \in Codes |-> Issued(m, c)[d]]
      BY DEF Issued
    <3>6. QED
      BY ONLY <3>1, <3>4, <3>5
  <2>3. QED
    BY <2>1, <2>2
<1>3. AccountsTypes'
  BY <1>1, <1>2 DEF askingVars, linkVars
<1>4. RequestsStand' /\ LinksStand'
  BY <1>1, RequestsRest DEF askingVars, linkVars, LinksStand
<1>5. CodesStand'
  <2>1. CASE CodeExpires(c)
    <3>1. /\ UNCHANGED <<consent, agreed, uses>> /\ code[c].st = "live"
          /\ code' = [code EXCEPT ![c].st = "dead"]
      BY <1>1, <2>1 DEF CodeExpires, askingVars
    <3>2. /\ code'[c].of = code[c].of /\ code'[c].email = code[c].email /\ code'[c].st = "dead"
          /\ \A d \in Codes : d # c => code'[d] = code[d]
      BY <3>1
    <3>3. code[c] # NoCode
      BY <3>1 DEF NoCode
    <3>4. QED
      BY <3>1, <3>2, <3>3 DEF CodesStand
  <2>2. ASSUME NEW m \in Members, IssueCode(m, c)
        PROVE  CodesStand'
    <3>1. /\ code'[c] = [st |-> "live", of |-> m, email |-> consent[m]]
          /\ \A d \in Codes : d # c =>
                /\ code'[d].of = code[d].of /\ code'[d].email = code[d].email
                /\ code'[d].st \in {"none", "live"} => (code'[d] = code[d])
                /\ code'[d].st = "live" => (code[d].of # m)
                /\ code'[d] # NoCode => (code[d] # NoCode)
      BY <2>2 DEF IssueCode, Issued, NoCode
    <3>2. consent[m] \in agreed[m] /\ code[c] = NoCode /\ uses[c] = 0
      BY <2>2 DEF IssueCode, CodesStand, NoCode
    <3>3. UNCHANGED <<consent, agreed, uses>>
      BY <1>1 DEF askingVars
    <3>4. \A d \in Codes : code'[d] # NoCode =>
             code'[d].of \in Members /\ code'[d].email \in agreed[code'[d].of]
      BY <3>1, <3>2 DEF CodesStand
    <3>5. \A d \in Codes : code'[d].st \in {"none", "live"} => uses[d] = 0
      BY <3>1, <3>2 DEF CodesStand
    <3>6. \A d, e \in Codes :
             code'[d].st = "live" /\ code'[e].st = "live" /\ code'[d].of = code'[e].of => d = e
      BY <3>1 DEF CodesStand
    <3>7. QED
      BY <3>3, <3>4, <3>5, <3>6 DEF CodesStand
  <2>3. QED
    BY <2>1, <2>2
<1>6. BrowsersStand'
  <2>1. \A d \in Codes : Linking(d) => code'[d] = code[d]
    <3>1. CASE CodeExpires(c)
      BY <3>1 DEF CodeExpires
    <3>2. ASSUME NEW m \in Members, IssueCode(m, c), NEW d \in Codes, Linking(d)
          PROVE  code'[d] = code[d]
      <4>1. code[d].st = "live" /\ d # c /\ code[d].of # m
        BY <3>2 DEF Linking, IssueCode, BrowsersStand, NoCode
      <4>2. QED
        BY <3>2, <4>1 DEF IssueCode, Issued
    <3>3. QED
      BY <3>1, <3>2
  <2>2. \A b \in Browsers : browser[b].at = "linking" =>
           Linking(browser[b].code) /\ browser[b].code \in Codes
    BY DEF Linking, BrowsersStand
  <2>3. QED
    BY <1>1, <2>1, <2>2 DEF BrowsersStand
<1>7. QED
  BY <1>3, <1>4, <1>5, <1>6

(* A browser goes on, with no link made.                                    *)
LEMMA BrowsersKeepAccounts ==
    ASSUME AccountsIInv, NEW b \in Browsers,
           LockCode(b) \/ OpenSession(b) \/ \E c \in Codes, s \in Subjects : Follow(b, c, s)
    PROVE  AccountsIInv'
<1> USE DEF AccountsIInv, AccountsTypes, CodeRows, SignIns, LinkRows
<1>1. UNCHANGED <<askingVars, codeVars, link, told, shut, announcer>>
  BY DEF LockCode, OpenSession, Follow, linkVars
<1>2. /\ browser' \in [Browsers -> SignIns]
      /\ web' \subseteq Subjects
  <2>1. CASE LockCode(b)
    BY <2>1 DEF LockCode, linkVars
  <2>2. CASE OpenSession(b)
    BY <2>2 DEF OpenSession, BrowsersStand
  <2>3. ASSUME NEW c \in Codes, NEW s \in Subjects, Follow(b, c, s)
        PROVE  /\ browser' \in [Browsers -> SignIns]
               /\ web' \subseteq Subjects
    BY <2>3 DEF Follow, linkVars
  <2>4. QED
    BY <2>1, <2>2, <2>3
<1>3. AccountsTypes'
  BY <1>1, <1>2 DEF askingVars, codeVars
<1>4. RequestsStand' /\ CodesStand' /\ LinksStand'
  BY <1>1, RequestsRest DEF askingVars, codeVars, LinksStand, CodesStand
<1>5. BrowsersStand'
  <2>1. CASE LockCode(b)
    <3>1. /\ browser'[b].at \in {"linking", "over"}
          /\ browser'[b].code = browser[b].code /\ browser'[b].sub = browser[b].sub
          /\ browser'[b].at = "linking" => MayLink(b)
          /\ \A a \in Browsers : a # b => browser'[a] = browser[a]
      BY <2>1 DEF LockCode
    <3>2. browser[b].at = "verified" /\ \A a \in Browsers :
             browser[a].at = "linking" => browser[a].code # browser[b].code
      BY <2>1 DEF LockCode, Linking
    <3>3. MayLink(b) => code[browser[b].code].st = "live"
                        /\ code[browser[b].code].email = browser[b].sub
      BY DEF MayLink
    <3>4. browser[b].code \in Codes /\ browser[b].sub \in Subjects
      BY <3>2 DEF BrowsersStand
    <3>5. code' = code
      BY <1>1 DEF codeVars
    <3>6. \A a \in Browsers : browser'[a].at = "linking" =>
             code[browser'[a].code].st = "live" /\ code[browser'[a].code].email = browser'[a].sub
      BY <3>1, <3>3 DEF BrowsersStand
    <3>7. \A a, d \in Browsers :
             browser'[a].at = "linking" /\ browser'[d].at = "linking"
                /\ browser'[a].code = browser'[d].code => a = d
      BY <3>1, <3>2 DEF BrowsersStand
    <3>8. \A a \in Browsers : browser'[a].at # "none" =>
             browser'[a].code \in Codes /\ browser'[a].sub \in Subjects
      BY <3>1, <3>4 DEF BrowsersStand
    <3>9. QED
      BY <3>5, <3>6, <3>7, <3>8 DEF BrowsersStand
  <2>2. CASE OpenSession(b)
    BY <1>1, <2>2 DEF OpenSession, BrowsersStand, codeVars
  <2>3. ASSUME NEW c \in Codes, NEW s \in Subjects, Follow(b, c, s)
        PROVE  BrowsersStand'
    BY <1>1, <2>3 DEF Follow, BrowsersStand, codeVars
  <2>4. QED
    BY <2>1, <2>2, <2>3
<1>6. QED
  BY <1>3, <1>4, <1>5

(* The link is written: the code was the member's, for that email, and the  *)
(* subject is nobody else's.                                                *)
LEMMA WriteLinkKeepsAccounts ==
    ASSUME AccountsIInv, NEW b \in Browsers, WriteLink(b)
    PROVE  AccountsIInv'
<1> DEFINE c == browser[b].code
           s == browser[b].sub
           m == code[c].of
<1> USE DEF AccountsIInv, AccountsTypes, CodeRows, SignIns, LinkRows
<1>1. /\ browser[b].at = "linking" /\ c \in Codes /\ s \in Subjects
      /\ code[c].st = "live" /\ code[c].email = s
      /\ UNCHANGED <<askingVars, crossed, unlinks, announcer, slips>>
  BY DEF WriteLink, BrowsersStand
<1>2. m \in Members /\ s \in agreed[m] /\ uses[c] = 0
  BY <1>1 DEF CodesStand, NoCode
<1>3. RequestsStand'
  BY <1>1, RequestsRest
<1>4. CASE Taken(s, m)
  <2>1. browser' = [browser EXCEPT ![b].at = "over"] /\ UNCHANGED <<link, web, told, shut, codeVars>>
    BY <1>4 DEF WriteLink
  <2>2. /\ browser' \in [Browsers -> SignIns] /\ browser'[b].at = "over"
        /\ browser'[b].code = browser[b].code /\ browser'[b].sub = browser[b].sub
        /\ \A a \in Browsers : a # b => browser'[a] = browser[a]
    <3>1. browser \in [Browsers -> SignIns]
      OBVIOUS
    <3>2. QED
      BY ONLY <2>1, <3>1, b \in Browsers, OneBrowserMoves
  <2>3. AccountsTypes'
    BY <1>1, <2>1, <2>2 DEF askingVars, codeVars
  <2>4. CodesStand' /\ LinksStand'
    BY <1>1, <2>1 DEF askingVars, codeVars, CodesStand, LinksStand
  <2>5. BrowsersStand'
    BY <1>1, <2>1, <2>2 DEF codeVars, BrowsersStand
  <2>6. QED
    BY <1>3, <2>3, <2>4, <2>5
<1>5. CASE ~Taken(s, m)
  <2>1. /\ browser' = [browser EXCEPT ![b].at = "linked"]
        /\ link' = [link EXCEPT ![m] = [sub |-> s, notified |-> FALSE]]
        /\ web' = IF link[m].sub = s THEN web ELSE web \ {link[m].sub}
        /\ told' = told \ {m} /\ shut' = shut \ {m}
        /\ code' = [code EXCEPT ![c].st = "used"] /\ uses' = [uses EXCEPT ![c] = @ + 1]
    BY <1>5 DEF WriteLink
  <2>10. /\ code' \in [Codes -> CodeRows] /\ code'[c].st = "used"
         /\ code'[c].of = m /\ code'[c].email = code[c].email
         /\ \A d \in Codes : d # c => code'[d] = code[d]
    <3>1. PICK k \in Codes : k = c
      BY <1>1
    <3>2. code' = [code EXCEPT ![k].st = "used"] /\ code \in [Codes -> CodeRows]
      BY <2>1, <3>1
    <3>3. /\ code' \in [Codes -> CodeRows] /\ code'[k].st = "used"
          /\ code'[k].of = code[k].of /\ code'[k].email = code[k].email
          /\ \A d \in Codes : d # k => code'[d] = code[d]
      BY ONLY <3>1, <3>2, OneCodeMoves
    <3>4. QED
      BY ONLY <3>1, <3>3
  <2>11. /\ browser' \in [Browsers -> SignIns] /\ browser'[b].at = "linked"
         /\ browser'[b].code = c /\ browser'[b].sub = s
         /\ \A a \in Browsers : a # b => browser'[a] = browser[a]
    <3>1. browser \in [Browsers -> SignIns]
      OBVIOUS
    <3>2. QED
      BY ONLY <2>1, <3>1, b \in Browsers, OneBrowserMoves
  <2>2. \A n \in Members : link[n].sub = s => n = m
    BY <1>5 DEF Taken, Owners
  <2>3. UNCHANGED <<consent, agreed, requests, calls, accepted, announcer>>
    BY <1>1 DEF askingVars
  <2>4. AccountsTypes'
    <3>1. /\ consent' \in [Members -> Subjects \cup {NoOne}]
          /\ agreed' \in [Members -> SUBSET Subjects]
          /\ requests' \in [Members -> Nat] /\ calls' \in [Members -> Nat]
          /\ accepted' \in [Members -> Nat] /\ announcer' \subseteq Notices
      BY <2>3
    <3>2. uses' \in [Codes -> 0..1]
      <4>1. PICK k \in Codes : k = c
        BY <1>1
      <4>2. uses' = [uses EXCEPT ![k] = @ + 1] /\ uses[k] = 0
        BY <1>2, <2>1, <4>1
      <4>3. QED
        BY ONLY <4>1, <4>2, AccountsIInv DEF AccountsIInv, AccountsTypes
    <3>3. code' \in [Codes -> CodeRows] /\ browser' \in [Browsers -> SignIns]
      BY <2>10, <2>11
    <3>4. /\ link' \in [Members -> LinkRows]
          /\ web' \subseteq Subjects /\ told' \subseteq Members /\ shut' \subseteq Members
      BY <1>1, <1>2, <2>1
    <3>5. QED
      BY <3>1, <3>2, <3>3, <3>4
  <2>5. LinksStand'
    BY <1>2, <2>1, <2>2, <2>3 DEF LinksStand
  <2>6. \A d \in Codes : /\ code'[d].of = code[d].of /\ code'[d].email = code[d].email
                         /\ d # c => code'[d] = code[d] /\ uses'[d] = uses[d]
                         /\ code'[d] # NoCode => code[d] # NoCode
                         /\ code'[d].st \in {"none", "live"} => d # c /\ code'[d] = code[d]
    <3>1. code[c] # NoCode
      BY <1>1 DEF NoCode
    <3>2. \A d \in Codes : d # c => uses'[d] = uses[d]
      BY <2>1
    <3>3. QED
      BY ONLY <2>10, <3>1, <3>2
  <2>7. CodesStand'
    BY <2>3, <2>6 DEF CodesStand
  <2>8. BrowsersStand'
    <3>1. \A a \in Browsers : /\ browser'[a].code = browser[a].code
                              /\ browser'[a].sub = browser[a].sub
                              /\ browser'[a].at = "linking" =>
                                    browser[a].at = "linking" /\ a # b
                              /\ browser'[a].at # "none" => browser[a].at # "none"
      BY ONLY <1>1, <2>11
    <3>2. \A a \in Browsers : browser'[a].at = "linking" => browser[a].code # c
      BY <1>1, <3>1 DEF BrowsersStand
    <3>3. QED
      BY <2>6, <3>1, <3>2 DEF BrowsersStand
  <2>9. QED
    BY <1>3, <2>4, <2>5, <2>7, <2>8
<1>6. QED
  BY <1>4, <1>5

LEMMA UnlinkKeepsAccounts ==
    ASSUME AccountsIInv, NEW m \in Members, Unlink(m)
    PROVE  AccountsIInv'
<1> USE DEF AccountsIInv, AccountsTypes, CodeRows, SignIns, LinkRows
<1>1. /\ link' = [link EXCEPT ![m] = NoLink] /\ web' = web \ {link[m].sub}
      /\ told' = told \ {m} /\ shut' = shut \ {m}
      /\ UNCHANGED <<askingVars, codeVars, browser, announcer>>
  BY DEF Unlink
<1>2. AccountsTypes'
  BY <1>1 DEF askingVars, codeVars, NoLink
<1>3. RequestsStand' /\ CodesStand' /\ BrowsersStand'
  BY <1>1, RequestsRest DEF askingVars, codeVars, CodesStand, BrowsersStand
<1>4. LinksStand'
  BY <1>1 DEF LinksStand, NoLink, askingVars
<1>5. QED
  BY <1>2, <1>3, <1>4

(* What the bot tells and marks, and what it loses when it stops.           *)
LEMMA AnnouncingKeepsAccounts ==
    ASSUME AccountsIInv, AnnounceStep \/ BotRestarts
    PROVE  AccountsIInv'
<1> USE DEF AccountsIInv, AccountsTypes, CodeRows, SignIns, LinkRows
<1>1. /\ UNCHANGED <<consent, agreed, requests, misjudged, codeVars, browser, web>>
      /\ announcer' \subseteq Notices /\ told' \subseteq Members /\ shut' \subseteq Members
      /\ link' \in [Members -> LinkRows]
      /\ \A m \in Members : link'[m].sub = link[m].sub
  <2>1. CASE ReadUnannounced
    <3>1. Unannounced \subseteq Notices
      <4>1. ASSUME NEW m \in Members, link[m].sub # NoOne
            PROVE  [to |-> m, of |-> link[m].sub] \in Notices
        <5>1. link[m].sub \in Subjects
          BY <4>1
        <5>2. QED
          BY <5>1 DEF Notices
      <4>2. QED
        BY <4>1 DEF Unannounced
    <3>2. QED
      BY <2>1, <3>1 DEF ReadUnannounced, askingVars, linkVars
  <2>2. ASSUME NEW notice \in announcer,
               Tell(notice) \/ FindShut(notice) \/ TellFails(notice) \/ Mark(notice)
        PROVE  /\ UNCHANGED <<consent, agreed, requests, misjudged, codeVars, browser, web>>
               /\ announcer' \subseteq Notices /\ told' \subseteq Members /\ shut' \subseteq Members
               /\ link' \in [Members -> LinkRows]
               /\ \A m \in Members : link'[m].sub = link[m].sub
    <3>1. notice.to \in Members /\ notice.of \in Subjects
      BY DEF Notices
    <3>2. CASE Tell(notice) \/ FindShut(notice)
      <4>1. [to |-> notice.to, of |-> notice.of, sent |-> TRUE] \in Notices
        BY <3>1 DEF Notices
      <4>2. QED
        BY <3>1, <3>2, <4>1 DEF Tell, FindShut, Done, Addressed, askingVars
    <3>3. CASE TellFails(notice)
      BY <3>3 DEF TellFails, askingVars, linkVars
    <3>4. CASE Mark(notice)
      <4>1. /\ UNCHANGED <<consent, agreed, requests, misjudged, codeVars, browser, web, told,
                         shut>>
            /\ announcer' = announcer \ {notice} /\ link' = AfterMark(notice.of)
        BY <3>4 DEF Mark, askingVars
      <4>2. \A m \in Members : /\ link'[m] \in LinkRows
                               /\ link'[m].sub = link[m].sub
        <5>1. \A m \in Members : /\ link[m] \in LinkRows
                                 /\ link'[m] \in {link[m], [link[m] EXCEPT !.notified = TRUE]}
          BY <4>1 DEF AfterMark
        <5>2. QED
          BY ONLY <5>1 DEF LinkRows
      <4>3. link' = [m \in Members |-> link'[m]]
        BY <4>1 DEF AfterMark
      <4>4. QED
        BY <4>1, <4>2, <4>3
    <3>5. QED
      BY <2>2, <3>2, <3>3, <3>4
  <2>3. CASE BotRestarts
    BY <2>3 DEF BotRestarts, linkVars
  <2>4. QED
    BY <2>1, <2>2, <2>3 DEF AnnounceStep
<1>2. calls' \in [Members -> Nat] /\ accepted' \in [Members -> Nat] /\ RequestsStand'
  <2>1. CASE AnnounceStep
    <3>1. UNCHANGED askingVars
      BY <2>1 DEF AnnounceStep, ReadUnannounced, Tell, FindShut, TellFails, Mark
    <3>2. QED
      BY <3>1, RequestsRest DEF askingVars
  <2>2. CASE BotRestarts
    <3>1. PICK S \in SUBSET {m \in Members : calls[m] > 0} :
             accepted' = [m \in Members |-> accepted[m] + IF m \in S THEN calls[m] ELSE 0]
      BY <2>2 DEF BotRestarts
    <3>2. calls' = [m \in Members |-> 0] /\ UNCHANGED <<requests, misjudged>>
      BY <2>2 DEF BotRestarts
    <3>3. accepted' \in [Members -> Nat] /\ calls' \in [Members -> Nat]
      BY <3>1, <3>2
    <3>4. \A m \in Members : accepted'[m] <= accepted[m] + calls[m]
      BY <3>1
    <3>5. RequestsStand'
      BY <3>2, <3>3, <3>4 DEF RequestsStand
    <3>6. QED
      BY <3>3, <3>5
  <2>3. QED
    BY <2>1, <2>2
<1>3. AccountsTypes'
  BY <1>1, <1>2 DEF codeVars
<1>4. CodesStand' /\ BrowsersStand' /\ LinksStand'
  BY <1>1 DEF CodesStand, BrowsersStand, LinksStand, codeVars
<1>5. QED
  BY <1>2, <1>3, <1>4

LEMMA AccountsIInvStep ==
    ASSUME AccountsIInv, [AccountLinksNext]_accountVars
    PROVE  AccountsIInv'
<1>1. CASE AccountLinksNext
  BY <1>1, AskingKeepsAccounts, CodesKeepAccounts, BrowsersKeepAccounts, WriteLinkKeepsAccounts,
     UnlinkKeepsAccounts, AnnouncingKeepsAccounts DEF AccountLinksNext, LinkStep
<1>2. CASE UNCHANGED accountVars
  BY <1>2 DEF accountVars, askingVars, codeVars, linkVars, AccountsIInv, AccountsTypes,
              RequestsStand, CodesStand, BrowsersStand, LinksStand
<1>3. QED
  BY <1>1, <1>2

LEMMA AccountsInvariant == AccountLinksSpec => []AccountsIInv
BY AccountsIInvInit, AccountsIInvStep, PTL DEF AccountLinksSpec

LEMMA AccountsIInvSuffices == AccountsIInv => AccountLinksTypeOK /\ AccountLinksInv
<1> SUFFICES ASSUME AccountsIInv PROVE AccountLinksTypeOK /\ AccountLinksInv
  OBVIOUS
<1> USE DEF AccountsIInv
<1>1. AccountLinksTypeOK
  BY DEF AccountLinksTypeOK, AccountsTypes, RequestsStand, CodeRows, SignIns
<1>2. LinkedByProof
  BY DEF LinkedByProof, LinksStand, Owners
<1>3. CodesAreSingle
  BY DEF CodesAreSingle, CodesStand, AccountsTypes
<1>4. WithinTheLimit
  <2>1. \A m \in Members : accepted[m] \in Nat /\ calls[m] \in Nat /\ requests[m] \in Nat
    BY DEF AccountsTypes
  <2>2. QED
    BY <2>1 DEF WithinTheLimit, RequestsStand
<1>5. QED
  BY <1>1, <1>2, <1>3, <1>4 DEF AccountLinksInv

(* Whoever holds a code and signs in, and whatever fails or restarts: a     *)
(* link is to a subject whose email its member consented to and to nobody   *)
(* else's, a code makes one link and the last one issued is the only one    *)
(* that lives, and the provider is asked once a day (AccountLinking.link,   *)
(* reserve, issue_link_code).                                               *)
THEOREM LinksRestOnProof == AccountLinksSpec => [](AccountLinksTypeOK /\ AccountLinksInv)
BY AccountsInvariant, AccountsIInvSuffices, PTL

-----------------------------------------------------------------------------
(* The doors together *)

(* Where they turn one at a time, each of the five is what it is alone.     *)
LEMMA DoorsTakeTurns ==
    DoorsSpec => /\ ConfirmationsSpec /\ SessionsSpec /\ AccountLinksSpec /\ FederationSpec
                 /\ Spec
<1> DEFINE doorsVars ==
               <<confirmationVars, sessionVars, accountVars, federationVars, vars, turn>>
<1>1. DoorsInit => ConfirmationsInit /\ SessionsInit /\ AccountLinksInit /\ FederationInit /\ Init
  BY DEF DoorsInit
<1>2. [DoorsNext]_doorsVars =>
         /\ [ConfirmationsNext]_confirmationVars /\ [SessionsNext]_sessionVars
         /\ [AccountLinksNext]_accountVars /\ [FederationNext]_federationVars /\ [Next]_vars
  BY DEF DoorsNext, ApprovingTurn, SigningInTurn, AccountsTurn, ToolsTurn, ErasingTurn
<1>3. QED
  BY <1>1, <1>2, PTL
  DEF DoorsSpec, ConfirmationsSpec, SessionsSpec, AccountLinksSpec, FederationSpec, Spec

(* Of the five together: every place holds what it should, a session keeps  *)
(* what it promises, a link rests on proof, no yes is left over, and        *)
(* nobody's access is lent (what the theorems above say of each).           *)
THEOREM DoorsKeepTheirPromises ==
    DoorsSpec => [](DoorsInv /\ AccountLinksInv /\ NoYesLeftOver /\ FederationInv)
<1>1. ConfirmationsIInv => ConfirmationsTypeOK
  BY DEF ConfirmationsIInv, ConfirmationsTypes, Answers, ConfirmationsTypeOK
<1>2. FederationIInv => FederationTypeOK
  BY DEF FederationIInv, FederationTypes, FederationTypeOK, CallRecord, PostRecord, CallStates
<1>3. IInv => TypeOK
  BY DEF IInv
<1>4. DoorsSpec => [](DoorsTypeOK /\ SessionsInv)
  BY <1>1, <1>2, <1>3, DoorsTakeTurns, ConfirmationsInvariant, FederationInvariant,
     ErasureInvariant, SignOutIsComplete, LinksRestOnProof, PTL DEF DoorsTypeOK
<1>5. DoorsSpec => [](AccountLinksInv /\ NoYesLeftOver /\ FederationInv)
  BY DoorsTakeTurns, LinksRestOnProof, YesIsSpent, NobodysAccessIsLent, PTL
<1>6. QED
  BY <1>4, <1>5, PTL DEF DoorsInv

LEMMA NextTokenType ==
    ASSUME SessionsTypes
    PROVE  issued + 1 \in Nat
BY SessionsAssumption DEF SessionsAssumption, SessionsTypes

(* Once a session has ended it stays so, and of the requests only those are *)
(* let in that had its row in hand before (authenticate, _use, _refresh).   *)
THEOREM EndedSessionsTurnAway == SessionsSpec => EndedTurnsAway
<1> DEFINE Passing == Using \cup {"admitted"}
           TurnsAway == row = "revoked" =>
                           /\ row' = "revoked"
                           /\ \A q \in Requests :
                                 request[q].at \notin Passing => request'[q].at \notin Passing
<1>1. ASSUME SessionsIInv, SessionsNext, row = "revoked"
      PROVE  row' = "revoked"
  <2>1. ASSUME NEW q \in Requests, RequestStep(q) PROVE row' = "revoked"
    BY <1>1, <2>1 DEF RequestStep, Enter, Use, UseFails, Rotate, RotateFails, RevokeRow,
                      StoreTokens, Discard, sessionRow
  <2>2. ASSUME NEW c \in Callbacks, Consume(c) \/ CreateSession(c) \/ SignInFails(c)
        PROVE  row' = "revoked"
    BY <1>1, <2>2 DEF Consume, CreateSession, SignInFails, sessionRow
  <2>3. QED
    BY <1>1, <2>1, <2>2 DEF SessionsNext, Arrive, AccessNearlySpent, SignOut, ReadToken,
                            EndSubject, RevokeToken, Unlinked, Stop, sessionRow
<1>2. ASSUME SessionsIInv, SessionsNext, row = "revoked",
             NEW q \in Requests, request[q].at \notin Passing
      PROVE  request'[q].at \notin Passing
  <2> USE <1>2 DEF SessionsIInv, SessionsTypes, Using
  <2>1. ASSUME NEW p \in Requests, Arrive(p) \/ Enter(p) \/ StoreTokens(p)
        PROVE  request'[q].at \notin Passing
    <3>1. PICK at \in {"denied", "discard"}, t \in Nat : Moves(p, at, t)
      BY <2>1 DEF Arrive, Enter, StoreTokens
    <3>2. QED
      BY <3>1 DEF Moves
  <2>2. ASSUME NEW p \in Requests, Use(p) \/ UseFails(p)
        PROVE  request'[q].at \notin Passing
    BY <2>2 DEF Use, UseFails, Moves
  <2>3. ASSUME NEW p \in Requests, Rotate(p) \/ RotateFails(p) \/ RevokeRow(p) \/ Discard(p)
        PROVE  request'[q].at \notin Passing
    <3>1. PICK at \in {"store", "revoke", "denied"}, t \in Nat : Moves(p, at, t)
      <4>1. issued + 1 \in Nat
        BY NextTokenType
      <4>2. CASE Rotate(p)
        BY <4>1, <4>2 DEF Rotate
      <4>3. CASE RotateFails(p) \/ RevokeRow(p) \/ Discard(p)
        BY <4>3 DEF RotateFails, RevokeRow, Discard
      <4>4. QED
        BY <2>3, <4>2, <4>3
    <3>2. QED
      BY <3>1 DEF Moves
  <2>4. CASE Stop
    BY <2>4 DEF Stop
  <2>5. ASSUME NEW c \in Callbacks, Consume(c) \/ CreateSession(c) \/ SignInFails(c)
        PROVE  UNCHANGED request
    BY <2>5 DEF Consume, CreateSession, SignInFails
  <2>6. CASE AccessNearlySpent \/ SignOut \/ ReadToken \/ EndSubject \/ RevokeToken \/ Unlinked
    <3>1. UNCHANGED request
      BY <2>6 DEF AccessNearlySpent, SignOut, ReadToken, EndSubject, RevokeToken, Unlinked
    <3>2. QED
      BY <3>1
  <2>7. QED
    BY <2>1, <2>2, <2>3, <2>4, <2>5, <2>6 DEF SessionsNext, RequestStep
<1>3. SessionsIInv /\ [SessionsNext]_sessionVars => [TurnsAway]_sessionVars
  BY <1>1, <1>2
<1>4. QED
  BY SessionsInvariant, <1>3, PTL DEF SessionsSpec, EndedTurnsAway

(* Where the five doors turn together too, nothing sets out on a word that  *)
(* was taken back or a session that has ended before it was looked at       *)
(* (state_for, authenticate).                                               *)
THEOREM NothingPassesOnceTakenBack == DoorsSpec => OnlyWhileItHolds
BY DoorsTakeTurns, LastWordDecides, EndedSessionsTurnAway, PTL DEF OnlyWhileItHolds
=============================================================================
