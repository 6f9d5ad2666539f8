------------------------------ MODULE MCLoops -------------------------------
(***************************************************************************)
(* The loops of a process: alerts, scheduled questions, the news of        *)
(* suggestions, and the refresh of the configuration.  They share no row,  *)
(* so one of them turns at a time, and TLC checks the sum of their states  *)
(* instead of the product.  Alerts turn twice: a position through all that *)
(* can happen to one alert, and a health factor beside a price through     *)
(* what one sweep does with two alerts of a person.  Settings turn twice:  *)
(* one with a parser, and the two lists of federation.                     *)
(***************************************************************************)
EXTENDS Alerts, Schedules, Suggestions, Configuration

CONSTANTS owner, lp, hf, btc, t1, t2, r1, r2, server, tool

VARIABLE turn

MCAlertOwner == [a \in Alerts |-> owner]
MCAlertKind == [a \in Alerts |-> CASE a = lp -> "lp" [] a = hf -> "health" [] OTHER -> "price"]
MCConfirmations == [lp |-> 2, health |-> 1, price |-> 1]
MCTaskOwner == [t \in Tasks |-> owner]
MCIdeaAuthor == [r \in Ideas |-> owner]
MCEnvironment == [s \in Settings |-> IF s = "scalar" THEN {"wide"} ELSE {}]
MCServerOf == [t \in Tools |-> server]

Watching == CASE turn = "position" -> {lp} [] turn = "pair" -> {hf, btc} [] OTHER -> {}
Still(a) == CASE a = lp -> Reading("out_of_range", 0)
              [] a = hf -> Reading("no_debt", 0)
              [] OTHER  -> Reading("price", 0)

Init ==
    /\ turn \in {"position", "pair", "schedules", "suggestions", "settings", "lists"}
    /\ AlertsInit /\ SchedulesInit /\ SuggestionsInit /\ ConfigurationInit
    /\ \A a \in Alerts \ Watching : watched[a] = Still(a)

OnAlerts == turn \in {"position", "pair"}

AlertsTurn ==
    /\ OnAlerts /\ AlertsNext
    /\ \A a \in Alerts \ Watching : watched'[a] = watched[a] /\ proposal'[owner].alert # a
    /\ turn = "pair" => troubles' = 0 /\ swings' <= 1
    /\ UNCHANGED <<taskVars, suggestionVars, configurationVars, turn>>

OnSettings == turn \in {"settings", "lists"}

ConfigurationTurn ==
    /\ OnSettings /\ ConfigurationNext
    /\ turn = "settings" => \A e \in Edits : edit'[e].op = "none"
    /\ turn = "lists" => rows'["scalar"] = rows["scalar"]
    /\ UNCHANGED <<alertVars, taskVars, suggestionVars, turn>>

Next ==
    \/ AlertsTurn
    \/ /\ turn = "schedules" /\ SchedulesNext
       /\ UNCHANGED <<alertVars, suggestionVars, configurationVars, turn>>
    \/ /\ turn = "suggestions" /\ SuggestionsNext
       /\ UNCHANGED <<alertVars, taskVars, configurationVars, turn>>
    \/ ConfigurationTurn

(* The loops run for ever: what is due is claimed, and a sweep goes on.     *)
AlertsFairness ==
    /\ \A a \in Alerts : WF_alertVars(OnAlerts /\ AlertTick(a))
    /\ WF_alertVars(OnAlerts /\ ClaimAlerts)
    /\ WF_alertVars(OnAlerts /\ ReadAlerts({}))
    /\ WF_alertVars(OnAlerts /\ SweepStep)

SchedulesFairness ==
    /\ \A t \in Tasks : WF_taskVars(turn = "schedules" /\ IntervalPasses(t))
    /\ WF_taskVars(turn = "schedules" /\ ClaimTasks)
    /\ WF_taskVars(turn = "schedules" /\ TaskSweepStep)

SuggestionsFairness ==
    /\ WF_suggestionVars(turn = "suggestions" /\ \E S \in SUBSET Ideas : ClaimNews(S))
    /\ WF_suggestionVars(turn = "suggestions" /\ NewsStep)

SettingsFairness ==
    \A p \in Processes : WF_configurationVars(OnSettings /\ RefreshStep(p))

Spec == /\ Init
        /\ [][Next]_<<alertVars, taskVars, suggestionVars, configurationVars, turn>>
        /\ AlertsFairness /\ SchedulesFairness /\ SuggestionsFairness /\ SettingsFairness
-----------------------------------------------------------------------------
(* A sweep holds what it claimed and no more, in each of the loops.         *)
LoopsTypeOK == AlertsTypeOK /\ SchedulesTypeOK /\ SuggestionsTypeOK /\ ConfigurationTypeOK

(* Nothing is done twice for one cause or beyond a person's limit.          *)
LoopsInv == LoopsTypeOK /\ OncePerInterval /\ CapUnlessTogether /\ LimitHolds

(* What the loops owe a person arrives, and what an operator stored applies.*)
LoopsDeliver == AlarmIsTold /\ TasksKeepRunning /\ NewsArrives /\ EditsTakeHold
=============================================================================
