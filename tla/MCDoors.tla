------------------------------- MODULE MCDoors -------------------------------
(***************************************************************************)
(* Where people let something happen: they approve a tool's call, they     *)
(* sign in to the console or to their own page, they link an account, they *)
(* have a remote tool called, with the bot's token or with a key of their  *)
(* own, and they delete everything.  The five share no row here, and turn  *)
(* one at a time, so that TLC checks the sum of their states.  Account links turn   *)
(* three times: requests and a provider that fails, two emails and two     *)
(* browsers through linking, and a bot that announces, fails and restarts  *)
(* while one account changes hands.                                        *)
(***************************************************************************)
EXTENDS Confirmations, Sessions, AccountLinks, Federation, Erasure

CONSTANTS m1, m2, s1, s2, k1, k2, b1, b2, p1, p2, f1, f2

VARIABLE turn

OnTools == turn \in {"lending keys", "sharing"}
OnAccounts == turn \in {"asking", "linking", "announcing"}

DoorsInit ==
    /\ turn \in {"approving", "signing in", "asking", "linking", "announcing",
                 "lending keys", "sharing", "erasing"}
    /\ ConfirmationsInit /\ SessionsInit /\ AccountLinksInit /\ FederationInit /\ Init
    /\ ~OnTools => minted = 0
    /\ turn # "signing in" => kind = "user"

(* Members are interchangeable, and so are codes and browsers.              *)
InOrder == /\ agreed'[m2] # {} => agreed'[m1] # {}
           /\ code'[k2] # NoCode => code'[k1] # NoCode
           /\ browser'[b2] # NotFollowing => browser'[b1] # NotFollowing

AccountsTurn ==
    /\ OnAccounts /\ AccountLinksNext /\ InOrder
    /\ turn = "asking" => code' = code
    /\ turn # "asking" => \A m \in Members : calls[m] > 0 => accepted'[m] = 1
    /\ turn = "linking" => unlinks' + slips' + Cardinality(shut') = 0
    /\ turn = "announcing" => /\ UNION {agreed'[m] : m \in Members} \subseteq {s1}
                              /\ \A b \in Browsers : browser'[b].sub # s2
    /\ UNCHANGED <<confirmationVars, sessionVars, federationVars, vars, turn>>

ApprovingTurn ==
    /\ turn = "approving" /\ ConfirmationsNext
    /\ UNCHANGED <<sessionVars, accountVars, federationVars, vars, turn>>

SigningInTurn ==
    /\ turn = "signing in" /\ SessionsNext
    /\ UNCHANGED <<confirmationVars, accountVars, federationVars, vars, turn>>

(* Beside the messages, one thing at a time: a row written about the        *)
(* person, a trace that quotes them or, instead of these, a second of voice. *)
ErasingTurn ==
    /\ turn = "erasing" /\ Next
    /\ Cardinality(derived') + Cardinality(quoting') + charged' <= 1
    /\ UNCHANGED <<confirmationVars, sessionVars, accountVars, federationVars, turn>>

(* With keys the token is one; with tokens nobody has a key.                *)
ToolsTurn ==
    /\ OnTools /\ UNCHANGED turn
    /\ FederationNext
    /\ call'[f2] # NotAsked => call'[f1] # NotAsked
    /\ turn = "lending keys" => refused' = {} /\ ages' = 0 /\ call'[f2].tool # "search"
    /\ turn = "sharing" => /\ connected' = <<>> /\ ages' <= 1
                           /\ \A c \in Calls : call'[c].who # p2 /\ call'[c].tool # "mine"
    /\ UNCHANGED <<confirmationVars, sessionVars, accountVars, vars>>

DoorsNext == ApprovingTurn \/ SigningInTurn \/ AccountsTurn \/ ToolsTurn \/ ErasingTurn

(* What a process has begun it goes on with; nobody need press a button,    *)
(* follow a link or come back.                                              *)
DoorsFairness ==
    /\ \A r \in Runs : /\ WF_confirmationVars(turn = "approving" /\ GateStep(r))
                       /\ WF_confirmationVars(turn = "approving" /\ DeskDeadline(r))
    /\ \A q \in Requests : WF_sessionVars(turn = "signing in" /\ RequestStep(q))
    /\ WF_accountVars(OnAccounts /\ AnnounceStep)
    /\ \A c \in Calls : /\ WF_federationVars(OnTools /\ CallStep(c))
                        /\ WF_federationVars(OnTools /\ PostStep(c))

ErasingFairness ==
    /\ \A r \in Runners : WF_vars(turn = "erasing" /\ Steps(r))
    /\ WF_vars(turn = "erasing" /\ \E k \in Ids : SweepPick(k))

DoorsSpec ==
    /\ DoorsInit /\ [][DoorsNext]_<<confirmationVars, sessionVars, accountVars, federationVars, vars, turn>>
    /\ DoorsFairness /\ ErasingFairness
-----------------------------------------------------------------------------
(* Requests, runs, calls and sessions are in one place each.                *)
DoorsTypeOK ==
    TypeOK /\ ConfirmationsTypeOK /\ SessionsTypeOK /\ AccountLinksTypeOK /\ FederationTypeOK

(* Everything is in one place, and a session keeps what it promises.        *)
DoorsInv == DoorsTypeOK /\ SessionsInv

(* Nothing sets out on a word or a session that was taken back before: what *)
(* a check has let pass is not looked at again.                             *)
OnlyWhileItHolds == CallsOnTheLastWord /\ EndedTurnsAway

(* Whoever asks gets an answer, also of a tool elsewhere, and whoever was   *)
(* linked hears of it.                                                      *)
DoorsAnswer == RunsEnd /\ RequestsAnswered /\ LinksAnnounced /\ CallsEnd
=============================================================================
