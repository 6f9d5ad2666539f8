------------------------------ MODULE Federation ------------------------------
(***************************************************************************)
(* The tools of a remote server the bot calls for people: one connection   *)
(* shared by everybody, which carries the deployment's own token, and one  *)
(* of its own for each call with a person's key.  The shared connection is *)
(* one object of the process: what one call does to it, to the token it    *)
(* caches or to the mark that the server was lost, meets all the others.   *)
(*                                                                         *)
(* Abstractions.  There is one server, the one whose personal tools take a *)
(* person's key, with an open tool and a personal one.  Tokens and keys    *)
(* are numbered in the order they are minted.  Tools that change something *)
(* wait for a confirmation, which is module Confirmations.  All of it is   *)
(* in the memory of the bot, keys aside, and a restart is the initial      *)
(* state again.                                                            *)
(***************************************************************************)
EXTENDS Integers, FiniteSets, Sequences

CONSTANTS
    Calls,      \* the calls runs make, each one once
    People,
    MaxKeys,    \* keys people connect
    MaxTokens,  \* tokens the issuer gives
    MaxErrors   \* errors of the shared connection

Tools == {"search", "mine"}
Personal == {"mine"}
Nobody == "nobody"

(* The connection at start takes a token.                                   *)
ASSUME FederationAssumption ==
    /\ {MaxKeys, MaxTokens, MaxErrors} \subseteq Nat /\ MaxTokens > 0
    /\ Nobody \notin Calls \cup People

NotAsked == [at |-> "idle", tool |-> "none", who |-> Nobody, direct |-> FALSE, key |-> 0,
             outcome |-> "none"]
NotPosted == [at |-> "none", token |-> 0, sends |-> 0]

VARIABLES
    offered,   \* Registration.tools
    lost,      \* Federation._lost, by the call that marked the server (Nobody: none has)
    call,      \* each run's invoke
    post,      \* the HTTP request behind a call on the shared connection
    token,     \* ServiceTokenSource._token (0: none)
    aged,      \* _expires_at has passed
    lock,      \* _lock, by the call whose request mints
    minted,    \* tokens the issuer has given
    refused,   \* tokens the server refuses
    keyOf,     \* a person's row of person_secret
    connected, \* keys connected so far, by whom
    revoked,   \* keys the server refuses
    ages,      \* times the cached token passed its margin (auxiliary)
    errors

tokenVars == <<token, aged, lock, minted, refused, ages>>
keyVars == <<keyOf, connected, revoked>>
federationVars == <<offered, lost, call, post, tokenVars, keyVars, errors>>

(* connect and register at start: the server is there or it is not, and     *)
(* lists what it lists.  A personal tool need not be listed; without the    *)
(* other the whole of federation is dropped.                                *)
Registered(reachable, listed) ==
    IF reachable /\ Tools \ Personal \subseteq listed THEN Tools ELSE {}

FederationInit ==
    /\ \E reachable \in BOOLEAN, listed \in SUBSET Tools :
          /\ offered = Registered(reachable, listed)
          /\ minted = IF reachable THEN 1 ELSE 0
    /\ lost = Nobody
    /\ call = [c \in Calls |-> NotAsked] /\ post = [c \in Calls |-> NotPosted]
    /\ token = minted /\ aged = FALSE /\ lock = Nobody /\ refused = {} /\ ages = 0
    /\ keyOf = [p \in People |-> 0] /\ connected = <<>> /\ revoked = {}
    /\ errors = 0

Told(c, outcome) == [call EXCEPT ![c].at = "over", ![c].outcome = outcome]

----------------------------------------------------------------------------
(* The invoker *)

(* The run wants a tool.  A personal one is held to the asker's DM, and its *)
(* key is looked up; another goes out on the shared connection, unless the  *)
(* server was lost.                                                         *)
Invoke(c, p, tool, direct) ==
    LET asked == [NotAsked EXCEPT !.tool = tool, !.who = p, !.direct = direct] IN
    /\ call[c] = NotAsked /\ tool \in offered
    /\ CASE tool \in Personal /\ ~direct ->
                /\ call' = [call EXCEPT ![c] = [asked EXCEPT !.at = "over", !.outcome = "refused"]]
                /\ UNCHANGED post
         [] tool \in Personal /\ direct ->
                /\ call' = [call EXCEPT ![c] = [asked EXCEPT !.at = "key"]]
                /\ UNCHANGED post
         [] tool \notin Personal /\ lost # Nobody ->
                /\ call' = [call EXCEPT ![c] = [asked EXCEPT !.at = "over", !.outcome = "unavailable"]]
                /\ UNCHANGED post
         [] OTHER ->
                /\ call' = [call EXCEPT ![c] = [asked EXCEPT !.at = "shared"]]
                /\ post' = [post EXCEPT ![c] = [NotPosted EXCEPT !.at = "wants"]]
    /\ UNCHANGED <<offered, lost, tokenVars, keyVars, errors>>

(* A mutant: without a key the call goes as every other tool's.             *)
LookUpKeyLeniently(c) ==
    LET key == keyOf[call[c].who] IN
    /\ call[c].at = "key"
    /\ IF key = 0
       THEN /\ call' = [call EXCEPT ![c].at = "shared"]
            /\ post' = [post EXCEPT ![c] = [NotPosted EXCEPT !.at = "wants"]]
       ELSE /\ call' = [call EXCEPT ![c].at = "keyed", ![c].key = key] /\ UNCHANGED post
    /\ UNCHANGED <<offered, lost, tokenVars, keyVars, errors>>

(* _personal_bearer, _without_key: the asker's key as it is stored now.     *)
LookUpKey(c) ==
    LET key == keyOf[call[c].who] IN
    /\ call[c].at = "key"
    /\ call' = IF key = 0 THEN Told(c, "no key")
               ELSE [call EXCEPT ![c].at = "keyed", ![c].key = key]
    /\ UNCHANGED <<offered, lost, post, tokenVars, keyVars, errors>>

(* What of a result the run sees: one marked as a person's own, by a tool   *)
(* of any name, is dropped outside their DM.                                *)
Shown(c, personal) ==
    IF personal THEN IF call[c].direct THEN "own data" ELSE "withheld" ELSE "data"

----------------------------------------------------------------------------
(* A call with the asker's key, on a connection of its own *)

KeyedAnswer(c, personal) ==
    /\ call[c].at = "keyed" /\ call[c].key \notin revoked
    /\ call' = Told(c, Shown(c, personal))
    /\ UNCHANGED <<offered, lost, post, tokenVars, keyVars, errors>>

KeyRejected(c) ==
    /\ call[c].at = "keyed" /\ call[c].key \in revoked
    /\ call' = Told(c, "key rejected")
    /\ UNCHANGED <<offered, lost, post, tokenVars, keyVars, errors>>

(* A mutant: any failure is the server's.                                   *)
KeyedFailsForAll(c) ==
    /\ call[c].at = "keyed" /\ call' = Told(c, "unavailable") /\ lost' = c
    /\ UNCHANGED <<offered, post, tokenVars, keyVars, errors>>

(* Any other failure is the asker's and not the server's.                   *)
KeyedFails(c) ==
    /\ call[c].at = "keyed" /\ call' = Told(c, "unavailable")
    /\ UNCHANGED <<offered, lost, post, tokenVars, keyVars, errors>>

----------------------------------------------------------------------------
(* A call on the shared connection *)

(* ServiceBearerAuth: the request takes the cached token, or mints one with *)
(* the lock held; the others wait for it.                                   *)
TakeToken(c) ==
    /\ post[c].at = "wants" /\ lock = Nobody
    /\ IF token = 0 \/ aged
       THEN /\ lock' = c /\ post' = [post EXCEPT ![c].at = "minting"]
       ELSE /\ post' = [post EXCEPT ![c].at = "sent", ![c].token = token, ![c].sends = @ + 1]
            /\ UNCHANGED lock
    /\ UNCHANGED <<offered, lost, call, token, aged, minted, refused, ages, keyVars, errors>>

Mint(c) ==
    /\ post[c].at = "minting" /\ minted < MaxTokens
    /\ minted' = minted + 1 /\ token' = minted' /\ aged' = FALSE /\ lock' = Nobody
    /\ post' = [post EXCEPT ![c].at = "sent", ![c].token = minted', ![c].sends = @ + 1]
    /\ UNCHANGED <<offered, lost, call, refused, ages, keyVars, errors>>

(* The issuer is unreachable or refuses: the request fails, and what was    *)
(* cached stays as it is.                                                   *)
MintFails(c) ==
    /\ post[c].at = "minting"
    /\ lock' = Nobody /\ post' = [post EXCEPT ![c].at = "failed"]
    /\ UNCHANGED <<offered, lost, call, token, aged, minted, refused, ages, keyVars, errors>>

(* A mutant: whatever is cached is dropped.                                 *)
InvalidateAny(c) == 0

(* Dropped if it is still the one the server refused.                       *)
Invalidate(c) == IF token = post[c].token THEN 0 ELSE token

(* A 401: the first is answered with another token, the second is final.    *)
Refuse(c) ==
    /\ post[c].at = "sent" /\ post[c].token \in refused
    /\ IF post[c].sends = 1
       THEN /\ token' = Invalidate(c) /\ post' = [post EXCEPT ![c].at = "wants"]
       ELSE /\ post' = [post EXCEPT ![c].at = "failed"] /\ UNCHANGED token
    /\ UNCHANGED <<offered, lost, call, aged, lock, minted, refused, ages, keyVars, errors>>

(* The tool ran.  The run hears of it if it is still waiting.               *)
ToolAnswers(c, outcome) ==
    /\ post[c].at = "sent" /\ post[c].token \notin refused
    /\ outcome \in {Shown(c, TRUE), Shown(c, FALSE), "tool error"}
    /\ post' = [post EXCEPT ![c].at = "done"]
    /\ call' = IF call[c].at = "shared" THEN Told(c, outcome) ELSE call
    /\ UNCHANGED <<offered, lost, tokenVars, keyVars, errors>>

(* Any error of the shared connection marks the server lost, for as long as *)
(* the process lives: of this request, once it has failed, or of the        *)
(* connection itself.                                                       *)
SharedFails(c) ==
    /\ call[c].at = "shared"
    /\ post[c].at # "failed" => errors < MaxErrors
    /\ errors' = errors + IF post[c].at = "failed" THEN 0 ELSE 1
    /\ lost' = c /\ call' = Told(c, "unavailable")
    /\ UNCHANGED <<offered, post, tokenVars, keyVars>>

(* Either kind of call is bounded in time.  The request behind one on the   *)
(* shared connection may be left to run, holding the lock if it mints.      *)
TimesOut(c) ==
    /\ call[c].at \in {"shared", "keyed"}
    /\ call' = Told(c, "timeout")
    /\ UNCHANGED <<offered, lost, post, tokenVars, keyVars, errors>>

(* Or it is cancelled with the call, and lets go of the lock.               *)
Cancelled(c) ==
    /\ call[c].at = "over" /\ post[c].at \in {"wants", "minting", "sent"}
    /\ post' = [post EXCEPT ![c].at = "failed"]
    /\ lock' = IF lock = c THEN Nobody ELSE lock
    /\ UNCHANGED <<offered, lost, call, token, aged, minted, refused, ages, keyVars, errors>>

----------------------------------------------------------------------------
(* Outside *)

TokenAges ==
    /\ token # 0 /\ ~aged /\ ages < MaxTokens
    /\ aged' = TRUE /\ ages' = ages + 1
    /\ UNCHANGED <<offered, lost, call, post, token, lock, minted, refused, keyVars, errors>>

(* The server forgets every token it was given so far.                      *)
TokensRefused ==
    /\ minted \notin refused /\ minted > 0 /\ refused' = 1..minted
    /\ UNCHANGED <<offered, lost, call, post, token, aged, lock, minted, ages, keyVars, errors>>

(* The person sends a key in their DM, over the one they had.               *)
ConnectKey(p) ==
    /\ Len(connected) < MaxKeys
    /\ connected' = Append(connected, p) /\ keyOf' = [keyOf EXCEPT ![p] = Len(connected')]
    /\ UNCHANGED <<offered, lost, call, post, tokenVars, revoked, errors>>

ForgetKey(p) ==
    /\ keyOf[p] # 0 /\ keyOf' = [keyOf EXCEPT ![p] = 0]
    /\ UNCHANGED <<offered, lost, call, post, tokenVars, connected, revoked, errors>>

KeyExpires(p) ==
    /\ keyOf[p] \notin revoked \cup {0} /\ revoked' = revoked \cup {keyOf[p]}
    /\ UNCHANGED <<offered, lost, call, post, tokenVars, keyOf, connected, errors>>

----------------------------------------------------------------------------
KeyedStep(c) == LookUpKey(c) \/ KeyRejected(c) \/ KeyedFails(c)
                \/ \E personal \in BOOLEAN : KeyedAnswer(c, personal)
PostStep(c) == \/ TakeToken(c) \/ Mint(c) \/ MintFails(c) \/ Refuse(c) \/ Cancelled(c)
               \/ \E outcome \in {"data", "own data", "withheld", "tool error"} : ToolAnswers(c, outcome)
CallStep(c) == KeyedStep(c) \/ SharedFails(c) \/ TimesOut(c)

FederationNext ==
    \/ \E c \in Calls : CallStep(c) \/ PostStep(c)
    \/ \E c \in Calls, p \in People, tool \in Tools, direct \in BOOLEAN : Invoke(c, p, tool, direct)
    \/ TokenAges \/ TokensRefused
    \/ \E p \in People : ConnectKey(p) \/ ForgetKey(p) \/ KeyExpires(p)

FederationSpec == FederationInit /\ [][FederationNext]_federationVars

----------------------------------------------------------------------------
FederationTypeOK ==
    /\ offered \in SUBSET Tools /\ lost \in Calls \cup {Nobody} /\ lock \in Calls \cup {Nobody}
    /\ token \in 0..MaxTokens /\ minted \in 0..MaxTokens /\ aged \in BOOLEAN
    /\ \A c \in Calls :
        /\ call[c].at \in {"idle", "key", "keyed", "shared", "over"}
        /\ post[c].at \in {"none", "wants", "minting", "sent", "failed", "done"}
        /\ post[c].sends \in 0..2

(* The deployment's own access never stands in for a person's: a personal   *)
(* tool goes out with a key its asker connected, in their DM, or not at all. *)
OwnKeyOnly ==
    \A c \in Calls :
        /\ call[c].at = "keyed" => call[c].direct /\ connected[call[c].key] = call[c].who
        /\ post[c].at # "none" => call[c].tool \notin Personal

(* What the server marks as somebody's own is shown in a DM and nowhere     *)
(* else, also when a tool not known as personal returns it.                 *)
OwnDataInPrivate == \A c \in Calls : call[c].outcome = "own data" => call[c].direct

(* Nobody's tools are taken away by one person's key or by a slow answer:   *)
(* the server is marked lost by a call that failed on the shared connection. *)
LostForAll ==
    lost # Nobody => /\ call[lost].tool \notin Personal
                     /\ call[lost].outcome = "unavailable"

(* A burst of refusals costs one new token: beyond the first, each token    *)
(* issued follows one that aged or that the server refused.                 *)
OneTokenPerRefusal == minted <= 1 + ages + Cardinality(refused)

(* The lock is somebody's whose request is being served with a new token.   *)
LockHeld == lock # Nobody => post[lock].at = "minting"

FederationInv == OwnKeyOnly /\ OwnDataInPrivate /\ LostForAll /\ OneTokenPerRefusal /\ LockHeld

(* Every call ends (each is made once), and no request keeps the lock from  *)
(* the others, also one whose call is over.                                 *)
CallsEnd == []<>(lock = Nobody /\ \A c \in Calls : call[c].at \in {"idle", "over"})
=============================================================================
