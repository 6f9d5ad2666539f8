------------------------------- MODULE Sessions -------------------------------
(***************************************************************************)
(* Browser sessions of the console and of the user area: a sign-in whose   *)
(* state is used once, requests that refresh the access token under a lock *)
(* of the session, sign-out, and the end of every session of a subject.    *)
(* The provider's refresh tokens rotate, and it revokes the family when a  *)
(* spent one is presented, so the two stores must keep in step.            *)
(*                                                                         *)
(* Abstractions.  A refresh token is its number in the session's family.   *)
(* What a token says is left out; its verification takes time, and fails   *)
(* when the provider's keys cannot be had.  The admin process runs one     *)
(* replica.                                                                *)
(***************************************************************************)
EXTENDS Integers, FiniteSets

CONSTANTS
    Requests,    \* requests of one session's browser
    Callbacks,   \* callbacks that carry the state of its sign-in
    MaxRefresh,  \* refreshes
    MaxHitches   \* failures of the provider, and restarts

ASSUME SessionsAssumption == MaxRefresh \in Nat /\ MaxHitches \in Nat

VARIABLES
    kind,        \* "console", or "user"
    state,       \* admin_login: "begun" or "used"
    callback,    \* each callback
    made,        \* sessions the sign-in made (auxiliary)
    row,         \* "none", "live" or "revoked"
    held,        \* the refresh token in the row
    nearly,      \* its access token is nearly spent
    locked,      \* who refreshes: a set of at most one request
    request,     \* each request: where it is, and the token it was given
    ending,      \* sign-out, or end_subject
    issued,      \* tokens the provider issued in the family
    valid,       \* the one it takes, 0 for none
    replayed,    \* a spent token was presented (auxiliary)
    signedOut,   \* the row was revoked by a sign-out (auxiliary)
    demoted,     \* the roles were gone at a refresh (auxiliary)
    hitches

loginVars == <<kind, state, callback, made>>
sessionRow == <<row, held, nearly, signedOut>>
providerVars == <<issued, valid, replayed, demoted>>
sessionVars == <<loginVars, sessionRow, locked, request, ending, providerVars, hitches>>

NoEnding == [at |-> "none", token |-> 0]

SessionsInit ==
    /\ kind \in {"console", "user"} /\ state = "begun"
    /\ callback = [c \in Callbacks |-> "none"] /\ made = 0
    /\ row = "none" /\ held = 0 /\ nearly = FALSE /\ signedOut = FALSE
    /\ locked = {} /\ request = [q \in Requests |-> [at |-> "none", token |-> 0]]
    /\ ending = NoEnding
    /\ issued = 0 /\ valid = 0 /\ replayed = FALSE /\ demoted = FALSE /\ hitches = 0

Hitch == hitches < MaxHitches /\ hitches' = hitches + 1

----------------------------------------------------------------------------
(* Signing in *)

(* CONSUME_ADMIN_LOGIN: marking it used is the lookup.                      *)
Consume(c) ==
    /\ callback[c] = "none"
    /\ callback' = [callback EXCEPT ![c] = IF state = "begun" THEN "verify" ELSE "over"]
    /\ state' = "used"
    /\ UNCHANGED <<kind, made, sessionRow, locked, request, ending, providerVars, hitches>>

(* The code is exchanged, and nothing has failed: a session.                *)
CreateSession(c) ==
    /\ callback[c] = "verify" /\ callback' = [callback EXCEPT ![c] = "over"]
    /\ made' = made + 1 /\ state' = "used"
    /\ IF row = "none"
       THEN row' = "live" /\ held' = 1 /\ issued' = 1 /\ valid' = 1
       ELSE UNCHANGED <<row, held, issued, valid>>
    /\ UNCHANGED <<kind, nearly, signedOut, locked, request, ending, replayed, demoted, hitches>>

SignInFails(c) ==
    /\ callback[c] = "verify" /\ callback' = [callback EXCEPT ![c] = "over"]
    /\ UNCHANGED <<kind, state, made, sessionRow, locked, request, ending, providerVars, hitches>>

----------------------------------------------------------------------------
(* A request *)

Moves(q, at, token) == request' = [request EXCEPT ![q] = [at |-> at, token |-> token]]

AccessNearlySpent ==
    /\ row = "live" /\ ~nearly /\ issued <= MaxRefresh /\ nearly' = TRUE
    /\ UNCHANGED <<loginVars, row, held, signedOut, locked, request, ending, providerVars, hitches>>

(* authenticate, up to the lock: the row is read.                           *)
Arrive(q) ==
    /\ request[q].at = "none" /\ row # "none"
    /\ Moves(q, IF row # "live" THEN "denied" ELSE IF nearly THEN "waiting" ELSE "use", 0)
    /\ UNCHANGED <<loginVars, sessionRow, locked, ending, providerVars, hitches>>

(* A mutant: what was read before the lock is good enough.                  *)
EnterUnread(q) ==
    /\ request[q].at = "waiting" /\ locked = {}
    /\ Moves(q, "refresh", held) /\ locked' = {q}
    /\ UNCHANGED <<loginVars, sessionRow, ending, providerVars, hitches>>

(* The session is read again under the lock: whoever held it may have       *)
(* refreshed.                                                               *)
Enter(q) ==
    /\ request[q].at = "waiting" /\ locked = {}
    /\ IF row = "live"
       THEN /\ IF nearly THEN Moves(q, "refresh", held) ELSE Moves(q, "use under lock", 0)
            /\ locked' = {q}
       ELSE Moves(q, "denied", 0) /\ UNCHANGED locked
    /\ UNCHANGED <<loginVars, sessionRow, ending, providerVars, hitches>>

Using == {"use", "use under lock"}

(* _use: the token that was read is verified and the row touched, which a   *)
(* row that has ended meanwhile does not prevent.                           *)
Use(q) ==
    /\ request[q].at \in Using
    /\ Moves(q, "admitted", 0) /\ locked' = locked \ {q}
    /\ UNCHANGED <<loginVars, sessionRow, ending, providerVars, hitches>>

UseFails(q) ==
    /\ request[q].at \in Using /\ Hitch
    /\ Moves(q, "denied", 0) /\ locked' = locked \ {q}
    /\ UNCHANGED <<loginVars, sessionRow, ending, providerVars>>

(* What the provider makes of a refresh token.                              *)
Present(token) ==
    IF token = valid THEN valid' = issued + 1 /\ issued' = issued + 1 /\ UNCHANGED replayed
    ELSE valid' = 0 /\ replayed' = (replayed \/ token < issued) /\ UNCHANGED issued

(* The refresh goes through; a console session may find its roles gone.     *)
Rotate(q) ==
    /\ request[q].at = "refresh" /\ Present(request[q].token)
    /\ \/ request[q].token = valid /\ Moves(q, "store", issued + 1) /\ UNCHANGED demoted
       \/ request[q].token = valid /\ kind = "console" /\ Moves(q, "revoke", 0) /\ demoted' = TRUE
       \/ request[q].token # valid /\ Moves(q, "revoke", 0) /\ UNCHANGED demoted
    /\ UNCHANGED <<loginVars, sessionRow, locked, ending, hitches>>

(* It fails: before it reached the provider, or after.                      *)
RotateFails(q) ==
    /\ request[q].at = "refresh" /\ Hitch
    /\ UNCHANGED <<issued, valid, replayed>> \/ Present(request[q].token)
    /\ Moves(q, "revoke", 0)
    /\ UNCHANGED <<loginVars, sessionRow, locked, ending, demoted>>

(* A mutant: a refusal leaves the lock to its holder.                       *)
RevokeRowHolding(q) ==
    /\ request[q].at = "revoke" /\ row' = "revoked" /\ Moves(q, "denied", 0)
    /\ UNCHANGED <<loginVars, held, nearly, signedOut, locked, ending, providerVars, hitches>>

RevokeRow(q) ==
    /\ request[q].at = "revoke" /\ row' = "revoked"
    /\ Moves(q, "denied", 0) /\ locked' = {}
    /\ UNCHANGED <<loginVars, held, nearly, signedOut, ending, providerVars, hitches>>

(* A mutant: what the refresh brought is used though the row has ended.     *)
StoreTokensAnyway(q) ==
    /\ request[q].at = "store"
    /\ held' = request[q].token /\ nearly' = FALSE
    /\ Moves(q, "admitted", 0) /\ locked' = {}
    /\ UNCHANGED <<loginVars, row, signedOut, ending, providerVars, hitches>>

(* refreshed: only a row that is not revoked.                               *)
StoreTokens(q) ==
    /\ request[q].at = "store"
    /\ IF row = "live"
       THEN /\ held' = request[q].token /\ nearly' = FALSE
            /\ Moves(q, "admitted", 0) /\ locked' = {}
       ELSE Moves(q, "discard", request[q].token) /\ UNCHANGED <<held, nearly, locked>>
    /\ UNCHANGED <<loginVars, row, signedOut, ending, providerVars, hitches>>

Revoked(token) == valid' = IF token = valid THEN 0 ELSE valid

(* Signed out while the refresh was in flight: the new token is revoked.    *)
Discard(q) ==
    /\ request[q].at = "discard" /\ Revoked(request[q].token)
    /\ Moves(q, "denied", 0) /\ locked' = {}
    /\ UNCHANGED <<loginVars, sessionRow, ending, issued, replayed, demoted, hitches>>

----------------------------------------------------------------------------
(* Ending *)

(* sign_out: the row, and then the token that was in it.                    *)
SignOut ==
    /\ row = "live" /\ ending = NoEnding
    /\ row' = "revoked" /\ signedOut' = TRUE /\ ending' = [at |-> "revoke", token |-> held]
    /\ UNCHANGED <<loginVars, held, nearly, locked, request, providerVars, hitches>>

(* An erasure: the token is read before it, and the rows go after it.       *)
ReadToken ==
    /\ kind = "user" /\ row = "live" /\ ending = NoEnding
    /\ ending' = [at |-> "erasing", token |-> held]
    /\ UNCHANGED <<loginVars, sessionRow, locked, request, providerVars, hitches>>

EndSubject ==
    /\ ending.at = "erasing" /\ row' = "revoked" /\ ending' = [ending EXCEPT !.at = "revoke"]
    /\ UNCHANGED <<loginVars, held, nearly, signedOut, locked, request, providerVars, hitches>>

RevokeToken ==
    /\ ending.at = "revoke" /\ Revoked(ending.token) /\ ending' = [ending EXCEPT !.at = "over"]
    /\ UNCHANGED <<loginVars, sessionRow, locked, request, issued, replayed, demoted, hitches>>

(* END_USER_SESSIONS: the account was unlinked.                             *)
Unlinked ==
    /\ kind = "user" /\ row = "live" /\ row' = "revoked"
    /\ UNCHANGED <<loginVars, held, nearly, signedOut, locked, request, ending, providerVars, hitches>>

(* The process stops, and with it every request, callback and ending.       *)
Stop ==
    /\ Hitch /\ locked' = {}
    /\ request' = [q \in Requests |-> [at |-> IF request[q].at = "none" THEN "none" ELSE "lost",
                                       token |-> 0]]
    /\ callback' = [c \in Callbacks |-> IF callback[c] = "none" THEN "none" ELSE "over"]
    /\ ending' = IF ending = NoEnding THEN NoEnding ELSE [ending EXCEPT !.at = "over"]
    /\ UNCHANGED <<kind, state, made, sessionRow, providerVars>>

----------------------------------------------------------------------------
RequestStep(q) ==
    \/ Enter(q) \/ Use(q) \/ UseFails(q)
    \/ Rotate(q) \/ RotateFails(q) \/ RevokeRow(q) \/ StoreTokens(q) \/ Discard(q)

SessionsNext ==
    \/ \E c \in Callbacks : Consume(c) \/ CreateSession(c) \/ SignInFails(c)
    \/ \E q \in Requests : Arrive(q) \/ RequestStep(q)
    \/ AccessNearlySpent \/ SignOut \/ ReadToken \/ EndSubject \/ RevokeToken \/ Unlinked \/ Stop

SessionsSpec == SessionsInit /\ [][SessionsNext]_sessionVars

----------------------------------------------------------------------------
Finished == {"none", "admitted", "denied", "lost"}
Refreshing == {"refresh", "store", "discard", "revoke"}

SessionsTypeOK ==
    /\ row \in {"none", "live", "revoked"} /\ held \in 0..(MaxRefresh + 1)
    /\ valid \in 0..issued /\ held <= issued
    /\ \A q \in Requests : request[q].at \in Finished \cup {"waiting"} \cup Using \cup Refreshing
    /\ locked = {q \in Requests : request[q].at \in {"use under lock"} \cup Refreshing}
    /\ Cardinality(locked) <= 1

(* "Two callbacks with one state cannot both find it": a sign-in makes one  *)
(* session at most.                                                         *)
OneSessionPerSignIn == made <= 1

(* Two refreshes never present one token, which would revoke the family:    *)
(* without a failure or a restart, no spent token is presented.             *)
NoTokenReplayed == hitches = 0 => ~replayed

(* Once a session has ended it stays so, and whoever comes then, waits for  *)
(* the lock or is at the provider is turned away: a request is let in after *)
(* the end only if it had read the row before and was having its token      *)
(* verified, which the code does not look behind (_use, _refresh).          *)
EndedTurnsAway ==
    [][row = "revoked" =>
          /\ row' = "revoked"
          /\ \A q \in Requests :
                request[q].at \notin Using \cup {"admitted"} =>
                    request'[q].at \notin Using \cup {"admitted"}]_sessionVars

(* Once a sign-out and whatever it met have run their course, the provider  *)
(* holds no token of the session, the one of a refresh in flight included,  *)
(* unless that refresh found the person's roles gone.                       *)
SignOutReachesProvider ==
    signedOut /\ ending.at = "over" /\ hitches = 0 /\ ~demoted
        /\ (\A q \in Requests : request[q].at \notin Refreshing) => valid = 0

(* What a session promises, whatever meets its refresh (_refresh, sign_out). *)
SessionsInv == OneSessionPerSignIn /\ NoTokenReplayed /\ SignOutReachesProvider

(* Every request is answered (each comes once): nobody waits for the lock   *)
(* for ever.                                                                *)
RequestsAnswered == []<>(\A q \in Requests : request[q].at \in Finished)
=============================================================================
