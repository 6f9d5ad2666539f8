----------------------------- MODULE Suggestions -----------------------------
(***************************************************************************)
(* What people suggest the assistant should learn, and the news of it.  A  *)
(* submission is one transaction under a lock on its author; the team      *)
(* triages in the console; the bot's sweep claims the changes whose        *)
(* authors asked to hear of them, messages each, and puts back what it     *)
(* could not send.                                                         *)
(*                                                                         *)
(* Abstractions.  A suggestion stands for an author and a normalised text, *)
(* so that submitting it again is a duplicate; form, language and notes    *)
(* are left out.  The rolling day of the limit ends for all of a person's  *)
(* suggestions at once.                                                    *)
(***************************************************************************)
EXTENDS Integers, FiniteSets

CONSTANTS
    Ideas,          \* suggestions that may be made
    IdeaAuthor,     \* whose they are
    Statuses,       \* RequestStatus
    New,            \* the status of a new row
    DailyLimit,     \* DEFAULT_DAILY_LIMIT
    NewsBatch,      \* BATCH
    MaxTriage,      \* changes made in the console
    MaxMinds,       \* changes of a person's settings
    MaxCrashes      \* sweeps that stop half way, failed messages and releases

Authors == {IdeaAuthor[r] : r \in Ideas}
Null == "null"

ASSUME SuggestionsAssumption ==
    /\ IdeaAuthor \in [Ideas -> Authors] /\ New \in Statuses /\ Null \notin Statuses
    /\ {DailyLimit, MaxTriage, MaxMinds, MaxCrashes} \subseteq Nat /\ NewsBatch \in Nat \ {0}

VARIABLES
    suggested,   \* feature_request: the ideas with a row
    today,       \* those created less than 24 hours ago
    submitting,  \* transactions of submit: "no", "locked", "inserted" or "refused"
    reqStatus,   \* status
    notify,      \* ideas with notify_on_change
    notified,    \* notified_status
    authorPref,  \* "on", "off" or "undeliverable"
    authorDoor,  \* people who refuse direct messages
    authorsOut,  \* person_opt_out
    newsSweep,   \* StatusNewsRunner.run_due: its phase, and the news at hand
    claimed,     \* the ideas it has claimed and not dealt with
    said,        \* the status each was claimed with
    previous,    \* notified_status before the claim
    triaged, minds, crashes,
    changes,     \* changes made to each idea's status (auxiliary)
    heard,       \* the last of them its author heard of (auxiliary)
    saying,      \* the last of them when it was claimed (auxiliary)
    messages,    \* messages its author got about it (auxiliary)
    known,       \* the status its author last heard (auxiliary)
    dropped      \* ideas with a claim that was neither sent nor put back (auxiliary)

submitVars == <<suggested, today, submitting>>
rowVars == <<reqStatus, notify, notified>>
personVars == <<authorPref, authorDoor, authorsOut>>
sweepVars == <<newsSweep, claimed, said, previous, saying>>
boundVars == <<triaged, minds, crashes>>
heardVars == <<changes, heard, messages, known, dropped>>
suggestionVars == <<submitVars, rowVars, personVars, sweepVars, boundVars, heardVars>>

SuggestionsInit ==
    /\ suggested = {} /\ today = {} /\ submitting = [r \in Ideas |-> "no"]
    /\ reqStatus = [r \in Ideas |-> New]
    /\ notify = {} /\ notified = [r \in Ideas |-> Null]
    /\ authorPref = [p \in Authors |-> "on"] /\ authorDoor = {} /\ authorsOut = {}
    /\ newsSweep = [at |-> "idle", now |-> Null] /\ claimed = {}
    /\ said = [r \in Ideas |-> New] /\ previous = [r \in Ideas |-> Null]
    /\ triaged = 0 /\ minds = 0 /\ crashes = 0
    /\ changes = [r \in Ideas |-> 0] /\ heard = [r \in Ideas |-> 0] /\ messages = [r \in Ideas |-> 0]
    /\ saying = [r \in Ideas |-> 0] /\ known = [r \in Ideas |-> New] /\ dropped = {}

IdeasOf(p) == {r \in Ideas : IdeaAuthor[r] = p}

----------------------------------------------------------------------------
(* Submitting *)

(* LOCK_PERSON is held to the end of the transaction.                       *)
PersonFree(p) == \A r \in IdeasOf(p) : submitting[r] = "no"

SubmitLocked(r) ==
    /\ r \notin suggested /\ submitting[r] = "no" /\ PersonFree(IdeaAuthor[r])
    /\ submitting' = [submitting EXCEPT ![r] = "locked"]
    /\ UNCHANGED <<suggested, today, rowVars, personVars, sweepVars, boundVars, heardVars>>

(* The opt-out is read, the day's rows are counted, the row is written.     *)
SubmitInsert(r) ==
    /\ submitting[r] = "locked"
    /\ submitting' = [submitting EXCEPT
          ![r] = IF /\ IdeaAuthor[r] \notin authorsOut
                    /\ Cardinality(today \cap IdeasOf(IdeaAuthor[r])) < DailyLimit
                 THEN "inserted" ELSE "refused"]
    /\ UNCHANGED <<suggested, today, rowVars, personVars, sweepVars, boundVars, heardVars>>

SubmitCommit(r) ==
    /\ submitting[r] \in {"inserted", "refused"}
    /\ submitting' = [submitting EXCEPT ![r] = "no"]
    /\ IF submitting[r] = "inserted"
       THEN suggested' = suggested \cup {r} /\ today' = today \cup {r}
       ELSE UNCHANGED <<suggested, today>>
    /\ UNCHANGED <<rowVars, personVars, sweepVars, boundVars, heardVars>>

DayPasses(p) ==
    /\ today \cap IdeasOf(p) # {}
    /\ today' = today \ IdeasOf(p)
    /\ UNCHANGED <<suggested, submitting, rowVars, personVars, sweepVars, boundVars, heardVars>>

----------------------------------------------------------------------------
(* Authors and the team *)

(* SET_NOTIFY.  The first answer takes the status there is then as known.   *)
SetNotify(r, yes) ==
    /\ r \in suggested /\ minds < MaxMinds /\ minds' = minds + 1
    /\ notify' = IF yes THEN notify \cup {r} ELSE notify \ {r}
    /\ IF notified[r] = Null
       THEN /\ notified' = [notified EXCEPT ![r] = reqStatus[r]]
            /\ heard' = [heard EXCEPT ![r] = changes[r]]
            /\ known' = [known EXCEPT ![r] = reqStatus[r]]
       ELSE UNCHANGED <<notified, heard, known>>
    /\ UNCHANGED <<submitVars, reqStatus, personVars, sweepVars, triaged, crashes,
                   changes, messages, dropped>>

(* TRIAGE_UPDATE, with the row locked.  An update to the row of a person    *)
(* who opted out is dropped by the trigger.                                 *)
Triage(r, s) ==
    /\ r \in suggested /\ IdeaAuthor[r] \notin authorsOut
    /\ s # reqStatus[r] /\ triaged < MaxTriage /\ triaged' = triaged + 1
    /\ reqStatus' = [reqStatus EXCEPT ![r] = s]
    /\ changes' = [changes EXCEPT ![r] = @ + 1]
    /\ UNCHANGED <<submitVars, notify, notified, personVars, sweepVars, minds, crashes,
                   heard, messages, known, dropped>>

(* /notifications on and off; on reopens what was found undeliverable.      *)
SetPreference(p, on) ==
    /\ minds < MaxMinds /\ minds' = minds + 1
    /\ authorPref' = [authorPref EXCEPT ![p] = IF on THEN "on" ELSE "off"]
    /\ UNCHANGED <<submitVars, rowVars, authorDoor, authorsOut, sweepVars, triaged, crashes,
                   heardVars>>

AuthorDoor(p) ==
    /\ minds < MaxMinds /\ minds' = minds + 1
    /\ authorDoor' = IF p \in authorDoor THEN authorDoor \ {p} ELSE authorDoor \cup {p}
    /\ UNCHANGED <<submitVars, rowVars, authorPref, authorsOut, sweepVars, triaged, crashes,
                   heardVars>>

(* The opt-out, and the purge of what it derives.                           *)
AuthorOptsOut(p) ==
    /\ p \notin authorsOut /\ minds < MaxMinds /\ minds' = minds + 1
    /\ authorsOut' = authorsOut \cup {p}
    /\ suggested' = suggested \ IdeasOf(p) /\ today' = today \ IdeasOf(p)
    /\ notify' = notify \ IdeasOf(p)
    /\ UNCHANGED <<submitting, reqStatus, notified, authorPref, authorDoor, sweepVars,
                   triaged, crashes, heardVars>>

----------------------------------------------------------------------------
(* The sweep *)

IsNews(r) ==
    /\ r \in suggested /\ r \in notify
    /\ notified[r] # Null /\ reqStatus[r] # notified[r]
    /\ IdeaAuthor[r] \notin authorsOut /\ authorPref[IdeaAuthor[r]] = "on"

News == {r \in Ideas : IsNews(r)}

(* A mutant: a claim advances nothing.                                      *)
AsClaimedInPlace(S) == notified

(* CLAIM_STATUS_NEWS advances notified_status and returns what it was.      *)
AsClaimed(S) == [r \in Ideas |-> IF r \in S THEN reqStatus[r] ELSE notified[r]]

ClaimNews(S) ==
    /\ newsSweep.at = "idle" /\ S # {} /\ S \subseteq News
    /\ Cardinality(S) <= NewsBatch /\ (S = News \/ Cardinality(S) = NewsBatch)
    /\ notified' = AsClaimed(S)
    /\ claimed' = S /\ newsSweep' = [at |-> "next", now |-> Null]
    /\ said' = [r \in Ideas |-> IF r \in S THEN reqStatus[r] ELSE said[r]]
    /\ previous' = [r \in Ideas |-> IF r \in S THEN notified[r] ELSE previous[r]]
    /\ saying' = [r \in Ideas |-> IF r \in S THEN changes[r] ELSE saying[r]]
    /\ UNCHANGED <<submitVars, reqStatus, notify, personVars, boundVars, heardVars>>

Onward(S) == [at |-> IF S = {} THEN "idle" ELSE "next", now |-> Null]

Announced(r) ==
    /\ newsSweep.at = "next" /\ r \in claimed /\ IdeaAuthor[r] \notin authorDoor
    /\ claimed' = claimed \ {r} /\ newsSweep' = Onward(claimed \ {r})
    /\ heard' = [heard EXCEPT ![r] = saying[r]] /\ known' = [known EXCEPT ![r] = said[r]]
    /\ messages' = [messages EXCEPT ![r] = @ + 1]
    /\ UNCHANGED <<submitVars, rowVars, personVars, said, previous, saying, boundVars,
                   changes, dropped>>

NotAnnounced(r, why) ==
    /\ newsSweep.at = "next" /\ r \in claimed
    /\ IF why = "closed" THEN IdeaAuthor[r] \in authorDoor /\ UNCHANGED crashes
       ELSE crashes < MaxCrashes /\ crashes' = crashes + 1
    /\ newsSweep' = [at |-> why, now |-> r]
    /\ UNCHANGED <<submitVars, rowVars, personVars, claimed, said, previous, saying,
                   triaged, minds, heardVars>>

(* A mutant: nothing is put back.                                           *)
ReleasedNever(r) == notified

(* RELEASE_STATUS_NEWS, unless something else moved notified_status since.  *)
Released(r) ==
    IF r \in suggested /\ notified[r] = said[r]
    THEN [notified EXCEPT ![r] = previous[r]] ELSE notified

ReleaseNews ==
    LET r == newsSweep.now IN
    /\ newsSweep.at \in {"failed", "closed"}
    /\ notified' = Released(r)
    /\ IF newsSweep.at = "failed"
       THEN claimed' = claimed \ {r} /\ newsSweep' = Onward(claimed \ {r})
       ELSE claimed' = claimed /\ newsSweep' = [newsSweep EXCEPT !.at = "released"]
    /\ UNCHANGED <<submitVars, reqStatus, notify, personVars, said, previous, saying,
                   boundVars, heardVars>>

(* RECORD_UNDELIVERABLE, whatever the person has chosen since.              *)
RecordUndeliverable ==
    LET r == newsSweep.now IN
    /\ newsSweep.at = "released"
    /\ authorPref' = [authorPref EXCEPT ![IdeaAuthor[r]] =
                        IF @ = "on" THEN "undeliverable" ELSE @]
    /\ claimed' = claimed \ {r} /\ newsSweep' = Onward(claimed \ {r})
    /\ UNCHANGED <<submitVars, rowVars, authorDoor, authorsOut, said, previous, saying,
                   boundVars, heardVars>>

(* A release or a record that raises is logged, and the batch goes on.      *)
ReleaseFails ==
    LET r == newsSweep.now IN
    /\ newsSweep.at \in {"failed", "closed", "released"}
    /\ crashes < MaxCrashes /\ crashes' = crashes + 1
    /\ claimed' = claimed \ {r} /\ newsSweep' = Onward(claimed \ {r})
    /\ dropped' = IF newsSweep.at = "released" THEN dropped ELSE dropped \cup {r}
    /\ UNCHANGED <<submitVars, rowVars, personVars, said, previous, saying, triaged, minds,
                   changes, heard, messages, known>>

NewsCrash ==
    /\ newsSweep.at # "idle" /\ crashes < MaxCrashes /\ crashes' = crashes + 1
    /\ claimed' = {} /\ newsSweep' = Onward({})
    /\ dropped' = dropped \cup (IF newsSweep.at = "released"
                                THEN claimed \ {newsSweep.now} ELSE claimed)
    /\ UNCHANGED <<submitVars, rowVars, personVars, said, previous, saying, triaged, minds,
                   changes, heard, messages, known>>

NewsStep ==
    \/ \E r \in Ideas : Announced(r) \/ NotAnnounced(r, "failed") \/ NotAnnounced(r, "closed")
    \/ ReleaseNews \/ RecordUndeliverable

SuggestionsNext ==
    \/ \E r \in Ideas : SubmitLocked(r) \/ SubmitInsert(r) \/ SubmitCommit(r)
    \/ \E r \in Ideas, yes \in BOOLEAN : SetNotify(r, yes)
    \/ \E r \in Ideas, s \in Statuses : Triage(r, s)
    \/ \E p \in Authors : DayPasses(p) \/ AuthorDoor(p) \/ AuthorOptsOut(p)
    \/ \E p \in Authors, on \in BOOLEAN : SetPreference(p, on)
    \/ \E S \in SUBSET Ideas : ClaimNews(S)
    \/ NewsStep \/ ReleaseFails \/ NewsCrash

SuggestionsSpec == SuggestionsInit /\ [][SuggestionsNext]_suggestionVars

----------------------------------------------------------------------------
(* Properties *)

(* A transaction is in one place, and a sweep is busy with what it claimed  *)
(* (submit, StatusNewsRunner).                                              *)
SuggestionsTypeOK ==
    /\ suggested \subseteq Ideas /\ today \subseteq suggested /\ notify \subseteq suggested
    /\ submitting \in [Ideas -> {"no", "locked", "inserted", "refused"}]
    /\ reqStatus \in [Ideas -> Statuses] /\ notified \in [Ideas -> Statuses \cup {Null}]
    /\ authorPref \in [Authors -> {"on", "off", "undeliverable"}]
    /\ authorDoor \subseteq Authors /\ authorsOut \subseteq Authors
    /\ claimed \subseteq Ideas
    /\ said \in [Ideas -> Statuses] /\ previous \in [Ideas -> Statuses \cup {Null}]
    /\ newsSweep.at \in {"idle", "next", "failed", "closed", "released"}
    /\ newsSweep.at = "idle" <=> claimed = {}
    /\ newsSweep.at \in {"failed", "closed", "released"} => newsSweep.now \in claimed
    /\ {changes, heard, messages, saying} \subseteq [Ideas -> Nat] /\ known \in [Ideas -> Statuses]
    /\ dropped \subseteq Ideas

(* No person has more suggestions accepted in a day than the limit, however *)
(* many arrive together (LOCK_PERSON).                                      *)
LimitHolds == \A p \in Authors : Cardinality(today \cap IdeasOf(p)) <= DailyLimit

(* The messages follow the changes in order, and none repeats what its      *)
(* author has heard: through claims that are put back, restarts, and a      *)
(* status that changes back and forth (CLAIM_STATUS_NEWS).                  *)
Promised == INSTANCE StatusNews WITH Topics <- Ideas
FollowsChanges == Promised!NewsSpec

(* Whoever wants news hears of the status there is, once it stays: "no      *)
(* status change is lost for good".  Excepted are claims whose release      *)
(* failed or that a restart caught before they were sent.                   *)
NewsArrives ==
    \A r \in Ideas :
        <>[](/\ r \in notify \ dropped
             /\ IdeaAuthor[r] \notin authorDoor /\ authorPref[IdeaAuthor[r]] = "on")
          => <>[](known[r] = reqStatus[r])
=============================================================================
