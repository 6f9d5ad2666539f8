----------------------------- MODULE AccountLinks -----------------------------
(***************************************************************************)
(* How a web account comes to reach a person's data: they consent to an    *)
(* email and ask for an account, get a link code, and follow it in a       *)
(* browser that signs in; the code and the sign-in make the link in one    *)
(* transaction, the bot tells the person, and they may unlink.             *)
(*                                                                         *)
(* Abstractions.  An email is the subject whose verified email it is.      *)
(* Codes are counted by their ids, which are as many as a day allows, and  *)
(* the limit on requests is one a day; a day is an action.                 *)
(***************************************************************************)
EXTENDS Integers, FiniteSets

CONSTANTS
    Members,     \* people of the server
    Subjects,    \* CyberdyneAuth subjects
    Codes,       \* link codes
    Browsers,    \* browsers that follow a code
    MaxRequests,     \* times the members ask for an account
    MaxUnlinks,
    MaxSlips     \* failures of a provider, of a message to a person, and restarts

ASSUME AccountLinksAssumption ==
    MaxRequests \in Nat /\ MaxUnlinks \in Nat /\ MaxSlips \in Nat

NoOne == "none"
NoLink == [sub |-> NoOne, notified |-> FALSE]
NoCode == [st |-> "none", of |-> NoOne, email |-> NoOne]
NotFollowing == [at |-> "none", code |-> NoOne, sub |-> NoOne]

VARIABLES
    consent,     \* account_consent, the latest of each member
    agreed,      \* all they ever consented to (auxiliary)
    requests,    \* account_provisioning_request within the day
    calls,       \* provider calls under way
    accepted,    \* requests the provider accepted within the day (auxiliary)
    code,        \* account_link_code
    uses,        \* links each code made (auxiliary)
    browser,     \* each browser's sign-in
    link,        \* person_account_link
    web,         \* user_session: the subjects with a session
    announcer,   \* the links LinkAnnouncements read and has still to tell of
    told,        \* members told of the link they have (auxiliary)
    shut,        \* members whose DM was shut to the notice of the link they have (auxiliary)
    crossed,     \* members whose link a mark for another's met (auxiliary)
    misjudged,   \* members whose accepted request seemed to fail (auxiliary)
    asks, unlinks, slips

askingVars == <<consent, agreed, requests, calls, accepted, misjudged, asks>>
codeVars == <<code, uses>>
linkVars == <<link, web, told, shut, crossed, unlinks>>
accountVars == <<askingVars, codeVars, browser, linkVars, announcer, slips>>

AccountLinksInit ==
    /\ consent = [m \in Members |-> NoOne] /\ agreed = [m \in Members |-> {}]
    /\ requests = [m \in Members |-> 0] /\ calls = [m \in Members |-> 0]
    /\ accepted = [m \in Members |-> 0] /\ misjudged = {}
    /\ code = [c \in Codes |-> NoCode] /\ uses = [c \in Codes |-> 0]
    /\ browser = [b \in Browsers |-> NotFollowing]
    /\ link = [m \in Members |-> NoLink] /\ web = {}
    /\ announcer = {} /\ told = {} /\ shut = {} /\ crossed = {}
    /\ asks = 0 /\ unlinks = 0 /\ slips = 0

Slip == slips < MaxSlips /\ slips' = slips + 1

----------------------------------------------------------------------------
(* Asking for an account *)

(* retry_at, over the requests of the day.                                  *)
Counted(m) == requests[m]

(* reserve: the count and the insert hold the member's row; the consent     *)
(* stays, whatever becomes of the request.                                  *)
Reserve(m, e) ==
    /\ asks < MaxRequests /\ asks' = asks + 1
    /\ Counted(m) < 1
    /\ consent' = [consent EXCEPT ![m] = e] /\ agreed' = [agreed EXCEPT ![m] = @ \cup {e}]
    /\ requests' = [requests EXCEPT ![m] = @ + 1] /\ calls' = [calls EXCEPT ![m] = @ + 1]
    /\ UNCHANGED <<accepted, misjudged, codeVars, browser, linkVars, announcer, slips>>

ProviderAccepts(m) ==
    /\ calls[m] > 0 /\ calls' = [calls EXCEPT ![m] = @ - 1]
    /\ accepted' = [accepted EXCEPT ![m] = @ + 1]
    /\ UNCHANGED <<consent, agreed, requests, misjudged, asks, codeVars, browser, linkVars,
                   announcer, slips>>

(* release: a request that failed is not counted; one that timed out may    *)
(* have been accepted.                                                      *)
ProviderFails(m) ==
    /\ calls[m] > 0 /\ calls' = [calls EXCEPT ![m] = @ - 1] /\ Slip
    /\ requests' = [requests EXCEPT ![m] = @ - 1]
    /\ \/ UNCHANGED <<accepted, misjudged>>
       \/ accepted' = [accepted EXCEPT ![m] = @ + 1] /\ misjudged' = misjudged \cup {m}
    /\ UNCHANGED <<consent, agreed, asks, codeVars, browser, linkVars, announcer>>

RequestsAge(m) ==
    /\ calls[m] = 0 /\ requests[m] > 0
    /\ requests' = [requests EXCEPT ![m] = 0] /\ accepted' = [accepted EXCEPT ![m] = 0]
    /\ misjudged' = misjudged \ {m}
    /\ UNCHANGED <<consent, agreed, calls, asks, codeVars, browser, linkVars, announcer, slips>>

----------------------------------------------------------------------------
(* Link codes *)

(* SUPERSEDE_CODES and INSERT_CODE: bound to the latest consent.            *)
Issued(m, c) ==
    [d \in Codes |-> IF d = c THEN [st |-> "live", of |-> m, email |-> consent[m]]
                     ELSE IF code[d].of = m /\ code[d].st = "live" THEN [code[d] EXCEPT !.st = "dead"]
                     ELSE code[d]]

Linking(c) == \E b \in Browsers : browser[b].at = "linking" /\ browser[b].code = c

(* issue_link_code: the update of an earlier code waits for who locked it.  *)
IssueCode(m, c) ==
    /\ consent[m] # NoOne /\ code[c] = NoCode
    /\ \A d \in Codes : code[d].of = m => ~Linking(d)
    /\ code' = Issued(m, c)
    /\ UNCHANGED <<askingVars, uses, browser, linkVars, announcer, slips>>

CodeExpires(c) ==
    /\ code[c].st = "live" /\ ~Linking(c) /\ code' = [code EXCEPT ![c].st = "dead"]
    /\ UNCHANGED <<askingVars, uses, browser, linkVars, announcer, slips>>

----------------------------------------------------------------------------
(* Linking, in the admin process *)

(* A browser follows the code's URL, and somebody signs in there as s.      *)
Follow(b, c, s) ==
    /\ browser[b].at = "none" /\ code[c].st # "none"
    /\ browser' = [browser EXCEPT ![b] = [at |-> "verified", code |-> c, sub |-> s]]
    /\ UNCHANGED <<askingVars, codeVars, linkVars, announcer, slips>>

Owners(s) == {m \in Members : link[m].sub = s}

(* A mutant: whoever holds the code may link any account.                   *)
MayLinkAnyEmail(b) ==
    LET c == code[browser[b].code] IN
    c.st = "live" /\ Owners(browser[b].sub) \subseteq {c.of}

(* The code is live, the email is the consented one, the subject is nobody  *)
(* else's.                                                                  *)
MayLink(b) ==
    LET c == code[browser[b].code] IN
    c.st = "live" /\ c.email = browser[b].sub /\ Owners(browser[b].sub) \subseteq {c.of}

(* _link, up to its write: the code's row stays locked.                     *)
LockCode(b) ==
    /\ browser[b].at = "verified" /\ ~Linking(browser[b].code)
    /\ browser' = [browser EXCEPT ![b].at = IF MayLink(b) THEN "linking" ELSE "over"]
    /\ UNCHANGED <<askingVars, codeVars, linkVars, announcer, slips>>

(* The unique subject refuses a second owner.                               *)
Taken(s, m) == Owners(s) \ {m} # {}

(* UPSERT_LINK, END_USER_SESSIONS of a replaced subject, USE_CODE.          *)
WriteLink(b) ==
    LET c == browser[b].code  m == code[c].of  s == browser[b].sub IN
    /\ browser[b].at = "linking"
    /\ IF Taken(s, m)
       THEN browser' = [browser EXCEPT ![b].at = "over"] /\ UNCHANGED <<link, web, told, shut, codeVars>>
       ELSE /\ browser' = [browser EXCEPT ![b].at = "linked"]
            /\ link' = [link EXCEPT ![m] = [sub |-> s, notified |-> FALSE]]
            /\ web' = IF link[m].sub = s THEN web ELSE web \ {link[m].sub}
            /\ told' = told \ {m} /\ shut' = shut \ {m}
            /\ code' = [code EXCEPT ![c].st = "used"] /\ uses' = [uses EXCEPT ![c] = @ + 1]
    /\ UNCHANGED <<askingVars, crossed, unlinks, announcer, slips>>

OpenSession(b) ==
    /\ browser[b].at = "linked" /\ browser' = [browser EXCEPT ![b].at = "over"]
    /\ web' = web \cup {browser[b].sub}
    /\ UNCHANGED <<askingVars, codeVars, link, told, shut, crossed, unlinks, announcer, slips>>

Unlink(m) ==
    /\ link[m] # NoLink /\ unlinks < MaxUnlinks /\ unlinks' = unlinks + 1
    /\ link' = [link EXCEPT ![m] = NoLink] /\ web' = web \ {link[m].sub}
    /\ told' = told \ {m} /\ shut' = shut \ {m} /\ crossed' = crossed \ {m}
    /\ UNCHANGED <<askingVars, codeVars, browser, announcer, slips>>

----------------------------------------------------------------------------
(* Announcing, in the bot *)

Unannounced == {[to |-> m, of |-> link[m].sub] : m \in {n \in Members : link[n].sub # NoOne
                                                                    /\ ~link[n].notified}}

ReadUnannounced ==
    /\ announcer = {} /\ Unannounced # {} /\ announcer' = Unannounced
    /\ UNCHANGED <<askingVars, codeVars, browser, linkVars, slips>>

(* MARK_ANNOUNCED goes by the subject.                                      *)
AfterMark(s) ==
    [m \in Members |-> IF link[m].sub = s THEN [link[m] EXCEPT !.notified = TRUE] ELSE link[m]]

Untold(notice) == notice \in announcer /\ "sent" \notin DOMAIN notice

(* _tell returned True: what is left is the mark.                           *)
Done(notice) ==
    announcer' = (announcer \ {notice})
                     \cup {[to |-> notice.to, of |-> notice.of, sent |-> TRUE]}

(* Whom a notice is right for: the link may have changed since it was read. *)
Addressed(notice) == {m \in {notice.to} : link[m].sub = notice.of}

Tell(notice) ==
    /\ Untold(notice) /\ Done(notice)
    /\ told' = told \cup Addressed(notice)
    /\ UNCHANGED <<askingVars, codeVars, browser, link, web, shut, crossed, unlinks, slips>>

(* Their DM is shut, or they are gone: nothing more to do for _tell.        *)
FindShut(notice) ==
    /\ Untold(notice) /\ Done(notice)
    /\ shut' = shut \cup Addressed(notice)
    /\ UNCHANGED <<askingVars, codeVars, browser, link, web, told, crossed, unlinks, slips>>

(* A mutant: any failure to send is taken for a DM that is shut.            *)
TellFailsMarked(notice) ==
    /\ Untold(notice) /\ Slip /\ announcer' = announcer \ {notice}
    /\ link' = AfterMark(notice.of)
    /\ UNCHANGED <<askingVars, codeVars, browser, web, told, shut, crossed, unlinks>>

(* Discord failed: the link stays to be announced.                          *)
TellFails(notice) ==
    /\ Untold(notice) /\ Slip
    /\ announcer' = announcer \ {notice}
    /\ UNCHANGED <<askingVars, codeVars, browser, linkVars>>

Mark(notice) ==
    /\ notice \in announcer /\ "sent" \in DOMAIN notice /\ announcer' = announcer \ {notice}
    /\ link' = AfterMark(notice.of)
    /\ crossed' = crossed \cup (Owners(notice.of) \ (told \cup shut))
    /\ UNCHANGED <<askingVars, codeVars, browser, web, told, shut, unlinks, slips>>

(* The bot restarts: what it told and did not mark is told again, and a     *)
(* request on its way stays counted, accepted or not.                       *)
BotRestarts ==
    /\ announcer # {} \/ \E m \in Members : calls[m] > 0
    /\ Slip
    /\ announcer' = {} /\ calls' = [m \in Members |-> 0]
    /\ \E S \in SUBSET {m \in Members : calls[m] > 0} :
          accepted' = [m \in Members |-> accepted[m] + IF m \in S THEN calls[m] ELSE 0]
    /\ UNCHANGED <<consent, agreed, requests, misjudged, asks, codeVars, browser, linkVars>>

----------------------------------------------------------------------------
AskStep(m) == ProviderAccepts(m) \/ ProviderFails(m) \/ RequestsAge(m)
LinkStep(b) == LockCode(b) \/ WriteLink(b) \/ OpenSession(b)
AnnounceStep ==
    \/ ReadUnannounced
    \/ \E notice \in announcer :
          Tell(notice) \/ FindShut(notice) \/ TellFails(notice) \/ Mark(notice)

AccountLinksNext ==
    \/ \E m \in Members, e \in Subjects : Reserve(m, e)
    \/ \E m \in Members : AskStep(m) \/ Unlink(m)
    \/ \E m \in Members, c \in Codes : IssueCode(m, c)
    \/ \E c \in Codes : CodeExpires(c)
    \/ \E b \in Browsers, c \in Codes, s \in Subjects : Follow(b, c, s)
    \/ \E b \in Browsers : LinkStep(b)
    \/ AnnounceStep \/ BotRestarts

AccountLinksSpec == AccountLinksInit /\ [][AccountLinksNext]_accountVars

----------------------------------------------------------------------------
AccountLinksTypeOK ==
    /\ \A m \in Members : calls[m] <= requests[m] /\ consent[m] \in Subjects \cup {NoOne}
    /\ \A c \in Codes : code[c].st \in {"none", "live", "used", "dead"}
    /\ \A b \in Browsers : browser[b].at \in {"none", "verified", "linking", "linked", "over"}
    /\ web \subseteq Subjects /\ told \subseteq Members /\ shut \subseteq Members

(* A link is made by proof: the subject a member is linked to has an email  *)
(* that member consented to, and is linked to nobody else.                  *)
LinkedByProof ==
    \A m \in Members : link[m].sub # NoOne =>
        link[m].sub \in agreed[m] /\ Owners(link[m].sub) = {m}

(* A code makes one link at most, and of a member's codes one is live.      *)
CodesAreSingle ==
    /\ \A c \in Codes : uses[c] <= 1
    /\ \A c, d \in Codes : code[c].st = "live" /\ code[d].st = "live" /\ code[c].of = code[d].of => c = d

(* The provider accepts no more than the limit in a day, except a request   *)
(* that seemed to have failed.                                              *)
WithinTheLimit == \A m \in Members : m \notin misjudged => accepted[m] <= 1

(* What a link rests on (AccountLinking.link, reserve).                     *)
AccountLinksInv == LinkedByProof /\ CodesAreSingle /\ WithinTheLimit

(* Whoever has a link was told of it or will be, unless they end it, their  *)
(* DM was shut to the notice of it, or a mark made for an earlier owner of  *)
(* the subject met it first: no failure of Discord and no restart leaves    *)
(* somebody marked who has heard of nothing.                                *)
LinksAnnounced ==
    \A m \in Members : []<>(link[m] = NoLink \/ m \in told \cup shut \cup crossed)
=============================================================================
