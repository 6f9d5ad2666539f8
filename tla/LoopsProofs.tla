----------------------------- MODULE LoopsProofs -----------------------------
(***************************************************************************)
(* Proofs about two of the loops: the news of suggestions, which implement *)
(* what StatusNews promises an author, and the limit they are under; and   *)
(* the settings a process takes from the database.  At the end, with those *)
(* of alerts and schedules, about all the loops of a process.              *)
(***************************************************************************)
EXTENDS MCLoops, AlertsProofs

-----------------------------------------------------------------------------
(* Suggestions *)

SweepPlaces == {"idle", "next", "failed", "closed", "released"}

SuggestionTypes ==
    /\ suggested \subseteq Ideas /\ today \subseteq suggested /\ notify \subseteq suggested
    /\ submitting \in [Ideas -> {"no", "locked", "inserted", "refused"}]
    /\ reqStatus \in [Ideas -> Statuses] /\ notified \in [Ideas -> Statuses \cup {Null}]
    /\ authorPref \in [Authors -> {"on", "off", "undeliverable"}]
    /\ authorDoor \subseteq Authors /\ authorsOut \subseteq Authors
    /\ claimed \subseteq Ideas
    /\ said \in [Ideas -> Statuses] /\ previous \in [Ideas -> Statuses \cup {Null}]
    /\ newsSweep \in [at : SweepPlaces, now : Ideas \cup {Null}]
    /\ newsSweep.at = "idle" <=> claimed = {}
    /\ newsSweep.at \in {"failed", "closed", "released"} => newsSweep.now \in claimed
    /\ changes \in [Ideas -> Nat] /\ heard \in [Ideas -> Nat] /\ messages \in [Ideas -> Nat]
    /\ saying \in [Ideas -> Nat] /\ known \in [Ideas -> Statuses]
    /\ dropped \subseteq Ideas

(* A claim is about a change later than the one its author heard of, and it *)
(* says the status of that change; what the row says was notified is what   *)
(* the claim says, until it is put back.                                    *)
ClaimIsNews(r) ==
    /\ heard[r] < saying[r] /\ saying[r] <= changes[r]
    /\ saying[r] = changes[r] => said[r] = reqStatus[r]
    /\ notified[r] # Null /\ previous[r] # Null
    /\ ~(newsSweep.at = "released" /\ newsSweep.now = r) => notified[r] = said[r]

(* Of another, an author who has heard of every change was notified of the  *)
(* status there is.                                                         *)
RestIsKnown(r) ==
    /\ heard[r] <= changes[r]
    /\ notified[r] # Null /\ heard[r] = changes[r] => notified[r] = reqStatus[r]

NewsIInv ==
    \A r \in Ideas : /\ IF r \in claimed THEN ClaimIsNews(r) ELSE RestIsKnown(r)
                     /\ notified[r] = Null => messages[r] = 0

(* One submission of an author at a time, and room for it if it is let in.  *)
LimitIInv ==
    /\ IsFiniteSet(today)
    /\ \A r \in Ideas : \A q \in Ideas :
          submitting[r] # "no" /\ submitting[q] # "no" /\ IdeaAuthor[r] = IdeaAuthor[q] => r = q
    /\ \A r \in Ideas : submitting[r] = "inserted" =>
          Cardinality(today \cap IdeasOf(IdeaAuthor[r])) < DailyLimit
    /\ LimitHolds

SuggestionsIInv == SuggestionTypes /\ NewsIInv /\ LimitIInv

-----------------------------------------------------------------------------
(* Configuration *)

(* On record, or on the way to be: what adds a tool records it at its end.  *)
OnRecord(t) ==
    \/ t \in escalated \/ unrecorded \/ t \in Environment["tools"]
    \/ \E e \in Edits : /\ edit[e].what = {t} /\ edit[e].op = "add tool"
                        /\ edit[e].at \in {"refreshing", "recording"}

Ops == {"none", "add server", "remove server", "add tool", "remove tool"}
EditPlaces == {"none", "probing", "writing", "refreshing", "recording"}

EditRecord ==
    {r \in [at : EditPlaces, op : Ops, what : SUBSET (Servers \cup Tools),
            seen : (SUBSET Servers) \X (SUBSET Tools), list : SUBSET (Servers \cup Tools)] :
        r.at = "recording" => r.what \subseteq Tools}

(* The types, part by part.                                                 *)
AnyRow == UNION {RowsOf(s) : s \in Settings}

RowsTyped ==
    /\ rows \in [Settings -> AnyRow] /\ \A s \in Settings : rows[s] \in RowsOf(s)
    /\ \A s \in {"servers", "tools"} : rows[s].kind # "malformed"
SnapTyped ==
    /\ DOMAIN snap = Processes
    /\ \A p \in Processes : \A s \in Settings :
          snap[p][s].value \in ValueOf(s) /\ snap[p][s].source \in {"environment", "database"}
LoadingTyped ==
    /\ loading \in [Refreshers -> [at : {"idle", "asked", "read"}, rows : [Settings -> AnyRow]]]
    /\ \A f \in Refreshers : \A s \in Settings : loading[f].rows[s] \in RowsOf(s)
EditTyped == DOMAIN edit = Edits /\ \A e \in Edits : edit[e] \in EditRecord
OtherTyped ==
    /\ escalated \subseteq Tools /\ kept \in [Processes -> SUBSET Settings]
    /\ stale \in BOOLEAN /\ unrecorded \in BOOLEAN

ConfigurationTypes == RowsTyped /\ SnapTyped /\ LoadingTyped /\ EditTyped /\ OtherTyped

(* What a request that is about to write has checked.                       *)
CheckedFirst(e) ==
    edit[e].at \in {"probing", "writing"} =>
        /\ edit[e].op # "none"
        /\ edit[e].what \subseteq IF ListOf(edit[e].op) = "servers" THEN Servers ELSE Tools
        /\ edit[e].list \subseteq IF ListOf(edit[e].op) = "servers" THEN Servers ELSE Tools
        /\ edit[e].op = "remove server" =>
              \A t \in edit[e].seen[2] : ServerOf[t] \notin edit[e].what
        /\ edit[e].op = "add tool" =>
              \E t \in Tools : edit[e].what = {t} /\ ServerOf[t] \in edit[e].seen[1]

(* Wherever the list of tools is, what changes state is on record.          *)
ListsOnRecord ==
    \A t \in Mutates :
        /\ t \in Value("tools") => OnRecord(t)
        /\ t \in snap["console"]["tools"].value => OnRecord(t)
        /\ \A f \in Refreshers : t \in loading[f].rows["tools"].value => OnRecord(t)
        /\ \A e \in Edits :
              edit[e].at \in {"probing", "writing"} /\ t \in edit[e].list
              /\ ListOf(edit[e].op) = "tools"
                  => OnRecord(t) \/ (edit[e].op = "add tool" /\ edit[e].what = {t})

ConfigurationIInv ==
    /\ ConfigurationTypes /\ NarrowingKept /\ ListsOnRecord
    /\ \A e \in Edits : CheckedFirst(e)

-----------------------------------------------------------------------------
(* Suggestions: the types *)

LEMMA SuggestionNumbers ==
    /\ New \in Statuses /\ Null \notin Statuses /\ DailyLimit \in Nat
    /\ \A r \in Ideas : IdeaAuthor[r] \in Authors
BY SuggestionsAssumption DEF SuggestionsAssumption

LEMMA SuggestionTypesInit == SuggestionsInit => SuggestionTypes
BY SuggestionNumbers DEF SuggestionsInit, SuggestionTypes, SweepPlaces

(* Who is at what row or claim of the sweep, and what it does to the rows.  *)
SubmitStep(r) == SubmitLocked(r) \/ SubmitInsert(r) \/ SubmitCommit(r)
AuthorsStep(p) ==
    DayPasses(p) \/ AuthorDoor(p) \/ AuthorOptsOut(p) \/ \E on \in BOOLEAN : SetPreference(p, on)
RowStep(r) == (\E yes \in BOOLEAN : SetNotify(r, yes)) \/ (\E s \in Statuses : Triage(r, s))
NewsSweepStep == (\E S \in SUBSET Ideas : ClaimNews(S)) \/ NewsStep \/ ReleaseFails \/ NewsCrash

LEMMA SuggestionsCases ==
    SuggestionsNext <=> \/ \E r \in Ideas : SubmitStep(r) \/ RowStep(r)
                        \/ \E p \in Authors : AuthorsStep(p)
                        \/ NewsSweepStep
BY DEF SuggestionsNext, SubmitStep, AuthorsStep, RowStep, NewsSweepStep

LEMMA SubmitTypes ==
    ASSUME SuggestionTypes, NEW r \in Ideas, SubmitStep(r)
    PROVE  SuggestionTypes'
<1> USE DEF SuggestionTypes, rowVars, personVars, sweepVars, boundVars, heardVars
<1>1. CASE SubmitLocked(r)
  BY <1>1 DEF SubmitLocked
<1>2. CASE SubmitInsert(r)
  <2>1. submitting' \in [Ideas -> {"no", "locked", "inserted", "refused"}]
    BY <1>2 DEF SubmitInsert
  <2>2. QED
    BY <1>2, <2>1 DEF SubmitInsert
<1>3. CASE SubmitCommit(r)
  <2>1. submitting' \in [Ideas -> {"no", "locked", "inserted", "refused"}]
    BY <1>3 DEF SubmitCommit
  <2>2. QED
    BY <1>3, <2>1 DEF SubmitCommit
<1>4. QED
  BY <1>1, <1>2, <1>3 DEF SubmitStep

LEMMA AuthorsTypes ==
    ASSUME SuggestionTypes, NEW p \in Authors, AuthorsStep(p)
    PROVE  SuggestionTypes'
<1> USE DEF SuggestionTypes, submitVars, rowVars, personVars, sweepVars, boundVars, heardVars
<1>1. CASE DayPasses(p)
  BY <1>1 DEF DayPasses
<1>2. CASE AuthorDoor(p)
  BY <1>2 DEF AuthorDoor
<1>3. CASE AuthorOptsOut(p)
  BY <1>3 DEF AuthorOptsOut
<1>4. ASSUME NEW on \in BOOLEAN, SetPreference(p, on)
      PROVE  SuggestionTypes'
  <2>1. authorPref' \in [Authors -> {"on", "off", "undeliverable"}]
    BY <1>4 DEF SetPreference
  <2>2. QED
    BY <1>4, <2>1 DEF SetPreference
<1>5. QED
  BY <1>1, <1>2, <1>3, <1>4 DEF AuthorsStep

LEMMA IdeaRowTypes ==
    ASSUME SuggestionTypes, NEW r \in Ideas, RowStep(r)
    PROVE  SuggestionTypes'
<1> USE DEF SuggestionTypes, submitVars, rowVars, personVars, sweepVars, boundVars, heardVars
<1>1. ASSUME NEW yes \in BOOLEAN, SetNotify(r, yes)
      PROVE  SuggestionTypes'
  <2>1. /\ notified' \in [Ideas -> Statuses \cup {Null}] /\ heard' \in [Ideas -> Nat]
        /\ known' \in [Ideas -> Statuses]
    BY <1>1 DEF SetNotify
  <2>2. notify' \subseteq suggested /\ UNCHANGED <<suggested, newsSweep, claimed>>
    BY <1>1 DEF SetNotify
  <2>3. QED
    BY <1>1, <2>1, <2>2 DEF SetNotify
<1>2. ASSUME NEW s \in Statuses, Triage(r, s)
      PROVE  SuggestionTypes'
  BY <1>2 DEF Triage
<1>3. QED
  BY <1>1, <1>2 DEF RowStep

LEMMA OnwardType ==
    ASSUME NEW S
    PROVE  /\ Onward(S) \in [at : SweepPlaces, now : Ideas \cup {Null}]
           /\ Onward(S).at = "idle" <=> S = {}
           /\ Onward(S).at \in {"idle", "next"}
BY DEF Onward, SweepPlaces

LEMMA NewsSweepTypes ==
    ASSUME SuggestionTypes, NewsSweepStep
    PROVE  SuggestionTypes'
<1> USE DEF SuggestionTypes, submitVars, rowVars, personVars, sweepVars, boundVars, heardVars
<1>1. ASSUME NEW S \in SUBSET Ideas, ClaimNews(S)
      PROVE  SuggestionTypes'
  <2>1. newsSweep' = [at |-> "next", now |-> Null] /\ claimed' = S /\ S # {}
    BY <1>1 DEF ClaimNews
  <2>2. /\ notified' \in [Ideas -> Statuses \cup {Null}] /\ said' \in [Ideas -> Statuses]
        /\ previous' \in [Ideas -> Statuses \cup {Null}] /\ saying' \in [Ideas -> Nat]
    BY <1>1 DEF ClaimNews, AsClaimed
  <2>3. QED
    BY <1>1, <2>1, <2>2 DEF ClaimNews, SweepPlaces
<1>2. ASSUME NEW r \in Ideas, Announced(r)
      PROVE  SuggestionTypes'
  <2>1. newsSweep' = Onward(claimed') /\ claimed' \subseteq Ideas
    BY <1>2 DEF Announced
  <2>2. /\ heard' \in [Ideas -> Nat] /\ known' \in [Ideas -> Statuses]
        /\ messages' \in [Ideas -> Nat]
    BY <1>2 DEF Announced
  <2>3. QED
    BY <1>2, <2>1, <2>2, OnwardType, SMTT(30) DEF Announced
<1>3. ASSUME NEW r \in Ideas, NEW why \in {"failed", "closed"}, NotAnnounced(r, why)
      PROVE  SuggestionTypes'
  <2>1. newsSweep' = [at |-> why, now |-> r] /\ r \in claimed /\ claimed' = claimed
    BY <1>3 DEF NotAnnounced
  <2>2. QED
    BY <1>3, <2>1 DEF NotAnnounced, SweepPlaces
<1>4. CASE ReleaseNews
  <2>1. notified' \in [Ideas -> Statuses \cup {Null}]
    BY <1>4 DEF ReleaseNews, Released
  <2>2. \/ claimed' \subseteq Ideas /\ newsSweep' = Onward(claimed')
        \/ /\ claimed' = claimed /\ newsSweep' = [newsSweep EXCEPT !.at = "released"]
           /\ newsSweep.now \in claimed
    BY <1>4 DEF ReleaseNews
  <2>3. QED
    BY <1>4, <2>1, <2>2, OnwardType DEF ReleaseNews, SweepPlaces
<1>5. CASE RecordUndeliverable
  <2>1. authorPref' \in [Authors -> {"on", "off", "undeliverable"}]
    BY <1>5 DEF RecordUndeliverable
  <2>2. claimed' \subseteq Ideas /\ newsSweep' = Onward(claimed')
    BY <1>5 DEF RecordUndeliverable
  <2>3. /\ newsSweep' \in [at : SweepPlaces, now : Ideas \cup {Null}]
        /\ newsSweep'.at = "idle" <=> claimed' = {}
        /\ newsSweep'.at \in {"idle", "next"}
    BY <2>2, OnwardType
  <2>4. QED
    BY <1>5, <2>1, <2>2, <2>3 DEF RecordUndeliverable
<1>6. CASE ReleaseFails
  <2>1. claimed' \subseteq Ideas /\ newsSweep' = Onward(claimed') /\ dropped' \subseteq Ideas
    BY <1>6 DEF ReleaseFails
  <2>2. /\ newsSweep' \in [at : SweepPlaces, now : Ideas \cup {Null}]
        /\ newsSweep'.at = "idle" <=> claimed' = {}
        /\ newsSweep'.at \in {"idle", "next"}
    BY <2>1, OnwardType
  <2>3. QED
    BY <1>6, <2>1, <2>2 DEF ReleaseFails
<1>7. CASE NewsCrash
  <2>1. claimed' = {} /\ newsSweep' = Onward(claimed') /\ dropped' \subseteq Ideas
    BY <1>7 DEF NewsCrash
  <2>2. QED
    BY <1>7, <2>1, OnwardType DEF NewsCrash
<1>8. QED
  BY <1>1, <1>2, <1>3, <1>4, <1>5, <1>6, <1>7 DEF NewsSweepStep, NewsStep

LEMMA SuggestionTypesStep ==
    ASSUME SuggestionTypes, SuggestionsNext
    PROVE  SuggestionTypes'
BY SuggestionsCases, SubmitTypes, AuthorsTypes, IdeaRowTypes, NewsSweepTypes

-----------------------------------------------------------------------------
(* Suggestions: the news *)

(* What most steps do not touch.                                            *)
LEMMA NewsStays ==
    ASSUME NewsIInv, UNCHANGED <<reqStatus, notified, sweepVars, changes, heard, messages>>
    PROVE  NewsIInv'
BY DEF NewsIInv, ClaimIsNews, RestIsKnown, sweepVars

LEMMA RowKeepsNews ==
    ASSUME SuggestionTypes, NewsIInv, NEW r \in Ideas, RowStep(r)
    PROVE  NewsIInv'
<1> USE SuggestionNumbers
<1>1. ASSUME NEW yes \in BOOLEAN, SetNotify(r, yes)
      PROVE  NewsIInv'
  <2>1. UNCHANGED <<reqStatus, sweepVars, changes, messages>>
    BY <1>1 DEF SetNotify
  <2>2. CASE notified[r] = Null
    <3>1. /\ notified' = [notified EXCEPT ![r] = reqStatus[r]]
          /\ heard' = [heard EXCEPT ![r] = changes[r]]
      BY <1>1, <2>2 DEF SetNotify
    <3>2. /\ notified'[r] = reqStatus[r] /\ heard'[r] = changes[r] /\ reqStatus[r] # Null
          /\ \A q \in Ideas : q # r => notified'[q] = notified[q] /\ heard'[q] = heard[q]
          /\ changes[r] \in Nat
      BY <3>1 DEF SuggestionTypes
    <3>3. r \notin claimed
      BY <2>2 DEF NewsIInv, ClaimIsNews
    <3>4. QED
      BY <2>1, <3>2, <3>3 DEF NewsIInv, ClaimIsNews, RestIsKnown, sweepVars
  <2>3. CASE notified[r] # Null
    BY <1>1, <2>1, <2>3, NewsStays DEF SetNotify
  <2>4. QED
    BY <2>2, <2>3
<1>2. ASSUME NEW s \in Statuses, Triage(r, s)
      PROVE  NewsIInv'
  <2>1. UNCHANGED <<notified, sweepVars, heard, messages>>
    BY <1>2 DEF Triage
  <2>2. /\ changes'[r] = changes[r] + 1
        /\ \A q \in Ideas : q # r => changes'[q] = changes[q] /\ reqStatus'[q] = reqStatus[q]
    BY <1>2 DEF Triage, SuggestionTypes
  <2>3. changes[r] \in Nat /\ heard[r] \in Nat /\ saying[r] \in Nat
    BY DEF SuggestionTypes
  <2>4. QED
    BY <2>1, <2>2, <2>3 DEF NewsIInv, ClaimIsNews, RestIsKnown, sweepVars
<1>3. QED
  BY <1>1, <1>2 DEF RowStep

(* A claim takes what its author has not heard of.                          *)
LEMMA ClaimKeepsNews ==
    ASSUME SuggestionTypes, NewsIInv, NEW S \in SUBSET Ideas, ClaimNews(S)
    PROVE  NewsIInv'
<1> USE SuggestionNumbers
<1>1. /\ UNCHANGED <<reqStatus, changes, heard, messages>>
      /\ claimed' = S /\ newsSweep'.at = "next" /\ claimed = {} /\ S \subseteq News
  BY DEF ClaimNews, SuggestionTypes, heardVars
<1>2. ASSUME NEW r \in S
      PROVE  /\ said'[r] = reqStatus[r] /\ saying'[r] = changes[r] /\ previous'[r] = notified[r]
             /\ notified'[r] = reqStatus[r]
  BY DEF ClaimNews, AsClaimed
<1>3. ASSUME NEW r \in Ideas \ S
      PROVE  notified'[r] = notified[r]
  BY DEF ClaimNews, AsClaimed
<1>4. ASSUME NEW r \in S
      PROVE  /\ notified[r] # Null /\ heard[r] < changes[r] /\ reqStatus[r] # Null
             /\ changes[r] \in Nat
  <2>1. notified[r] # Null /\ reqStatus[r] # notified[r]
    BY <1>1 DEF News, IsNews
  <2>2. heard[r] <= changes[r] /\ heard[r] # changes[r]
    BY <1>1, <2>1 DEF NewsIInv, RestIsKnown
  <2>3. QED
    BY <2>1, <2>2 DEF SuggestionTypes
<1>5. ASSUME NEW r \in S
      PROVE  ClaimIsNews(r)' /\ notified'[r] # Null
  BY <1>1, <1>2, <1>4 DEF ClaimIsNews
<1>6. ASSUME NEW r \in Ideas \ S
      PROVE  RestIsKnown(r)' /\ (notified'[r] = Null => messages'[r] = 0)
  BY <1>1, <1>3 DEF NewsIInv, RestIsKnown
<1>7. QED
  BY <1>1, <1>5, <1>6 DEF NewsIInv

(* What leaves a claim unsent stays news, put back or not.                  *)
LEMMA UnsentKeepsNews ==
    ASSUME SuggestionTypes, NewsIInv, claimed' \subseteq claimed, newsSweep'.at # "released",
           newsSweep.at # "released" \/ newsSweep.now \notin claimed',
           UNCHANGED <<reqStatus, notified, said, previous, saying, changes, heard, messages>>
    PROVE  NewsIInv'
<1>1. ASSUME NEW r \in claimed'
      PROVE  ClaimIsNews(r)' /\ notified'[r] # Null
  BY DEF NewsIInv, ClaimIsNews, SuggestionTypes
<1>2. ASSUME NEW r \in Ideas \ claimed'
      PROVE  RestIsKnown(r)' /\ (notified'[r] = Null => messages'[r] = 0)
  <2>1. heard[r] \in Nat /\ saying[r] \in Nat /\ changes[r] \in Nat
    BY DEF SuggestionTypes
  <2>2. QED
    BY <2>1 DEF NewsIInv, ClaimIsNews, RestIsKnown
<1>3. QED
  BY <1>1, <1>2 DEF NewsIInv

LEMMA ReleaseKeepsNews ==
    ASSUME SuggestionTypes, NewsIInv, ReleaseNews
    PROVE  NewsIInv'
<1>0. PICK r \in Ideas : r = newsSweep.now /\ r \in claimed
  BY DEF ReleaseNews, SuggestionTypes
<1>1. /\ UNCHANGED <<reqStatus, said, previous, saying, changes, heard, messages>>
      /\ notified' \in {notified, [notified EXCEPT ![r] = previous[r]]}
      /\ newsSweep.at \in {"failed", "closed"}
  BY <1>0 DEF ReleaseNews, Released, heardVars
<1>2. /\ \A q \in Ideas : q # r => notified'[q] = notified[q]
      /\ notified'[r] \in {notified[r], previous[r]} /\ notified'[r] # Null
  BY <1>0, <1>1 DEF SuggestionTypes, NewsIInv, ClaimIsNews
<1>3. \/ claimed' = claimed \ {r} /\ newsSweep'.at # "released"
      \/ claimed' = claimed /\ newsSweep'.at = "released" /\ newsSweep'.now = r
  BY <1>0, OnwardType DEF ReleaseNews, SuggestionTypes
<1>4. heard[r] < saying[r] /\ saying[r] <= changes[r] /\ changes[r] \in Nat /\ heard[r] \in Nat
      /\ saying[r] \in Nat
  BY <1>0 DEF NewsIInv, ClaimIsNews, SuggestionTypes
<1>5. ASSUME NEW q \in Ideas, q # r
      PROVE  /\ IF q \in claimed' THEN ClaimIsNews(q)' ELSE RestIsKnown(q)'
             /\ notified'[q] = Null => messages'[q] = 0
  BY <1>0, <1>1, <1>2, <1>3, <1>5 DEF NewsIInv, ClaimIsNews, RestIsKnown
<1>6. r \in claimed' => ClaimIsNews(r)'
  BY <1>0, <1>1, <1>2, <1>3 DEF NewsIInv, ClaimIsNews
<1>7. RestIsKnown(r)' \/ r \in claimed'
  BY <1>1, <1>4 DEF RestIsKnown
<1>8. QED
  BY <1>2, <1>5, <1>6, <1>7 DEF NewsIInv

LEMMA SweepKeepsNews ==
    ASSUME SuggestionTypes, NewsIInv, NewsSweepStep
    PROVE  NewsIInv'
<1>1. ASSUME NEW S \in SUBSET Ideas, ClaimNews(S)
      PROVE  NewsIInv'
  BY <1>1, ClaimKeepsNews
<1>2. ASSUME NEW r \in Ideas, Announced(r)
      PROVE  NewsIInv'
  <2>1. /\ UNCHANGED <<reqStatus, notified, said, previous, saying, changes>>
        /\ claimed' = claimed \ {r} /\ newsSweep'.at # "released" /\ newsSweep.at = "next"
        /\ r \in claimed
    BY <1>2, OnwardType DEF Announced, rowVars
  <2>2. /\ heard'[r] = saying[r]
        /\ \A q \in Ideas : q # r => heard'[q] = heard[q] /\ messages'[q] = messages[q]
    BY <1>2 DEF Announced, SuggestionTypes
  <2>3. /\ saying[r] <= changes[r] /\ notified[r] # Null
        /\ saying[r] = changes[r] => notified[r] = reqStatus[r]
    BY <2>1 DEF NewsIInv, ClaimIsNews
  <2>4. RestIsKnown(r)'
    BY <2>1, <2>2, <2>3 DEF RestIsKnown
  <2>5. ASSUME NEW q \in Ideas, q # r
        PROVE  /\ IF q \in claimed' THEN ClaimIsNews(q)' ELSE RestIsKnown(q)'
               /\ notified'[q] = Null => messages'[q] = 0
    BY <2>1, <2>2, <2>5 DEF NewsIInv, ClaimIsNews, RestIsKnown
  <2>6. QED
    BY <2>1, <2>3, <2>4, <2>5 DEF NewsIInv
<1>3. ASSUME NEW r \in Ideas, NEW why \in {"failed", "closed"}, NotAnnounced(r, why)
      PROVE  NewsIInv'
  BY <1>3, UnsentKeepsNews DEF NotAnnounced, rowVars, heardVars
<1>4. CASE ReleaseNews
  BY <1>4, ReleaseKeepsNews
<1>5. CASE RecordUndeliverable \/ ReleaseFails
  <2>1. /\ claimed' = claimed \ {newsSweep.now} /\ newsSweep' = Onward(claimed')
        /\ UNCHANGED <<reqStatus, notified, said, previous, saying, changes, heard, messages>>
    BY <1>5 DEF RecordUndeliverable, ReleaseFails, rowVars, heardVars
  <2>2. QED
    BY <2>1, OnwardType, UnsentKeepsNews
<1>6. CASE NewsCrash
  <2>1. /\ claimed' = {} /\ newsSweep' = Onward({})
        /\ UNCHANGED <<reqStatus, notified, said, previous, saying, changes, heard, messages>>
    BY <1>6 DEF NewsCrash, rowVars
  <2>2. QED
    BY <2>1, OnwardType, UnsentKeepsNews
<1>7. QED
  BY <1>1, <1>2, <1>3, <1>4, <1>5, <1>6 DEF NewsSweepStep, NewsStep

LEMMA NewsIInvStep ==
    ASSUME SuggestionTypes, NewsIInv, SuggestionsNext
    PROVE  NewsIInv'
<1>1. ASSUME NEW r \in Ideas, SubmitStep(r)
      PROVE  NewsIInv'
  BY <1>1, NewsStays DEF SubmitStep, SubmitLocked, SubmitInsert, SubmitCommit, rowVars, heardVars
<1>2. ASSUME NEW p \in Authors, AuthorsStep(p)
      PROVE  NewsIInv'
  BY <1>2, NewsStays
  DEF AuthorsStep, DayPasses, AuthorDoor, AuthorOptsOut, SetPreference, rowVars, heardVars
<1>3. QED
  BY <1>1, <1>2, SuggestionsCases, RowKeepsNews, SweepKeepsNews

-----------------------------------------------------------------------------
(* Suggestions: the limit *)

(* Nothing but a submission adds to a day.                                  *)
LEMMA DayShrinks ==
    ASSUME SuggestionTypes, LimitIInv, today' \subseteq today, UNCHANGED submitting
    PROVE  LimitIInv'
<1>1. IsFiniteSet(today')
  BY FS_Subset DEF LimitIInv
<1>2. ASSUME NEW p
      PROVE  /\ Cardinality(today' \cap IdeasOf(p)) <= Cardinality(today \cap IdeasOf(p))
             /\ Cardinality(today' \cap IdeasOf(p)) \in Nat
             /\ Cardinality(today \cap IdeasOf(p)) \in Nat
  <2>1. IsFiniteSet(today \cap IdeasOf(p)) /\ IsFiniteSet(today' \cap IdeasOf(p))
    BY <1>1, FS_Subset DEF LimitIInv
  <2>2. today' \cap IdeasOf(p) \subseteq today \cap IdeasOf(p)
    OBVIOUS
  <2>3. QED
    BY <2>1, <2>2, FS_Subset, FS_CardinalityType
<1>3. LimitHolds'
  <2>1. ASSUME NEW p \in Authors
        PROVE  Cardinality(today' \cap IdeasOf(p)) <= DailyLimit
    <3>1. Cardinality(today \cap IdeasOf(p)) <= DailyLimit
      BY DEF LimitIInv, LimitHolds
    <3>2. QED
      BY <1>2, <3>1, SuggestionNumbers
  <2>2. QED
    BY <2>1 DEF LimitHolds, IdeasOf
<1>4. ASSUME NEW r \in Ideas, submitting[r] = "inserted"
      PROVE  Cardinality(today' \cap IdeasOf(IdeaAuthor[r])) < DailyLimit
  <2>1. Cardinality(today \cap IdeasOf(IdeaAuthor[r])) < DailyLimit
    BY <1>4 DEF LimitIInv
  <2>2. QED
    BY <1>2, <2>1, SuggestionNumbers
<1>5. QED
  BY <1>1, <1>3, <1>4 DEF LimitIInv, IdeasOf

LEMMA LimitStep ==
    ASSUME SuggestionTypes, LimitIInv, SuggestionsNext
    PROVE  LimitIInv'
<1> USE SuggestionNumbers
<1>1. ASSUME NEW r \in Ideas, SubmitLocked(r)
      PROVE  LimitIInv'
  <2>1. UNCHANGED today
    BY <1>1 DEF SubmitLocked
  <2>2. /\ submitting'[r] = "locked"
        /\ \A q \in Ideas : q # r => submitting'[q] = submitting[q]
        /\ \A q \in Ideas : IdeaAuthor[q] = IdeaAuthor[r] => submitting[q] = "no"
    BY <1>1 DEF SubmitLocked, SuggestionTypes, PersonFree, IdeasOf
  <2>3. QED
    BY <2>1, <2>2 DEF LimitIInv, LimitHolds, IdeasOf
<1>2. ASSUME NEW r \in Ideas, SubmitInsert(r)
      PROVE  LimitIInv'
  <2>1. UNCHANGED today /\ submitting[r] = "locked"
    BY <1>2 DEF SubmitInsert
  <2>2. \A q \in Ideas : q # r => submitting'[q] = submitting[q]
    BY <1>2 DEF SubmitInsert, SuggestionTypes
  <2>3. submitting'[r] = "inserted" => Cardinality(today \cap IdeasOf(IdeaAuthor[r])) < DailyLimit
    BY <1>2 DEF SubmitInsert, SuggestionTypes
  <2>4. QED
    BY <2>1, <2>2, <2>3 DEF LimitIInv, LimitHolds, IdeasOf
<1>3. ASSUME NEW r \in Ideas, SubmitCommit(r)
      PROVE  LimitIInv'
  <2>1. submitting' = [submitting EXCEPT ![r] = "no"]
    BY <1>3 DEF SubmitCommit
  <2>2. submitting'[r] = "no" /\ \A q \in Ideas : q # r => submitting'[q] = submitting[q]
    BY <2>1 DEF SuggestionTypes
  <2>3. CASE submitting[r] = "inserted"
    <3>1. today' = today \cup {r}
      BY <1>3, <2>3 DEF SubmitCommit
    <3>2. IsFiniteSet(today')
      BY <3>1, FS_AddElement DEF LimitIInv
    <3>3. ASSUME NEW p, p # IdeaAuthor[r]
          PROVE  today' \cap IdeasOf(p) = today \cap IdeasOf(p)
      BY <3>1, <3>3 DEF IdeasOf
    <3>4. Cardinality(today' \cap IdeasOf(IdeaAuthor[r])) <= DailyLimit
      <4>1. IsFiniteSet(today \cap IdeasOf(IdeaAuthor[r]))
        BY FS_Subset DEF LimitIInv
      <4>2. today' \cap IdeasOf(IdeaAuthor[r]) = (today \cap IdeasOf(IdeaAuthor[r])) \cup {r}
        BY <3>1 DEF IdeasOf
      <4>3. /\ Cardinality(today' \cap IdeasOf(IdeaAuthor[r]))
                 \in {Cardinality(today \cap IdeasOf(IdeaAuthor[r])),
                      Cardinality(today \cap IdeasOf(IdeaAuthor[r])) + 1}
            /\ Cardinality(today \cap IdeasOf(IdeaAuthor[r])) \in Nat
        BY <4>1, <4>2, FS_AddElement, FS_CardinalityType
      <4>4. Cardinality(today \cap IdeasOf(IdeaAuthor[r])) < DailyLimit
        BY <2>3 DEF LimitIInv
      <4>5. QED
        BY <4>3, <4>4
    <3>5. LimitHolds'
      <4>1. ASSUME NEW p \in Authors
            PROVE  Cardinality(today' \cap IdeasOf(p)) <= DailyLimit
        BY <3>3, <3>4 DEF LimitIInv, LimitHolds
      <4>2. QED
        BY <4>1 DEF LimitHolds, IdeasOf
    <3>6. ASSUME NEW q \in Ideas, submitting'[q] = "inserted"
          PROVE  Cardinality(today' \cap IdeasOf(IdeaAuthor[q])) < DailyLimit
      <4>1. q # r /\ submitting[q] = "inserted"
        BY <2>2, <3>6
      <4>2. IdeaAuthor[q] # IdeaAuthor[r]
        BY <2>3, <4>1 DEF LimitIInv
      <4>3. QED
        BY <3>3, <4>1, <4>2 DEF LimitIInv
    <3>7. QED
      BY <2>2, <3>2, <3>5, <3>6 DEF LimitIInv, IdeasOf
  <2>4. CASE submitting[r] # "inserted"
    <3>1. UNCHANGED today
      BY <1>3, <2>4 DEF SubmitCommit
    <3>2. QED
      BY <2>2, <3>1 DEF LimitIInv, LimitHolds, IdeasOf
  <2>5. QED
    BY <2>3, <2>4
<1>4. ASSUME NEW p \in Authors, AuthorsStep(p)
      PROVE  LimitIInv'
  <2>1. today' \subseteq today /\ UNCHANGED submitting
    BY <1>4 DEF AuthorsStep, DayPasses, AuthorDoor, AuthorOptsOut, SetPreference, submitVars
  <2>2. QED
    BY <2>1, DayShrinks
<1>5. CASE NewsSweepStep
  <2>1. UNCHANGED submitVars
    BY <1>5 DEF NewsSweepStep, NewsStep, ClaimNews, Announced, NotAnnounced, ReleaseNews,
                RecordUndeliverable, ReleaseFails, NewsCrash
  <2>2. QED
    BY <2>1, DayShrinks DEF submitVars
<1>6. ASSUME NEW r \in Ideas, RowStep(r)
      PROVE  LimitIInv'
  BY <1>6, DayShrinks DEF RowStep, SetNotify, Triage, submitVars
<1>7. QED
  BY <1>1, <1>2, <1>3, <1>4, <1>5, <1>6, SuggestionsCases DEF SubmitStep

LEMMA SuggestionsIInvInit == SuggestionsInit => SuggestionsIInv
<1> SUFFICES ASSUME SuggestionsInit PROVE SuggestionsIInv
  OBVIOUS
<1>1. SuggestionTypes
  BY SuggestionTypesInit
<1>2. NewsIInv
  BY SuggestionNumbers DEF SuggestionsInit, NewsIInv, RestIsKnown
<1>3. LimitIInv
  <2>1. today = {} /\ \A r \in Ideas : submitting[r] = "no"
    BY DEF SuggestionsInit
  <2>2. \A p \in Authors : today \cap IdeasOf(p) = {}
    BY <2>1
  <2>3. QED
    BY <2>1, <2>2, FS_EmptySet, SuggestionNumbers DEF LimitIInv, LimitHolds
<1>4. QED
  BY <1>1, <1>2, <1>3 DEF SuggestionsIInv

LEMMA SuggestionsIInvStep ==
    SuggestionsIInv /\ [SuggestionsNext]_suggestionVars => SuggestionsIInv'
<1>1. ASSUME SuggestionsIInv, UNCHANGED suggestionVars
      PROVE  SuggestionsIInv'
  <2> USE DEF suggestionVars, submitVars, rowVars, personVars, sweepVars, boundVars, heardVars
  <2>1. SuggestionTypes'
    BY <1>1 DEF SuggestionsIInv, SuggestionTypes
  <2>2. NewsIInv'
    BY <1>1, NewsStays DEF SuggestionsIInv
  <2>3. LimitIInv'
    BY <1>1, DayShrinks DEF SuggestionsIInv
  <2>4. QED
    BY <2>1, <2>2, <2>3 DEF SuggestionsIInv
<1>2. QED
  BY <1>1, SuggestionTypesStep, NewsIInvStep, LimitStep DEF SuggestionsIInv

LEMMA SuggestionsInvariant == SuggestionsSpec => []SuggestionsIInv
BY SuggestionsIInvInit, SuggestionsIInvStep, PTL DEF SuggestionsSpec

(* No person has more suggestions accepted in a day than the limit, however *)
(* many of theirs arrive together and whatever is claimed, put back or      *)
(* opted out of meanwhile (submit under LOCK_PERSON).                       *)
THEOREM LimitIsNeverPassed == SuggestionsSpec => []LimitHolds
<1>1. SuggestionsIInv => LimitHolds
  BY DEF SuggestionsIInv, LimitIInv
<1>2. QED
  BY SuggestionsInvariant, <1>1, PTL

(* A sweep holds what it claimed and nothing else, and the rows and people  *)
(* keep their types (submit, StatusNewsRunner).                             *)
THEOREM SuggestionsKeepTypes == SuggestionsSpec => []SuggestionsTypeOK
<1>1. SuggestionsIInv => SuggestionsTypeOK
  BY DEF SuggestionsIInv, SuggestionTypes, SuggestionsTypeOK, SweepPlaces
<1>2. QED
  BY SuggestionsInvariant, <1>1, PTL

-----------------------------------------------------------------------------
(* Suggestions: what StatusNews promises is kept *)

LEMMA NewsStart == SuggestionsInit => Promised!NewsInit
BY DEF SuggestionsInit, Promised!NewsInit

LEMMA NewsFollows ==
    ASSUME SuggestionTypes, NewsIInv, SuggestionsNext
    PROVE  [Promised!NewsNext]_(Promised!newsVars)
<1> USE DEF Promised!newsVars
<1>1. ASSUME NEW r \in Ideas, NEW yes \in BOOLEAN, SetNotify(r, yes)
      PROVE  Promised!Ask(r) \/ UNCHANGED <<changes, heard, messages>>
  BY <1>1 DEF SetNotify, Promised!Ask, NewsIInv
<1>2. ASSUME NEW r \in Ideas, NEW s \in Statuses, Triage(r, s)
      PROVE  Promised!Change(r)
  BY <1>2 DEF Triage, Promised!Change
<1>3. ASSUME NEW r \in Ideas, Announced(r)
      PROVE  Promised!Hear(r)
  <2>1. /\ heard' = [heard EXCEPT ![r] = saying[r]]
        /\ messages' = [messages EXCEPT ![r] = @ + 1] /\ UNCHANGED changes /\ r \in claimed
    BY <1>3 DEF Announced
  <2>2. saying[r] \in heard[r] + 1 .. changes[r]
    BY <2>1 DEF NewsIInv, ClaimIsNews, SuggestionTypes
  <2>3. QED
    BY <2>1, <2>2 DEF Promised!Hear
<1>4. ASSUME NEW r \in Ideas, SubmitStep(r)
      PROVE  UNCHANGED <<changes, heard, messages>>
  BY <1>4 DEF SubmitStep, SubmitLocked, SubmitInsert, SubmitCommit, heardVars
<1>5. ASSUME NEW p \in Authors, AuthorsStep(p)
      PROVE  UNCHANGED <<changes, heard, messages>>
  BY <1>5 DEF AuthorsStep, DayPasses, AuthorDoor, AuthorOptsOut, SetPreference, heardVars
<1>6. ASSUME NewsSweepStep
      PROVE  (\E r \in Ideas : Announced(r)) \/ UNCHANGED <<changes, heard, messages>>
  BY <1>6 DEF NewsSweepStep, NewsStep, ClaimNews, NotAnnounced, ReleaseNews, RecordUndeliverable,
              ReleaseFails, NewsCrash, heardVars
<1>7. QED
  BY <1>1, <1>2, <1>3, <1>4, <1>5, <1>6, SuggestionsCases DEF RowStep, Promised!NewsNext

(* The sweep implements StatusNews: an author hears of the changes in the   *)
(* order they were made, of none twice and of none they know already,       *)
(* through claims that are put back, messages that fail, restarts, and a    *)
(* status that goes back and forth (CLAIM_STATUS_NEWS, RELEASE_STATUS_NEWS, *)
(* SET_NOTIFY).                                                             *)
THEOREM NewsImplementsStatusNews == SuggestionsSpec => FollowsChanges
<1>1. SuggestionsIInv /\ [SuggestionsNext]_suggestionVars
        => [Promised!NewsNext]_(Promised!newsVars)
  <2>1. UNCHANGED suggestionVars => UNCHANGED Promised!newsVars
    BY DEF suggestionVars, heardVars, Promised!newsVars
  <2>2. QED
    BY <2>1, NewsFollows DEF SuggestionsIInv
<1>2. QED
  BY SuggestionsInvariant, NewsStart, <1>1, PTL
  DEF SuggestionsSpec, FollowsChanges, Promised!NewsSpec

-----------------------------------------------------------------------------
(* Configuration: rows and values *)

LEMMA ConfigurationNumbers ==
    /\ "console" \in Processes /\ Mutates \subseteq Tools /\ ServerOf \in [Tools -> Servers]
    /\ \A s \in Settings : Environment[s] \in ValueOf(s)
BY ConfigurationAssumption DEF ConfigurationAssumption

LEMMA SettingsAre == Settings = {"scalar", "servers", "tools"}
BY DEF Settings

LEMMA ValuesAre ==
    /\ ValueOf("scalar") = {{v} : v \in Scalars}
    /\ ValueOf("servers") = SUBSET Servers /\ ValueOf("tools") = SUBSET Tools
BY DEF ValueOf

LEMMA RowsAre ==
    ASSUME NEW s \in Settings, NEW row \in RowsOf(s)
    PROVE  /\ row.kind \in {"absent", "malformed", "stored"}
           /\ row.kind = "stored" => row.value \in ValueOf(s)
           /\ row.kind # "stored" => row.value = {}
BY DEF RowsOf, Absent, Malformed, Row

LEMMA RowsInAny ==
    ASSUME NEW s \in Settings, NEW row \in RowsOf(s)
    PROVE  row \in AnyRow
BY DEF AnyRow

LEMMA IdlingTyped ==
    /\ Idling \in [at : {"idle", "asked", "read"}, rows : [Settings -> AnyRow]]
    /\ \A s \in Settings : Idling.rows[s] \in RowsOf(s)
<1>1. \A s \in Settings : Absent \in RowsOf(s)
  BY DEF RowsOf
<1>2. \A s \in Settings : Absent \in AnyRow
  BY <1>1, RowsInAny
<1>3. QED
  BY <1>1, <1>2 DEF Idling

LEMMA RowsThere ==
    ASSUME NEW s \in Settings
    PROVE  /\ Absent \in RowsOf(s) /\ Malformed \in RowsOf(s)
           /\ \A v \in ValueOf(s) : Row(v) \in RowsOf(s) /\ Row(v).kind = "stored"
                                    /\ Row(v).value = v
           /\ Absent.kind = "absent"
BY DEF RowsOf, Row, Absent

LEMMA NoEditType == NoEdit \in EditRecord
BY DEF NoEdit, EditRecord, EditPlaces, Ops

LEMMA EnvironmentTyped ==
    \A s \in Settings : /\ FromEnvironment[s].value = Environment[s]
                        /\ FromEnvironment[s].source = "environment"
                        /\ FromEnvironment[s].value \in ValueOf(s)
BY ConfigurationNumbers DEF FromEnvironment

(* What a setting is after a refresh.                                       *)
LEMMA ResolveCases ==
    ASSUME NEW read, NEW current, NEW s \in Settings, read[s] \in RowsOf(s)
    PROVE  LET after == Resolve(read, current)[s] IN
           \/ read[s].kind = "absent" /\ after = FromEnvironment[s]
           \/ read[s].kind = "malformed" /\ after = current[s]
           \/ /\ read[s].kind = "stored" /\ after.value = read[s].value
              /\ after.source = "database"
<1>1. Resolve(read, current)[s] = Applied(read[s], current[s], FromEnvironment[s])
  BY DEF Resolve
<1>2. QED
  BY <1>1, RowsAre DEF Applied

(* A request's two ways of ending a refresh.                                *)
LEMMA ReturnedCases ==
    ASSUME NEW f \in Refreshers, Returned(f), EditTyped
    PROVE  /\ \A e \in Edits : e # f => edit'[e] = edit[e]
           /\ f \in Edits => \/ /\ edit[f].op = "add tool" /\ edit[f].what \subseteq Mutates
                                /\ edit'[f] = [edit[f] EXCEPT !.at = "recording"]
                             \/ /\ ~(edit[f].op = "add tool" /\ edit[f].what \subseteq Mutates)
                                /\ edit'[f] = NoEdit
           /\ DOMAIN edit' = DOMAIN edit
           /\ loading' = [loading EXCEPT ![f] = Idling]
<1> DEFINE Escalates == edit[f].op = "add tool" /\ edit[f].what \subseteq Mutates
<1>1. f \in Edits /\ Escalates => edit' = [edit EXCEPT ![f].at = "recording"]
  BY Zenon DEF Returned
<1>2. f \in Edits /\ ~Escalates => edit' = [edit EXCEPT ![f] = NoEdit]
  BY Zenon DEF Returned
<1>3. f \notin Edits => edit' = edit
  BY Zenon DEF Returned
<1>4. loading' = [loading EXCEPT ![f] = Idling]
  BY Zenon DEF Returned
<1> HIDE DEF Escalates
<1>5. QED
  <2>1. DOMAIN edit' = DOMAIN edit
    BY <1>1, <1>2, <1>3
  <2>2. \A e \in Edits : e # f => edit'[e] = edit[e]
    BY <1>1, <1>2, <1>3 DEF EditTyped
  <2>3. f \in Edits => \/ Escalates /\ edit'[f] = [edit[f] EXCEPT !.at = "recording"]
                       \/ ~Escalates /\ edit'[f] = NoEdit
    BY <1>1, <1>2 DEF EditTyped
  <2>4. QED
    BY Zenon, <1>4, <2>1, <2>2, <2>3 DEF Escalates

LEMMA ReturnedTypes ==
    ASSUME NEW f \in Refreshers, Returned(f), EditTyped, LoadingTyped
    PROVE  EditTyped' /\ LoadingTyped'
<1>1. LoadingTyped'
  <2>1. loading' = [loading EXCEPT ![f] = Idling]
    BY DEF Returned
  <2>2. QED
    BY <2>1, IdlingTyped DEF LoadingTyped
<1>2. ASSUME NEW e \in Edits
      PROVE  edit'[e] \in EditRecord
  <2>1. edit[e] \in EditRecord
    BY DEF EditTyped
  <2>2. edit[e].what \subseteq Mutates => [edit[e] EXCEPT !.at = "recording"] \in EditRecord
    BY <2>1, ConfigurationNumbers DEF EditRecord, EditPlaces
  <2>3. QED
    BY <2>1, <2>2, ReturnedCases, NoEditType
<1>3. QED
  BY <1>1, <1>2, ReturnedCases DEF EditTyped

LEMMA ProcessOfRefresher ==
    ASSUME NEW f \in Refreshers PROVE ProcessOf(f) \in Processes
BY ConfigurationNumbers DEF ProcessOf

(* The steps, grouped by what they do to the parts.                         *)
Refreshing(f) == RefreshStep(f) \/ RefreshFails(f)
Writing(e) == (\E v \in ValueOf("scalar") : PutSetting(e, v)) \/ ClearSetting(e) \/ StoreList(e)
Checking(e) == \/ \E s \in Servers : AddServer(e, s) \/ RemoveServer(e, s)
               \/ \E t \in Tools : AddTool(e, t) \/ RemoveTool(e, t)

LEMMA ConfigurationCases ==
    ConfigurationNext <=> \/ \E f \in Refreshers : Refreshing(f)
                          \/ \E p \in Processes : Restart(p)
                          \/ \E e \in Edits : \/ Writing(e) \/ Checking(e) \/ Probed(e)
                                              \/ RecordEscalation(e)
                          \/ WriteByHand
BY DEF ConfigurationNext, Refreshing, Writing, Checking

LEMMA RefreshingTypes ==
    ASSUME ConfigurationTypes, NEW f \in Refreshers, Refreshing(f)
    PROVE  ConfigurationTypes'
<1> USE DEF ConfigurationTypes
<1>1. CASE RefreshAsk(f)
  <2>1. LoadingTyped'
    BY <1>1 DEF RefreshAsk, LoadingTyped
  <2>2. QED
    BY <1>1, <2>1 DEF RefreshAsk, RowsTyped, SnapTyped, EditTyped, OtherTyped
<1>2. CASE RefreshRead(f)
  <2>1. LoadingTyped'
    BY <1>2 DEF RefreshRead, LoadingTyped, RowsTyped
  <2>2. QED
    BY <1>2, <2>1 DEF RefreshRead, RowsTyped, SnapTyped, EditTyped, OtherTyped
<1>3. CASE RefreshFails(f)
  <2>1. EditTyped' /\ LoadingTyped'
    BY <1>3, ReturnedTypes DEF RefreshFails
  <2>2. SnapTyped'
    BY <1>3, ProcessOfRefresher DEF RefreshFails, KeptAfterFailure, SnapTyped
  <2>3. QED
    BY <1>3, <2>1, <2>2 DEF RefreshFails, RowsTyped, OtherTyped
<1>4. CASE RefreshDone(f)
  <2>1. EditTyped' /\ LoadingTyped'
    BY <1>4, ReturnedTypes DEF RefreshDone
  <2>2. ASSUME NEW p \in Processes, NEW s \in Settings
        PROVE  snap'[p][s].value \in ValueOf(s) /\ snap'[p][s].source \in {"environment", "database"}
    <3>1. CASE p # ProcessOf(f)
      BY <1>4, <3>1 DEF RefreshDone, SnapTyped
    <3>2. CASE p = ProcessOf(f)
      <4>1. snap'[p] = Resolve(loading[f].rows, snap[p])
        BY <1>4, <3>2 DEF RefreshDone, SnapTyped
      <4>2. loading[f].rows[s] \in RowsOf(s)
        BY DEF LoadingTyped
      <4>3. QED
        BY <4>1, <4>2, ResolveCases, RowsAre, EnvironmentTyped DEF SnapTyped
    <3>3. QED
      BY <3>1, <3>2
  <2>3. DOMAIN snap' = Processes
    BY <1>4 DEF RefreshDone, SnapTyped
  <2>4. kept' \in [Processes -> SUBSET Settings]
    BY <1>4, ProcessOfRefresher DEF RefreshDone, OtherTyped
  <2>5. QED
    BY <1>4, <2>1, <2>2, <2>3, <2>4 DEF RefreshDone, RowsTyped, SnapTyped, OtherTyped
<1>5. QED
  BY <1>1, <1>2, <1>3, <1>4 DEF Refreshing, RefreshStep

(* What a restart does, that of the console apart.                          *)
LEMMA RestartCases ==
    ASSUME NEW p \in Processes, Restart(p), unrecorded \in BOOLEAN
    PROVE  /\ snap' = [snap EXCEPT ![p] = FromEnvironment]
           /\ kept' = [kept EXCEPT ![p] = {}]
           /\ loading' = [f \in Refreshers |-> IF ProcessOf(f) = p THEN Idling ELSE loading[f]]
           /\ \/ /\ edit' = [e \in Edits |-> NoEdit]
                 /\ \A e \in Edits :
                       edit[e].at \in {"refreshing", "recording"} /\ edit[e].op = "add tool"
                         => unrecorded'
              \/ UNCHANGED edit /\ unrecorded' = unrecorded
           /\ unrecorded => unrecorded'
           /\ unrecorded' \in BOOLEAN
           /\ UNCHANGED <<rows, escalated, stale>>
<1> DEFINE Lost == \E e \in Edits : /\ edit[e].at \in {"refreshing", "recording"}
                                    /\ edit[e].op = "add tool"
<1>1. p = "console" => edit' = [e \in Edits |-> NoEdit] /\ unrecorded' = (unrecorded \/ Lost)
  BY Zenon DEF Restart
<1>2. p # "console" => UNCHANGED edit /\ unrecorded' = unrecorded
  BY Zenon DEF Restart
<1>3. UNCHANGED <<rows, escalated, stale>>
  BY Zenon DEF Restart
<1>4. /\ snap' = [snap EXCEPT ![p] = FromEnvironment]
      /\ kept' = [kept EXCEPT ![p] = {}]
      /\ loading' = [f \in Refreshers |-> IF ProcessOf(f) = p THEN Idling ELSE loading[f]]
  BY Zenon DEF Restart
<1>5. unrecorded' \in BOOLEAN /\ (unrecorded => unrecorded')
  <2>1. CASE p = "console"
    BY Zenon, <1>1, <2>1
  <2>2. QED
    BY Zenon, <1>2, <2>1
<1>6. QED
  <2>1. CASE p = "console"
    BY Zenon, <1>1, <1>3, <1>4, <1>5, <2>1
  <2>2. QED
    BY Zenon, <1>2, <1>3, <1>4, <1>5, <2>1

LEMMA RestartTypes ==
    ASSUME ConfigurationTypes, NEW p \in Processes, Restart(p)
    PROVE  ConfigurationTypes'
<1> USE DEF ConfigurationTypes
<1>0. unrecorded \in BOOLEAN
  BY DEF OtherTyped
<1>1. SnapTyped'
  <2>1. snap' = [snap EXCEPT ![p] = FromEnvironment]
    BY <1>0, RestartCases
  <2>2. QED
    BY <2>1, EnvironmentTyped DEF SnapTyped
<1>2. LoadingTyped'
  <2>1. loading' = [f \in Refreshers |-> IF ProcessOf(f) = p THEN Idling ELSE loading[f]]
    BY <1>0, RestartCases
  <2>2. QED
    BY <2>1, IdlingTyped DEF LoadingTyped
<1>3. EditTyped'
  <2>1. UNCHANGED edit \/ edit' = [e \in Edits |-> NoEdit]
    BY <1>0, RestartCases
  <2>2. CASE UNCHANGED edit
    BY <2>2 DEF EditTyped
  <2>3. CASE edit' = [e \in Edits |-> NoEdit]
    BY <2>3, NoEditType DEF EditTyped
  <2>4. QED
    BY <2>1, <2>2, <2>3
<1>4. kept' \in [Processes -> SUBSET Settings]
  BY <1>0, RestartCases DEF OtherTyped
<1>5. QED
  BY <1>0, <1>1, <1>2, <1>3, <1>4, RestartCases DEF RowsTyped, OtherTyped

LEMMA WroteTypes ==
    ASSUME EditTyped, LoadingTyped, NEW e \in Edits, Wrote(e)
    PROVE  EditTyped' /\ LoadingTyped'
<1>1. LoadingTyped'
  BY DEF Wrote, LoadingTyped, Refreshers
<1>2. edit[e] \in EditRecord
  BY DEF EditTyped
<1>3. [edit[e] EXCEPT !.at = "refreshing"] \in EditRecord
  BY <1>2 DEF EditRecord, EditPlaces
<1>4. edit' = [edit EXCEPT ![e] = [edit[e] EXCEPT !.at = "refreshing"]]
  BY DEF Wrote
<1>5. QED
  BY <1>1, <1>3, <1>4 DEF EditTyped

LEMMA ChangedTypes ==
    ASSUME NEW op \in Ops, NEW list, NEW what, NEW S, list \subseteq S,
           Adds(op) => what \subseteq S
    PROVE  Changed(list, op, what) \subseteq S
BY DEF Changed

LEMMA InForceTyped ==
    ASSUME SnapTyped
    PROVE  InForce("servers") \subseteq Servers /\ InForce("tools") \subseteq Tools
BY ConfigurationNumbers, ValuesAre, SettingsAre DEF SnapTyped, InForce

(* What a request that checks the lists takes from them.                    *)
LEMMA CheckingCases ==
    ASSUME ConfigurationTypes, NEW e \in Edits, Checking(e)
    PROVE  \E op \in Ops \ {"none"}, what \in SUBSET (Servers \cup Tools) :
              /\ Checks(e, op, what) /\ edit[e].at = "none"
              /\ what \subseteq IF ListOf(op) = "servers" THEN Servers ELSE Tools
              /\ op = "remove server" => \A t \in InForce("tools") : ServerOf[t] \notin what
              /\ op = "add tool" => \E t \in Tools : /\ what = {t}
                                                     /\ ServerOf[t] \in InForce("servers")
              /\ UNCHANGED <<rows, snap, loading, escalated, kept, stale, unrecorded>>
<1> DEFINE P(op, what) ==
        /\ Checks(e, op, what) /\ edit[e].at = "none"
        /\ what \subseteq IF ListOf(op) = "servers" THEN Servers ELSE Tools
        /\ op = "remove server" => \A t \in InForce("tools") : ServerOf[t] \notin what
        /\ op = "add tool" => \E t \in Tools : /\ what = {t}
                                               /\ ServerOf[t] \in InForce("servers")
        /\ UNCHANGED <<rows, snap, loading, escalated, kept, stale, unrecorded>>
<1>1. ASSUME NEW s \in Servers, AddServer(e, s)
      PROVE  P("add server", {s})
  BY <1>1 DEF AddServer, ListOf
<1>2. ASSUME NEW s \in Servers, RemoveServer(e, s)
      PROVE  P("remove server", {s})
  BY <1>2 DEF RemoveServer, MayRemoveServer, ListOf
<1>3. ASSUME NEW t \in Tools, AddTool(e, t)
      PROVE  P("add tool", {t})
  BY <1>3 DEF AddTool, ListOf
<1>4. ASSUME NEW t \in Tools, RemoveTool(e, t)
      PROVE  P("remove tool", {t})
  BY <1>4 DEF RemoveTool, ListOf
<1> HIDE DEF P
<1>5. \E op \in Ops \ {"none"}, what \in SUBSET (Servers \cup Tools) : P(op, what)
  BY <1>1, <1>2, <1>3, <1>4 DEF Checking, Ops
<1>6. QED
  BY <1>5 DEF P

LEMMA CheckingTypes ==
    ASSUME ConfigurationTypes, NEW e \in Edits, Checking(e)
    PROVE  ConfigurationTypes'
<1> USE DEF ConfigurationTypes
<1>1. PICK op \in Ops, what \in SUBSET (Servers \cup Tools) :
        /\ Checks(e, op, what) /\ what \subseteq IF ListOf(op) = "servers" THEN Servers ELSE Tools
        /\ UNCHANGED <<rows, snap, loading, escalated, kept, stale, unrecorded>>
  BY CheckingCases
<1>2. Changed(InForce(ListOf(op)), op, what) \subseteq Servers \cup Tools
  BY InForceTyped DEF ListOf, Changed
<1>3. PICK r \in EditRecord : edit' = [edit EXCEPT ![e] = r]
  <2> DEFINE r == [at |-> IF Adds(op) THEN "probing" ELSE "writing", op |-> op, what |-> what,
                   seen |-> <<InForce("servers"), InForce("tools")>>,
                   list |-> Changed(InForce(ListOf(op)), op, what)]
  <2>1. r \in EditRecord
    BY <1>2, InForceTyped DEF EditRecord, EditPlaces
  <2>2. edit' = [edit EXCEPT ![e] = r]
    BY <1>1, Zenon DEF Checks
  <2> HIDE DEF r
  <2>3. QED
    BY <2>1, <2>2
<1>4. EditTyped'
  BY <1>3 DEF EditTyped
<1>5. QED
  BY <1>1, <1>4 DEF RowsTyped, SnapTyped, LoadingTyped, OtherTyped

(* The two ways a probe ends.                                               *)
LEMMA ProbedCases ==
    ASSUME ConfigurationTypes, NEW e \in Edits, Probed(e)
    PROVE  \E r \in EditRecord :
              /\ edit' = [edit EXCEPT ![e] = r]
              /\ \/ r = NoEdit
                 \/ /\ r.at = "writing" /\ r.op = edit[e].op /\ r.what = edit[e].what
                    /\ r.seen = edit[e].seen
                    /\ r.list = Changed(InForce(ListOf(edit[e].op)), edit[e].op, edit[e].what)
<1> USE DEF ConfigurationTypes
<1> DEFINE list == Changed(InForce(ListOf(edit[e].op)), edit[e].op, edit[e].what)
           r == [edit[e] EXCEPT !.at = "writing", !.list = list]
<1>1. edit[e] \in EditRecord
  BY DEF EditTyped
<1>2. list \subseteq Servers \cup Tools
  BY <1>1, InForceTyped DEF ListOf, Changed, EditRecord
<1>3. /\ r \in EditRecord /\ r.at = "writing" /\ r.op = edit[e].op /\ r.what = edit[e].what
      /\ r.seen = edit[e].seen /\ r.list = list
  <2> HIDE DEF list
  <2>1. QED
    BY <1>1, <1>2 DEF EditRecord, EditPlaces
<1>4. edit' = [edit EXCEPT ![e] = NoEdit] \/ edit' = [edit EXCEPT ![e] = r]
  BY Zenon DEF Probed
<1>5. QED
  <2> HIDE DEF r, list
  <2>1. CASE edit' = [edit EXCEPT ![e] = r]
    BY <1>3, <2>1, Zenon DEF list
  <2>2. QED
    BY <1>4, <2>1, NoEditType, Zenon

LEMMA ProbedTypes ==
    ASSUME ConfigurationTypes, NEW e \in Edits, Probed(e)
    PROVE  ConfigurationTypes'
<1> USE DEF ConfigurationTypes
<1>1. PICK r \in EditRecord : edit' = [edit EXCEPT ![e] = r]
  BY ProbedCases
<1>2. EditTyped'
  BY <1>1 DEF EditTyped
<1>3. QED
  BY <1>2 DEF Probed, RowsTyped, SnapTyped, LoadingTyped, OtherTyped

LEMMA RecordingTypes ==
    ASSUME ConfigurationTypes, NEW e \in Edits, RecordEscalation(e)
    PROVE  ConfigurationTypes'
<1> USE DEF ConfigurationTypes
<1>1. EditTyped'
  BY NoEditType DEF RecordEscalation, EditTyped
<1>2. edit[e].what \subseteq Tools
  BY DEF RecordEscalation, EditTyped, EditRecord
<1>3. QED
  BY <1>1, <1>2 DEF RecordEscalation, RowsTyped, SnapTyped, LoadingTyped, OtherTyped

(* What a write stores, under which check.                                  *)
LEMMA WritingCases ==
    ASSUME ConfigurationTypes, NEW e \in Edits, Writing(e), CheckedFirst(e)
    PROVE  \E s \in Settings : \E row \in RowsOf(s) :
              /\ rows' = [rows EXCEPT ![s] = row] /\ Wrote(e)
              /\ s # "scalar" => /\ edit[e].at = "writing" /\ s = ListOf(edit[e].op)
                                 /\ row = Row(edit[e].list)
                                 /\ stale' = \/ stale
                                             \/ edit[e].seen # <<Value("servers"), Value("tools")>>
                                             \/ edit[e].list # Changed(Value(s), edit[e].op,
                                                                       edit[e].what)
              /\ s = "scalar" => UNCHANGED stale
              /\ UNCHANGED <<snap, escalated, kept, unrecorded>>
<1>1. ASSUME NEW v \in ValueOf("scalar"), PutSetting(e, v)
      PROVE  /\ rows' = [rows EXCEPT !["scalar"] = Row(v)] /\ Row(v) \in RowsOf("scalar")
             /\ Wrote(e) /\ UNCHANGED <<snap, escalated, kept, unrecorded, stale>>
  BY <1>1, RowsThere, SettingsAre DEF PutSetting, Stored
<1>2. ASSUME ClearSetting(e)
      PROVE  /\ rows' = [rows EXCEPT !["scalar"] = Absent] /\ Absent \in RowsOf("scalar")
             /\ Wrote(e) /\ UNCHANGED <<snap, escalated, kept, unrecorded, stale>>
  BY <1>2, RowsThere, SettingsAre DEF ClearSetting, Stored
<1>3. ASSUME StoreList(e)
      PROVE  LET s == ListOf(edit[e].op) IN
             /\ s \in {"servers", "tools"} /\ Row(edit[e].list) \in RowsOf(s)
             /\ rows' = [rows EXCEPT ![s] = Row(edit[e].list)] /\ Wrote(e)
             /\ edit[e].at = "writing"
             /\ stale' = \/ stale
                         \/ edit[e].seen # <<Value("servers"), Value("tools")>>
                         \/ edit[e].list # Changed(Value(s), edit[e].op, edit[e].what)
             /\ UNCHANGED <<snap, escalated, kept, unrecorded>>
  <2>1. ListOf(edit[e].op) \in {"servers", "tools"}
    BY DEF ListOf
  <2>2. edit[e].list \in ValueOf(ListOf(edit[e].op))
    BY <1>3, <2>1, ValuesAre DEF StoreList, CheckedFirst
  <2>3. Row(edit[e].list) \in RowsOf(ListOf(edit[e].op))
    BY <2>1, <2>2, RowsThere, SettingsAre
  <2>4. QED
    BY <1>3, <2>1, <2>3, Zenon DEF StoreList, Stored
<1>4. CASE StoreList(e)
  <2> DEFINE s == ListOf(edit[e].op)
  <2>1. s \in Settings /\ s # "scalar"
    BY <1>3, <1>4, SettingsAre
  <2>2. QED
    BY <1>3, <1>4, <2>1, Zenon
<1>5. CASE ClearSetting(e)
  BY <1>2, <1>5, SettingsAre, Zenon
<1>6. ASSUME NEW v \in ValueOf("scalar"), PutSetting(e, v)
      PROVE  \E row \in RowsOf("scalar") :
                /\ rows' = [rows EXCEPT !["scalar"] = row] /\ Wrote(e)
                /\ UNCHANGED <<snap, escalated, kept, unrecorded, stale>>
  BY <1>1, <1>6
<1>7. QED
  BY <1>4, <1>5, <1>6, SettingsAre, Zenon DEF Writing

LEMMA WritingTypes ==
    ASSUME ConfigurationTypes, NEW e \in Edits, Writing(e), CheckedFirst(e)
    PROVE  ConfigurationTypes'
<1> USE DEF ConfigurationTypes
<1>0. PICK s \in Settings : \E row \in RowsOf(s) :
        /\ rows' = [rows EXCEPT ![s] = row] /\ Wrote(e)
        /\ s # "scalar" => row = Row(edit[e].list)
        /\ UNCHANGED <<snap, escalated, kept, unrecorded>>
  BY WritingCases
<1>1. PICK row \in RowsOf(s) :
        /\ rows' = [rows EXCEPT ![s] = row] /\ Wrote(e)
        /\ s # "scalar" => row = Row(edit[e].list)
        /\ UNCHANGED <<snap, escalated, kept, unrecorded>>
  BY <1>0
<1>2. EditTyped' /\ LoadingTyped'
  BY <1>1, WroteTypes
<1>3. s # "scalar" => row.kind # "malformed"
  BY <1>1 DEF Row
<1>4. RowsTyped'
  BY <1>1, <1>3, RowsInAny DEF RowsTyped
<1>5. stale' \in BOOLEAN
  BY Zenon DEF Writing, PutSetting, ClearSetting, StoreList, OtherTyped
<1>6. QED
  BY <1>1, <1>2, <1>4, <1>5 DEF SnapTyped, OtherTyped

LEMMA ByHandTypes ==
    ASSUME ConfigurationTypes, WriteByHand
    PROVE  ConfigurationTypes'
BY RowsThere, RowsInAny, SettingsAre
DEF WriteByHand, Stored, ConfigurationTypes, RowsTyped, SnapTyped, LoadingTyped, EditTyped,
    OtherTyped

LEMMA ConfigurationTypesStep ==
    ASSUME ConfigurationTypes, \A e \in Edits : CheckedFirst(e), ConfigurationNext
    PROVE  ConfigurationTypes'
BY ConfigurationCases, RefreshingTypes, RestartTypes, WritingTypes, CheckingTypes, ProbedTypes,
   RecordingTypes, ByHandTypes

-----------------------------------------------------------------------------
(* Configuration: what the steps keep *)

(* A request's place, after a step that is not its own or that ends it.     *)
LEMMA CheckedFirstStep ==
    ASSUME ConfigurationTypes, \A e \in Edits : CheckedFirst(e), ConfigurationNext,
           NEW d \in Edits
    PROVE  CheckedFirst(d)'
<1> USE DEF ConfigurationTypes
<1>1. ASSUME NEW r, edit'[d] = r, r = edit[d] \/ r.at \in {"none", "refreshing", "recording"}
      PROVE  CheckedFirst(d)'
  BY <1>1 DEF CheckedFirst
<1>2. NoEdit.at = "none"
  BY DEF NoEdit
<1>3. edit[d] \in EditRecord /\ DOMAIN edit = Edits
  BY DEF EditTyped
<1>4. ASSUME NEW f \in Refreshers, Returned(f)
      PROVE  CheckedFirst(d)'
  <2>1. f \in Edits => [edit[f] EXCEPT !.at = "recording"].at = "recording"
    BY DEF EditTyped, EditRecord
  <2>2. QED
    BY <1>1, <1>2, <1>4, <2>1, ReturnedCases
<1>5. ASSUME NEW f \in Refreshers, Refreshing(f)
      PROVE  CheckedFirst(d)'
  <2>1. Returned(f) \/ UNCHANGED edit
    BY <1>5 DEF Refreshing, RefreshStep, RefreshAsk, RefreshRead, RefreshFails, RefreshDone
  <2>2. QED
    BY <1>1, <1>4, <2>1
<1>6. ASSUME NEW p \in Processes, Restart(p)
      PROVE  CheckedFirst(d)'
  <2>1. UNCHANGED edit \/ edit' = [e \in Edits |-> NoEdit]
    BY <1>6, RestartCases DEF OtherTyped
  <2>2. QED
    BY <1>1, <1>2, <2>1
<1>7. ASSUME NEW e \in Edits, Wrote(e)
      PROVE  CheckedFirst(d)'
  <2>1. edit' = [edit EXCEPT ![e] = [edit[e] EXCEPT !.at = "refreshing"]]
    BY <1>7 DEF Wrote
  <2>2. [edit[e] EXCEPT !.at = "refreshing"].at = "refreshing"
    BY DEF EditTyped, EditRecord
  <2>3. edit'[d] = IF d = e THEN [edit[e] EXCEPT !.at = "refreshing"] ELSE edit[d]
    BY <1>3, <2>1
  <2>4. QED
    BY <1>1, <2>2, <2>3
<1>8. ASSUME NEW e \in Edits, Checking(e)
      PROVE  CheckedFirst(d)'
  <2>1. PICK op \in Ops \ {"none"}, what \in SUBSET (Servers \cup Tools) :
          /\ Checks(e, op, what)
          /\ what \subseteq IF ListOf(op) = "servers" THEN Servers ELSE Tools
          /\ op = "remove server" => \A t \in InForce("tools") : ServerOf[t] \notin what
          /\ op = "add tool" => \E t \in Tools : what = {t} /\ ServerOf[t] \in InForce("servers")
    BY <1>8, CheckingCases
  <2> DEFINE list == Changed(InForce(ListOf(op)), op, what)
             r == [at |-> IF Adds(op) THEN "probing" ELSE "writing", op |-> op, what |-> what,
                   seen |-> <<InForce("servers"), InForce("tools")>>, list |-> list]
  <2>2. edit' = [edit EXCEPT ![e] = r]
    BY <2>1, Zenon DEF Checks
  <2>3. list \subseteq IF ListOf(op) = "servers" THEN Servers ELSE Tools
    BY <2>1, InForceTyped DEF ListOf, Changed
  <2>4. /\ r.op = op /\ r.what = what /\ r.list = list
        /\ r.seen = <<InForce("servers"), InForce("tools")>>
    OBVIOUS
  <2>5. edit'[d] = IF d = e THEN r ELSE edit[d]
    BY <1>3, <2>2
  <2> HIDE DEF r, list
  <2>6. CASE d = e
    <3>1. edit'[d] = r
      BY <2>5, <2>6
    <3>2. /\ r.op # "none" /\ r.list \subseteq IF ListOf(r.op) = "servers" THEN Servers ELSE Tools
          /\ r.what \subseteq IF ListOf(r.op) = "servers" THEN Servers ELSE Tools
      BY <2>1, <2>3, <2>4 DEF Ops
    <3>3. r.seen[1] = InForce("servers") /\ r.seen[2] = InForce("tools")
      BY <2>4
    <3>4. r.op = "remove server" => \A t \in r.seen[2] : ServerOf[t] \notin r.what
      BY <2>1, <2>4, <3>3
    <3>5. r.op = "add tool" => \E t \in Tools : r.what = {t} /\ ServerOf[t] \in r.seen[1]
      BY <2>1, <2>4, <3>3
    <3>6. QED
      BY <3>1, <3>2, <3>4, <3>5, Zenon DEF CheckedFirst
  <2>7. QED
    BY <1>1, <2>5, <2>6
<1>9. ASSUME NEW e \in Edits, Probed(e)
      PROVE  CheckedFirst(d)'
  <2>1. PICK r \in EditRecord :
          /\ edit' = [edit EXCEPT ![e] = r]
          /\ \/ r = NoEdit
             \/ /\ r.at = "writing" /\ r.op = edit[e].op /\ r.what = edit[e].what
                /\ r.seen = edit[e].seen
                /\ r.list = Changed(InForce(ListOf(edit[e].op)), edit[e].op, edit[e].what)
    BY <1>9, ProbedCases
  <2>2. edit'[d] = IF d = e THEN r ELSE edit[d]
    BY <1>3, <2>1
  <2>3. CASE d = e /\ r # NoEdit
    <3>1. edit[e].at = "probing"
      BY <1>9 DEF Probed
    <3>2. edit'[d] = r
      BY <2>2, <2>3
    <3>3. r.op # "none"
      BY <2>1, <2>3, <3>1 DEF CheckedFirst
    <3>4. r.op = "remove server" => \A t \in r.seen[2] : ServerOf[t] \notin r.what
      BY <2>1, <2>3, <3>1 DEF CheckedFirst
    <3>5. r.op = "add tool" => \E t \in Tools : r.what = {t} /\ ServerOf[t] \in r.seen[1]
      BY <2>1, <2>3, <3>1 DEF CheckedFirst
    <3>6. /\ r.what \subseteq IF ListOf(r.op) = "servers" THEN Servers ELSE Tools
          /\ r.list \subseteq IF ListOf(r.op) = "servers" THEN Servers ELSE Tools
      BY <2>1, <2>3, <3>1, InForceTyped DEF Changed, ListOf, CheckedFirst
    <3>7. QED
      BY <3>2, <3>3, <3>4, <3>5, <3>6, Zenon DEF CheckedFirst
  <2>4. QED
    BY <1>1, <1>2, <2>2, <2>3
<1>10. ASSUME NEW e \in Edits, RecordEscalation(e)
       PROVE  CheckedFirst(d)'
  <2>1. edit'[d] = IF d = e THEN NoEdit ELSE edit[d]
    BY <1>3, <1>10 DEF RecordEscalation
  <2>2. QED
    BY <1>1, <1>2, <2>1
<1>11. CASE WriteByHand
  BY <1>1, <1>11 DEF WriteByHand
<1>12. ASSUME NEW e \in Edits, Writing(e)
       PROVE  CheckedFirst(d)'
  BY <1>7, <1>12 DEF Writing, PutSetting, ClearSetting, StoreList
<1>13. QED
  BY <1>5, <1>6, <1>8, <1>9, <1>10, <1>11, <1>12, ConfigurationCases

LEMMA NarrowingStep ==
    ASSUME ConfigurationTypes, NarrowingKept, ConfigurationNext
    PROVE  NarrowingKept'
<1> USE DEF ConfigurationTypes
<1>1. ASSUME UNCHANGED <<snap, kept>>
      PROVE  NarrowingKept'
  BY <1>1 DEF NarrowingKept
<1>2. ASSUME NEW f \in Refreshers, RefreshFails(f)
      PROVE  NarrowingKept'
  <2>1. ProcessOf(f) \in Processes
    BY ProcessOfRefresher
  <2>2. snap' = [snap EXCEPT ![ProcessOf(f)] = snap[ProcessOf(f)]] /\ UNCHANGED kept
    BY <1>2 DEF RefreshFails, KeptAfterFailure
  <2>3. QED
    BY <2>1, <2>2 DEF NarrowingKept, SnapTyped
<1>3. ASSUME NEW f \in Refreshers, RefreshDone(f)
      PROVE  NarrowingKept'
  <2> SUFFICES ASSUME NEW p \in Processes, NEW s \in kept'[p]
               PROVE  snap'[p][s].source = "database"
    BY DEF NarrowingKept
  <2> DEFINE q == ProcessOf(f)
             read == loading[f].rows
  <2>1. q \in Processes
    BY ProcessOfRefresher
  <2>2. /\ snap' = [snap EXCEPT ![q] = Resolve(read, snap[q])]
        /\ kept' = [kept EXCEPT ![q] = {u \in Settings : \/ read[u].kind = "stored"
                                                         \/ /\ u \in kept[q]
                                                            /\ read[u].kind = "malformed"}]
    BY <1>3 DEF RefreshDone
  <2>3. \A u \in Settings : read[u] \in RowsOf(u)
    BY DEF LoadingTyped
  <2> HIDE DEF q, read
  <2>4. CASE p # q
    BY <2>1, <2>2, <2>4 DEF NarrowingKept, SnapTyped, OtherTyped
  <2>5. CASE p = q
    <3>1. s \in Settings /\ (read[s].kind = "stored" \/ (s \in kept[p] /\ read[s].kind = "malformed"))
      BY <2>2, <2>5 DEF OtherTyped
    <3>2. snap'[p] = Resolve(read, snap[p])
      BY <2>2, <2>5 DEF SnapTyped
    <3>3. s \in kept[p] => snap[p][s].source = "database"
      BY DEF NarrowingKept
    <3>4. QED
      BY <2>3, <3>1, <3>2, <3>3, ResolveCases
  <2>6. QED
    BY <2>4, <2>5
<1>4. ASSUME NEW p \in Processes, Restart(p)
      PROVE  NarrowingKept'
  <2>1. /\ snap' = [snap EXCEPT ![p] = FromEnvironment]
        /\ kept' = [kept EXCEPT ![p] = {}]
    BY <1>4 DEF Restart
  <2>2. QED
    BY <2>1 DEF NarrowingKept, SnapTyped, OtherTyped
<1>5. QED
  <2>1. UNCHANGED <<snap, kept>> \/ (\E f \in Refreshers : RefreshFails(f) \/ RefreshDone(f))
        \/ \E p \in Processes : Restart(p)
    BY DEF ConfigurationNext, RefreshStep, RefreshAsk, RefreshRead, PutSetting, ClearSetting,
           Probed, StoreList, RecordEscalation, AddServer, RemoveServer, AddTool, RemoveTool,
           WriteByHand
  <2>2. QED
    BY <1>1, <1>2, <1>3, <1>4, <2>1

(* A write that was checked against what is stored leaves lists that an     *)
(* agent accepts; every other step leaves the lists alone.                  *)
LEMMA ListsAgreeStep ==
    ASSUME ConfigurationTypes, \A e \in Edits : CheckedFirst(e), ListsAgree, ConfigurationNext
    PROVE  ListsAgree'
<1> USE DEF ConfigurationTypes
<1>1. ASSUME Value("servers")' = Value("servers"), Value("tools")' = Value("tools"),
             stale => stale'
      PROVE  ListsAgree'
  BY <1>1 DEF ListsAgree, Honoured
<1>2. ASSUME NEW s \in Settings, NEW row \in RowsOf(s), rows' = [rows EXCEPT ![s] = row]
      PROVE  /\ \A u \in Settings : u # s => Value(u)' = Value(u)
             /\ row.kind = "stored" => Value(s)' = row.value
  BY <1>2 DEF Value, RowsTyped
<1>3. ASSUME NEW e \in Edits, Writing(e)
      PROVE  ListsAgree'
  <2>1. PICK s \in Settings : \E row \in RowsOf(s) :
          /\ rows' = [rows EXCEPT ![s] = row] /\ Wrote(e)
          /\ s # "scalar" => /\ edit[e].at = "writing" /\ s = ListOf(edit[e].op)
                             /\ row = Row(edit[e].list)
                             /\ stale' = \/ stale
                                         \/ edit[e].seen # <<Value("servers"), Value("tools")>>
                                         \/ edit[e].list # Changed(Value(s), edit[e].op,
                                                                   edit[e].what)
          /\ s = "scalar" => UNCHANGED stale
    BY <1>3, WritingCases
  <2>2. PICK row \in RowsOf(s) :
          /\ rows' = [rows EXCEPT ![s] = row]
          /\ s # "scalar" => row = Row(edit[e].list)
    BY <2>1
  <2>3. CASE s = "scalar"
    <3>1. Value("servers")' = Value("servers") /\ Value("tools")' = Value("tools")
      BY <1>2, <2>2, <2>3, SettingsAre
    <3>2. QED
      BY <1>1, <2>1, <2>3, <3>1
  <2>4. CASE s # "scalar" /\ ~stale'
    <3> DEFINE op == edit[e].op
               what == edit[e].what
    <3>1. row.kind = "stored" /\ row.value = edit[e].list
      BY <2>2, <2>4 DEF Row
    <3>2. /\ s = ListOf(op) /\ edit[e].at = "writing" /\ ~stale
          /\ edit[e].seen = <<Value("servers"), Value("tools")>>
          /\ edit[e].list = Changed(Value(s), op, what)
      BY <2>1, <2>4
    <3>3. edit[e].seen[1] = Value("servers") /\ edit[e].seen[2] = Value("tools")
      BY <3>2
    <3>4. Honoured(Value("servers"), Value("tools"))
      BY <3>2 DEF ListsAgree
    <3>5. /\ op # "none" /\ op \in Ops
          /\ op = "remove server" => \A t \in Value("tools") : ServerOf[t] \notin what
          /\ op = "add tool" => \E t \in Tools : what = {t} /\ ServerOf[t] \in Value("servers")
      <4>1. op \in Ops
        BY DEF EditTyped, EditRecord
      <4>2. /\ op # "none"
            /\ op = "remove server" => \A t \in edit[e].seen[2] : ServerOf[t] \notin what
            /\ op = "add tool" => \E t \in Tools : what = {t} /\ ServerOf[t] \in edit[e].seen[1]
        BY <3>2, Zenon DEF CheckedFirst
      <4>3. QED
        BY <3>3, <4>1, <4>2
    <3>6. Value(s)' = Changed(Value(s), op, what) /\ \A u \in Settings : u # s => Value(u)' = Value(u)
      BY <1>2, <2>2, <3>1, <3>2
    <3> HIDE DEF op, what
    <3>7. CASE s = "servers"
      <4>1. op \in {"add server", "remove server"} /\ Value("tools")' = Value("tools")
        BY <3>2, <3>6, <3>7, SettingsAre DEF ListOf
      <4>2. \A t \in Value("tools") : ServerOf[t] \in Value("servers")'
        BY <3>4, <3>5, <3>6, <3>7, <4>1 DEF Honoured, Changed, Adds
      <4>3. QED
        BY <4>1, <4>2 DEF ListsAgree, Honoured
    <3>8. CASE s = "tools"
      <4>1. op \in {"add tool", "remove tool"} /\ Value("servers")' = Value("servers")
        BY <3>2, <3>5, <3>6, <3>8, SettingsAre DEF ListOf, Ops
      <4>2. \A t \in Value("tools")' : ServerOf[t] \in Value("servers")
        BY <3>4, <3>5, <3>6, <3>8, <4>1 DEF Honoured, Changed, Adds
      <4>3. QED
        BY <4>1, <4>2 DEF ListsAgree, Honoured
    <3>9. QED
      BY <2>4, <3>7, <3>8, SettingsAre
  <2>5. QED
    BY <2>3, <2>4 DEF ListsAgree
<1>4. ASSUME WriteByHand
      PROVE  ListsAgree'
  <2>1. rows' = [rows EXCEPT !["scalar"] = Malformed] /\ UNCHANGED stale
    BY <1>4 DEF WriteByHand, Stored
  <2>2. QED
    BY <1>1, <1>2, <2>1, RowsThere, SettingsAre
<1>5. ASSUME UNCHANGED <<rows, stale>>
      PROVE  ListsAgree'
  BY <1>1, <1>5 DEF Value
<1>6. QED
  <2>1. UNCHANGED <<rows, stale>> \/ WriteByHand \/ \E e \in Edits : Writing(e)
    BY DEF ConfigurationNext, RefreshStep, RefreshAsk, RefreshRead, RefreshFails, RefreshDone,
           Restart, Writing, Probed, RecordEscalation, AddServer, RemoveServer, AddTool, RemoveTool
  <2>2. QED
    BY <1>3, <1>4, <1>5, <2>1

(* What is on record, or on the way to be, stays so.                        *)
LEMMA OnRecordStays ==
    ASSUME ConfigurationTypes, NEW t \in Mutates, OnRecord(t), ConfigurationNext
    PROVE  OnRecord(t)'
<1> USE DEF ConfigurationTypes
<1> DEFINE Coming(e) == /\ edit[e].what = {t} /\ edit[e].op = "add tool"
                        /\ edit[e].at \in {"refreshing", "recording"}
<1>1. escalated \subseteq escalated' /\ (unrecorded => unrecorded')
  <2>1. ASSUME NEW p \in Processes, Restart(p)
        PROVE  UNCHANGED escalated /\ (unrecorded => unrecorded')
    BY <2>1, RestartCases DEF OtherTyped
  <2>2. ASSUME NEW e \in Edits, RecordEscalation(e)
        PROVE  escalated \subseteq escalated' /\ UNCHANGED unrecorded
    BY <2>2 DEF RecordEscalation
  <2>3. \/ \E p \in Processes : Restart(p)
        \/ \E e \in Edits : RecordEscalation(e)
        \/ UNCHANGED <<escalated, unrecorded>>
    BY DEF ConfigurationNext, RefreshStep, RefreshAsk, RefreshRead, RefreshFails, RefreshDone,
           PutSetting, ClearSetting, Probed, StoreList, AddServer, RemoveServer, AddTool,
           RemoveTool, WriteByHand
  <2>4. QED
    BY <2>1, <2>2, <2>3
<1>2. CASE t \in escalated \/ unrecorded \/ t \in Environment["tools"]
  BY <1>1, <1>2 DEF OnRecord
<1>3. ASSUME NEW e \in Edits, Coming(e)
      PROVE  OnRecord(t)'
  <2>1. edit[e] \in EditRecord /\ DOMAIN edit = Edits
    BY DEF EditTyped
  <2>2. ASSUME NEW r, edit'[e] = r, r.what = {t}, r.op = "add tool",
               r.at \in {"refreshing", "recording"}
        PROVE  OnRecord(t)'
    BY <2>2 DEF OnRecord
  <2>3. CASE edit'[e] = edit[e]
    BY <1>3, <2>2, <2>3
  <2>4. ASSUME NEW f \in Refreshers, Returned(f)
        PROVE  OnRecord(t)'
    <3>1. CASE f = e
      <4>1. edit[e].op = "add tool" /\ edit[e].what \subseteq Mutates
        BY <1>3
      <4>2. edit'[e] = [edit[e] EXCEPT !.at = "recording"]
        BY <2>4, <3>1, <4>1, ReturnedCases
      <4>3. QED
        BY <1>3, <2>1, <2>2, <4>2 DEF EditRecord
    <3>2. QED
      BY <2>3, <2>4, <3>1, ReturnedCases
  <2>5. ASSUME NEW p \in Processes, Restart(p)
        PROVE  OnRecord(t)'
    <3>1. UNCHANGED edit \/ unrecorded'
      BY <1>3, <2>5, RestartCases DEF OtherTyped
    <3>2. QED
      BY <2>3, <3>1 DEF OnRecord
  <2>6. ASSUME NEW d \in Edits, Wrote(d)
        PROVE  OnRecord(t)'
    <3>1. edit' = [edit EXCEPT ![d] = [edit[d] EXCEPT !.at = "refreshing"]]
      BY <2>6 DEF Wrote
    <3>2. CASE d = e
      <4>1. edit'[e] = [edit[e] EXCEPT !.at = "refreshing"]
        BY <2>1, <3>1, <3>2
      <4>2. QED
        BY <1>3, <2>1, <2>2, <4>1 DEF EditRecord
    <3>3. QED
      BY <2>1, <2>3, <3>1, <3>2
  <2>7. ASSUME NEW d \in Edits, d # e, \A c \in Edits : c # d => edit'[c] = edit[c]
        PROVE  OnRecord(t)'
    BY <2>3, <2>7
  <2>8. ASSUME NEW d \in Edits, Checking(d)
        PROVE  OnRecord(t)'
    <3>1. edit[d].at = "none"
      BY <2>8, CheckingCases
    <3>2. \A c \in Edits : c # d => edit'[c] = edit[c]
      BY <2>1, <2>8 DEF Checking, AddServer, RemoveServer, AddTool, RemoveTool, Checks
    <3>3. QED
      BY <1>3, <2>7, <3>1, <3>2
  <2>9. ASSUME NEW d \in Edits, Probed(d)
        PROVE  OnRecord(t)'
    <3>1. edit[d].at = "probing"
      BY <2>9 DEF Probed
    <3>2. PICK r \in EditRecord : edit' = [edit EXCEPT ![d] = r]
      BY <2>9, ProbedCases
    <3>3. QED
      BY <1>3, <2>1, <2>7, <3>1, <3>2
  <2>10. ASSUME NEW d \in Edits, RecordEscalation(d)
         PROVE  OnRecord(t)'
    <3>1. CASE d = e
      BY <1>3, <2>10, <3>1 DEF RecordEscalation, OnRecord
    <3>2. CASE d # e
      BY <2>1, <2>3, <2>10, <3>2 DEF RecordEscalation
    <3>3. QED
      BY <3>1, <3>2
  <2>11. \/ \E f \in Refreshers : Returned(f)
         \/ \E p \in Processes : Restart(p)
         \/ \E d \in Edits : Wrote(d) \/ Checking(d) \/ Probed(d) \/ RecordEscalation(d)
         \/ UNCHANGED edit
    BY DEF ConfigurationNext, RefreshStep, RefreshAsk, RefreshRead, RefreshFails, RefreshDone,
           PutSetting, ClearSetting, StoreList, WriteByHand, Checking
  <2>12. QED
    BY <2>3, <2>4, <2>5, <2>6, <2>8, <2>9, <2>10, <2>11
<1>4. QED
  BY <1>2, <1>3, Zenon DEF OnRecord

(* Wherever a step takes the list of tools, what changes state in it was on *)
(* record where it took it from, or is now on the way to be.                *)
LEMMA ListsOnRecordStep ==
    ASSUME ConfigurationTypes, ListsOnRecord, \A e \in Edits : CheckedFirst(e), ConfigurationNext
    PROVE  ListsOnRecord'
<1> USE DEF ConfigurationTypes
<1> SUFFICES ASSUME NEW t \in Mutates
             PROVE  /\ t \in Value("tools")' => OnRecord(t)'
                    /\ t \in snap'["console"]["tools"].value => OnRecord(t)'
                    /\ \A f \in Refreshers :
                          t \in loading'[f].rows["tools"].value => OnRecord(t)'
                    /\ \A e \in Edits :
                          edit'[e].at \in {"probing", "writing"} /\ t \in edit'[e].list
                          /\ ListOf(edit'[e].op) = "tools"
                             => OnRecord(t)' \/ (edit'[e].op = "add tool" /\ edit'[e].what = {t})
  BY Zenon DEF ListsOnRecord
<1>1. OnRecord(t) => OnRecord(t)'
  BY OnRecordStays
<1>2. SUFFICES ASSUME ~OnRecord(t), ~OnRecord(t)'
               PROVE  /\ t \notin Value("tools")' /\ t \notin snap'["console"]["tools"].value
                      /\ \A f \in Refreshers : t \notin loading'[f].rows["tools"].value
                      /\ \A e \in Edits :
                            edit'[e].at \in {"probing", "writing"} /\ t \in edit'[e].list
                            /\ ListOf(edit'[e].op) = "tools"
                               => edit'[e].op = "add tool" /\ edit'[e].what = {t}
  <2>1. CASE OnRecord(t)'
    BY <2>1, Zenon
  <2>2. CASE ~OnRecord(t)'
    BY <1>1, <1>2, <2>2, Zenon
  <2>3. QED
    BY <2>1, <2>2, Zenon
<1>3. /\ t \notin Value("tools") /\ t \notin InForce("tools") /\ t \notin Environment["tools"]
      /\ \A f \in Refreshers : t \notin loading[f].rows["tools"].value
      /\ \A e \in Edits :
            edit[e].at \in {"probing", "writing"} /\ t \in edit[e].list
            /\ ListOf(edit[e].op) = "tools" => edit[e].op = "add tool" /\ edit[e].what = {t}
  <2>1. t \notin Environment["tools"]
    BY <1>2 DEF OnRecord
  <2>2. QED
    BY <1>2, <2>1, Zenon DEF ListsOnRecord, InForce
<1>4. t \notin rows["tools"].value
  <2>1. rows["tools"] \in RowsOf("tools")
    BY SettingsAre DEF RowsTyped
  <2>2. QED
    BY <1>3, <2>1, RowsAre, SettingsAre DEF Value
<1>5. t \notin Value("tools")'
  <2>1. ASSUME NEW e \in Edits, Writing(e), t \in Value("tools")'
        PROVE  FALSE
    <3>1. PICK s \in Settings : \E row \in RowsOf(s) :
            /\ rows' = [rows EXCEPT ![s] = row] /\ Wrote(e)
            /\ s # "scalar" => /\ edit[e].at = "writing" /\ s = ListOf(edit[e].op)
                               /\ row = Row(edit[e].list)
      BY <2>1, WritingCases
    <3>2. PICK row \in RowsOf(s) :
            /\ rows' = [rows EXCEPT ![s] = row] /\ Wrote(e)
            /\ s # "scalar" => row = Row(edit[e].list)
      BY <3>1
    <3>3. CASE s # "tools"
      BY <1>3, <2>1, <3>2, <3>3, SettingsAre DEF Value, RowsTyped
    <3>4. CASE s = "tools"
      <4>1. row.value = edit[e].list /\ row.kind = "stored" /\ rows'["tools"] = row
        BY <3>2, <3>4, SettingsAre DEF Row, RowsTyped
      <4>2. t \in edit[e].list
        BY <2>1, <4>1 DEF Value
      <4>3. edit[e].op = "add tool" /\ edit[e].what = {t}
        BY <1>3, <3>1, <3>4, <4>2
      <4>4. edit' = [edit EXCEPT ![e] = [edit[e] EXCEPT !.at = "refreshing"]]
        BY <3>2 DEF Wrote
      <4>5. edit'[e].what = {t} /\ edit'[e].op = "add tool" /\ edit'[e].at = "refreshing"
        BY <4>3, <4>4 DEF EditTyped, EditRecord
      <4>6. OnRecord(t)'
        BY <4>5 DEF OnRecord
      <4>7. QED
        BY <1>2, <4>6
    <3>5. QED
      BY <3>3, <3>4
  <2>2. CASE WriteByHand
    BY <1>3, <2>2, SettingsAre DEF WriteByHand, Stored, Value, RowsTyped
  <2>3. CASE UNCHANGED rows
    BY <1>3, <2>3 DEF Value
  <2>4. UNCHANGED rows \/ WriteByHand \/ \E e \in Edits : Writing(e)
    BY DEF ConfigurationNext, RefreshStep, RefreshAsk, RefreshRead, RefreshFails, RefreshDone,
           Restart, Writing, Probed, RecordEscalation, AddServer, RemoveServer, AddTool, RemoveTool
  <2>5. QED
    BY <2>1, <2>2, <2>3, <2>4
<1>6. t \notin snap'["console"]["tools"].value
  <2>1. "console" \in Processes /\ "tools" \in Settings /\ DOMAIN snap = Processes
    BY ConfigurationNumbers, SettingsAre DEF SnapTyped
  <2>2. t \notin snap["console"]["tools"].value /\ t \notin FromEnvironment["tools"].value
    BY <1>3, <2>1, EnvironmentTyped DEF InForce
  <2>3. ASSUME NEW f \in Refreshers, RefreshDone(f)
        PROVE  t \notin snap'["console"]["tools"].value
    <3>1. snap' = [snap EXCEPT ![ProcessOf(f)] = Resolve(loading[f].rows, snap[ProcessOf(f)])]
      BY <2>3 DEF RefreshDone
    <3>2. loading[f].rows["tools"] \in RowsOf("tools") /\ t \notin loading[f].rows["tools"].value
      BY <1>3, <2>1 DEF LoadingTyped
    <3>3. t \notin Resolve(loading[f].rows, snap["console"])["tools"].value
      BY <2>1, <2>2, <3>2, ResolveCases
    <3>4. QED
      BY <2>1, <2>2, <3>1, <3>3
  <2>4. ASSUME NEW f \in Refreshers, RefreshFails(f)
        PROVE  t \notin snap'["console"]["tools"].value
    BY <2>1, <2>2, <2>4 DEF RefreshFails, KeptAfterFailure
  <2>5. ASSUME NEW p \in Processes, Restart(p)
        PROVE  t \notin snap'["console"]["tools"].value
    BY <2>1, <2>2, <2>5 DEF Restart
  <2>6. \/ UNCHANGED snap
        \/ \E f \in Refreshers : RefreshDone(f) \/ RefreshFails(f)
        \/ \E p \in Processes : Restart(p)
    BY DEF ConfigurationNext, RefreshStep, RefreshAsk, RefreshRead, PutSetting, ClearSetting,
           Probed, StoreList, RecordEscalation, AddServer, RemoveServer, AddTool, RemoveTool,
           WriteByHand
  <2>7. QED
    BY <2>2, <2>3, <2>4, <2>5, <2>6
<1>7. ASSUME NEW f \in Refreshers
      PROVE  t \notin loading'[f].rows["tools"].value
  <2>1. "tools" \in Settings /\ DOMAIN loading = Refreshers /\ Edits \subseteq Refreshers
        /\ Processes \subseteq Refreshers
    BY SettingsAre DEF LoadingTyped, Refreshers
  <2>2. t \notin Idling.rows["tools"].value
    BY <2>1 DEF Idling, Absent
  <2>3. ASSUME NEW g \in Refreshers, NEW r, loading' = [loading EXCEPT ![g] = r],
               t \notin r.rows["tools"].value
        PROVE  t \notin loading'[f].rows["tools"].value
    BY <1>3, <2>1, <2>3
  <2>4. ASSUME NEW g \in Refreshers, NEW at, loading' = [loading EXCEPT ![g].at = at]
        PROVE  t \notin loading'[f].rows["tools"].value
    <3>1. [loading[f] EXCEPT !.at = at].rows = loading[f].rows
      BY DEF LoadingTyped
    <3>2. loading'[f] = IF f = g THEN [loading[f] EXCEPT !.at = at] ELSE loading[f]
      BY <2>1, <2>4
    <3>3. QED
      BY <1>3, <3>1, <3>2
  <2>5. ASSUME NEW g \in Refreshers, RefreshRead(g)
        PROVE  t \notin loading'[f].rows["tools"].value
    BY <1>4, <2>3, <2>5 DEF RefreshRead
  <2>6. ASSUME NEW p \in Processes, Restart(p)
        PROVE  t \notin loading'[f].rows["tools"].value
    BY <1>3, <2>2, <2>6 DEF Restart
  <2>7. ASSUME NEW g \in Refreshers, Returned(g)
        PROVE  t \notin loading'[f].rows["tools"].value
    BY <2>2, <2>3, <2>7 DEF Returned
  <2>8. ASSUME NEW e \in Edits, Wrote(e)
        PROVE  t \notin loading'[f].rows["tools"].value
    BY <2>1, <2>4, <2>8 DEF Wrote
  <2>9. ASSUME NEW p \in Processes, RefreshAsk(p)
        PROVE  t \notin loading'[f].rows["tools"].value
    BY <2>1, <2>4, <2>9 DEF RefreshAsk
  <2>10. \/ UNCHANGED loading
         \/ \E g \in Refreshers : RefreshRead(g) \/ Returned(g)
         \/ \E p \in Processes : Restart(p) \/ RefreshAsk(p)
         \/ \E e \in Edits : Wrote(e)
    BY DEF ConfigurationNext, RefreshStep, RefreshFails, RefreshDone, PutSetting, ClearSetting,
           Probed, StoreList, RecordEscalation, AddServer, RemoveServer, AddTool, RemoveTool,
           WriteByHand
  <2>11. QED
    BY <1>3, <2>5, <2>6, <2>7, <2>8, <2>9, <2>10
<1>8. ASSUME NEW d \in Edits, edit'[d].at \in {"probing", "writing"}, t \in edit'[d].list,
             ListOf(edit'[d].op) = "tools"
      PROVE  edit'[d].op = "add tool" /\ edit'[d].what = {t}
  <2>1. edit[d] \in EditRecord /\ DOMAIN edit = Edits
    BY DEF EditTyped
  <2>2. CASE edit'[d] = edit[d]
    BY <1>3, <1>8, <2>2
  <2>3. CASE edit'[d].at \notin {"probing", "writing"}
    BY <1>8, <2>3
  <2>4. NoEdit.at = "none"
    BY DEF NoEdit
  <2>5. ASSUME NEW f \in Refreshers, Returned(f), edit'[d] # edit[d]
        PROVE  FALSE
    <3>1. f = d
      BY <2>5, ReturnedCases
    <3>2. [edit[d] EXCEPT !.at = "recording"].at = "recording"
      BY <2>1 DEF EditRecord
    <3>3. QED
      BY <1>8, <2>4, <2>5, <3>1, <3>2, ReturnedCases
  <2>6. ASSUME NEW p \in Processes, Restart(p), edit'[d] # edit[d]
        PROVE  FALSE
    <3>1. edit' = [e \in Edits |-> NoEdit]
      BY <2>6, RestartCases DEF OtherTyped
    <3>2. QED
      BY <1>8, <2>4, <3>1
  <2>7. ASSUME NEW e \in Edits, Wrote(e), edit'[d] # edit[d]
        PROVE  FALSE
    <3>1. edit' = [edit EXCEPT ![e] = [edit[e] EXCEPT !.at = "refreshing"]]
      BY <2>7 DEF Wrote
    <3>2. edit'[d] = [edit[d] EXCEPT !.at = "refreshing"]
      BY <2>1, <2>7, <3>1
    <3>3. edit'[d].at = "refreshing"
      BY <2>1, <3>2 DEF EditRecord
    <3>4. QED
      BY <1>8, <3>3
  <2>8. ASSUME NEW e \in Edits, RecordEscalation(e), edit'[d] # edit[d]
        PROVE  FALSE
    BY <1>8, <2>1, <2>4, <2>8 DEF RecordEscalation
  <2>9. ASSUME NEW op \in Ops, NEW what, Adds(op) /\ ListOf(op) = "tools" => op = "add tool",
               t \in Changed(InForce(ListOf(op)), op, what), ListOf(op) = "tools",
               op = "add tool" => \E u \in Tools : what = {u}
        PROVE  op = "add tool" /\ what = {t}
    BY <1>3, <2>9 DEF Changed, Adds
  <2>10. \A op \in Ops : Adds(op) /\ ListOf(op) = "tools" => op = "add tool"
    BY DEF Adds, ListOf
  <2>11. ASSUME NEW e \in Edits, Checking(e), edit'[d] # edit[d]
         PROVE  edit'[d].op = "add tool" /\ edit'[d].what = {t}
    <3>1. PICK op \in Ops \ {"none"}, what \in SUBSET (Servers \cup Tools) :
            /\ Checks(e, op, what)
            /\ op = "add tool" => \E u \in Tools : what = {u} /\ ServerOf[u] \in InForce("servers")
      BY <2>11, CheckingCases
    <3> DEFINE list == Changed(InForce(ListOf(op)), op, what)
               r == [at |-> IF Adds(op) THEN "probing" ELSE "writing", op |-> op, what |-> what,
                     seen |-> <<InForce("servers"), InForce("tools")>>, list |-> list]
    <3>2. edit' = [edit EXCEPT ![e] = r]
      BY <3>1, Zenon DEF Checks
    <3>3. r.op = op /\ r.what = what /\ r.list = list
      OBVIOUS
    <3> HIDE DEF r
    <3>4. edit'[d] = r
      BY <2>1, <2>11, <3>2
    <3>5. t \in list /\ ListOf(op) = "tools"
      BY <1>8, <3>3, <3>4
    <3> HIDE DEF list
    <3>6. op = "add tool" /\ what = {t}
      BY <2>9, <2>10, <3>1, <3>5 DEF list
    <3>7. QED
      BY <3>3, <3>4, <3>6
  <2>12. ASSUME NEW e \in Edits, Probed(e), edit'[d] # edit[d]
         PROVE  edit'[d].op = "add tool" /\ edit'[d].what = {t}
    <3>1. PICK r \in EditRecord :
            /\ edit' = [edit EXCEPT ![e] = r]
            /\ \/ r = NoEdit
               \/ /\ r.at = "writing" /\ r.op = edit[e].op /\ r.what = edit[e].what
                  /\ r.seen = edit[e].seen
                  /\ r.list = Changed(InForce(ListOf(edit[e].op)), edit[e].op, edit[e].what)
      BY <2>12, ProbedCases
    <3>2. edit'[d] = r /\ d = e
      BY <2>1, <2>12, <3>1
    <3>3. /\ r.op = edit[d].op /\ r.what = edit[d].what
          /\ r.list = Changed(InForce(ListOf(edit[d].op)), edit[d].op, edit[d].what)
      BY <1>8, <2>4, <3>1, <3>2
    <3>4. edit[d].op = "add tool" => \E u \in Tools : edit[d].what = {u}
      BY <2>12, <3>2 DEF Probed, CheckedFirst
    <3>5. edit[d].op \in Ops
      BY <2>1 DEF EditRecord
    <3>6. ListOf(edit[d].op) = "tools"
          /\ t \in Changed(InForce(ListOf(edit[d].op)), edit[d].op, edit[d].what)
      BY <1>8, <3>2, <3>3
    <3>7. edit[d].op = "add tool" /\ edit[d].what = {t}
      BY <2>9, <2>10, <3>4, <3>5, <3>6
    <3>8. QED
      BY <3>2, <3>3, <3>7
  <2>13. \/ \E f \in Refreshers : Returned(f)
         \/ \E p \in Processes : Restart(p)
         \/ \E e \in Edits : Wrote(e) \/ Checking(e) \/ Probed(e) \/ RecordEscalation(e)
         \/ UNCHANGED edit
    BY DEF ConfigurationNext, RefreshStep, RefreshAsk, RefreshRead, RefreshFails, RefreshDone,
           PutSetting, ClearSetting, StoreList, WriteByHand, Checking
  <2>14. QED
    BY <2>2, <2>5, <2>6, <2>7, <2>8, <2>11, <2>12, <2>13
<1>9. QED
  BY <1>5, <1>6, <1>7, <1>8

-----------------------------------------------------------------------------
(* Configuration: the theorems *)

ConfigurationSpec == ConfigurationInit /\ [][ConfigurationNext]_configurationVars

LEMMA ConfigurationIInvInit == ConfigurationInit => ConfigurationIInv
<1> SUFFICES ASSUME ConfigurationInit PROVE ConfigurationIInv
  OBVIOUS
<1> USE DEF ConfigurationInit
<1>1. RowsTyped
  BY RowsThere, RowsInAny, SettingsAre DEF RowsTyped, Absent
<1>2. SnapTyped
  BY EnvironmentTyped DEF SnapTyped
<1>3. LoadingTyped
  BY IdlingTyped DEF LoadingTyped
<1>4. EditTyped
  BY NoEditType DEF EditTyped
<1>5. OtherTyped
  BY DEF OtherTyped
<1>6. NarrowingKept
  BY DEF NarrowingKept
<1>7. \A e \in Edits : CheckedFirst(e)
  BY DEF CheckedFirst, NoEdit
<1>8. ASSUME NEW t \in Mutates
      PROVE  /\ t \in Value("tools") => OnRecord(t)
             /\ t \in snap["console"]["tools"].value => OnRecord(t)
             /\ \A f \in Refreshers : t \notin loading[f].rows["tools"].value
             /\ \A e \in Edits : edit[e].at = "none"
  <2>1. t \in Environment["tools"] => OnRecord(t)
    BY DEF OnRecord
  <2>2. Value("tools") = Environment["tools"]
    BY SettingsAre DEF Value, Absent
  <2>3. snap["console"]["tools"].value = Environment["tools"]
    BY ConfigurationNumbers, EnvironmentTyped, SettingsAre
  <2>4. \A f \in Refreshers : loading[f].rows["tools"].value = {}
    BY SettingsAre DEF Idling, Absent
  <2>5. QED
    BY <2>1, <2>2, <2>3, <2>4 DEF NoEdit
<1>9. ListsOnRecord
  BY <1>8 DEF ListsOnRecord
<1>10. QED
  BY <1>1, <1>2, <1>3, <1>4, <1>5, <1>6, <1>7, <1>9 DEF ConfigurationIInv, ConfigurationTypes

LEMMA ConfigurationIInvStep ==
    ConfigurationIInv /\ [ConfigurationNext]_configurationVars => ConfigurationIInv'
<1>1. ASSUME ConfigurationIInv, ConfigurationNext
      PROVE  ConfigurationIInv'
  BY <1>1, ConfigurationTypesStep, CheckedFirstStep, NarrowingStep, ListsOnRecordStep
  DEF ConfigurationIInv
<1>2. ASSUME ConfigurationIInv, UNCHANGED configurationVars
      PROVE  ConfigurationIInv'
  <2> USE <1>2 DEF configurationVars, ConfigurationIInv
  <2>1. ConfigurationTypes'
    BY DEF ConfigurationTypes, RowsTyped, SnapTyped, LoadingTyped, EditTyped, OtherTyped
  <2>2. NarrowingKept' /\ \A e \in Edits : CheckedFirst(e)'
    BY DEF NarrowingKept, CheckedFirst
  <2>3. /\ \A t \in Mutates : OnRecord(t) = OnRecord(t)'
        /\ Value("tools")' = Value("tools") /\ UNCHANGED <<snap, loading, edit>>
    BY DEF OnRecord, Value
  <2>4. ListsOnRecord'
    BY <2>3, Zenon DEF ListsOnRecord
  <2>5. QED
    BY <2>1, <2>2, <2>4
<1>3. QED
  BY <1>1, <1>2

LEMMA ConfigurationInvariant == ConfigurationSpec => []ConfigurationIInv
BY ConfigurationIInvInit, ConfigurationIInvStep, PTL DEF ConfigurationSpec

(* Rows hold what their settings may hold, and processes what they resolve  *)
(* (RuntimeConfiguration, FederationEditor).                                *)
THEOREM ConfigurationKeepsTypes == ConfigurationSpec => []ConfigurationTypeOK
<1>1. ConfigurationIInv => ConfigurationTypeOK
  BY DEF ConfigurationIInv, ConfigurationTypes, RowsTyped, SnapTyped, LoadingTyped, EditTyped,
         OtherTyped, ConfigurationTypeOK, EditRecord, EditPlaces
<1>2. QED
  BY ConfigurationInvariant, <1>1, PTL

(* From whatever environment: a setting taken from the database is handed   *)
(* back only by a load that finds its row gone or by a restart; and whatever*)
(* may change state and is stored is on record as an escalation, unless the *)
(* console stopped between the two transactions (RuntimeConfiguration's     *)
(* refresh, FederationEditor's add_tool).                                   *)
THEOREM NothingHandedBack == ConfigurationSpec => [](NarrowingKept /\ EscalationsRecorded)
<1>1. ConfigurationIInv => NarrowingKept /\ EscalationsRecorded
  BY Zenon DEF ConfigurationIInv, ListsOnRecord, EscalationsRecorded, OnRecord
<1>2. QED
  BY ConfigurationInvariant, <1>1, PTL

(* From an environment an agent accepts at its start (FederationConfig's    *)
(* __post_init__ refuses any other), a list that was checked against what   *)
(* is stored leaves one that it accepts again.                              *)
THEOREM ConfigurationPromises ==
    ASSUME Honoured(Environment["servers"], Environment["tools"])
    PROVE  ConfigurationSpec => []ConfigurationInv
<1>1. ConfigurationInit => ListsAgree
  <2> SUFFICES ASSUME ConfigurationInit PROVE ListsAgree
    OBVIOUS
  <2>1. \A s \in Settings : Value(s) = Environment[s]
    BY DEF ConfigurationInit, Value, Absent
  <2>2. QED
    BY <2>1, SettingsAre DEF ListsAgree
<1>2. ConfigurationIInv /\ ListsAgree /\ [ConfigurationNext]_configurationVars => ListsAgree'
  <2>1. ASSUME ConfigurationIInv, ListsAgree, ConfigurationNext
        PROVE  ListsAgree'
    BY <2>1, ListsAgreeStep DEF ConfigurationIInv
  <2>2. ASSUME ListsAgree, UNCHANGED configurationVars
        PROVE  ListsAgree'
    BY <2>2 DEF ListsAgree, Honoured, Value, configurationVars
  <2>3. QED
    BY <2>1, <2>2
<1>3. ConfigurationSpec => []ListsAgree
  BY <1>1, <1>2, ConfigurationInvariant, PTL DEF ConfigurationSpec
<1>4. QED
  BY <1>3, NothingHandedBack, PTL DEF ConfigurationInv

-----------------------------------------------------------------------------
(* The loops of a process, one after another                                *)

LEMMA LoopsInvariant ==
    Spec => [](AlertsIInv /\ SchedulesIInv /\ SuggestionsIInv /\ ConfigurationIInv)
<1> DEFINE IInv == AlertsIInv /\ SchedulesIInv /\ SuggestionsIInv /\ ConfigurationIInv
<1>1. Init => IInv
  BY AlertsIInvInit, SchedulesIInvInit, SuggestionsIInvInit, ConfigurationIInvInit DEF Init
<1>2. IInv /\ [Next]_<<alertVars, taskVars, suggestionVars, configurationVars, turn>> => IInv'
  <2> SUFFICES ASSUME IInv, [Next]_<<alertVars, taskVars, suggestionVars, configurationVars, turn>>
               PROVE  IInv'
    OBVIOUS
  <2>1. /\ [AlertsNext]_alertVars /\ [SchedulesNext]_taskVars
        /\ [SuggestionsNext]_suggestionVars /\ [ConfigurationNext]_configurationVars
    BY DEF Next, AlertsTurn, ConfigurationTurn
  <2> QED BY <2>1, AlertsIInvStep, SchedulesIInvStep, SuggestionsIInvStep, ConfigurationIInvStep
<1> QED BY <1>1, <1>2, PTL DEF Spec

(* Each loop keeps its promises in the process as it does alone, for they   *)
(* share no row: no interval of a scheduled question is answered twice and  *)
(* nobody is past a limit (AlertRunner, ScheduledTaskRunner, StatusNews-    *)
(* Runner and RuntimeConfiguration, started side by side).                  *)
THEOREM LoopsKeepTheirPromises == Spec => []LoopsInv
<1>1. AlertsIInv => AlertsTypeOK
  BY AlertsGive
<1>2. SchedulesIInv => SchedulesTypeOK /\ OncePerInterval /\ CapUnlessTogether
  BY SchedulesGive
<1>3. SuggestionsIInv => SuggestionsTypeOK /\ LimitHolds
  BY DEF SuggestionsIInv, SuggestionTypes, SuggestionsTypeOK, SweepPlaces, LimitIInv
<1>4. ConfigurationIInv => ConfigurationTypeOK
  BY DEF ConfigurationIInv, ConfigurationTypes, RowsTyped, SnapTyped, LoadingTyped, EditTyped,
         OtherTyped, ConfigurationTypeOK, EditRecord, EditPlaces
<1> QED BY <1>1, <1>2, <1>3, <1>4, LoopsInvariant, PTL DEF LoopsInv, LoopsTypeOK
=============================================================================
