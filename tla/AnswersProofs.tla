---------------------------- MODULE AnswersProofs ----------------------------
(***************************************************************************)
(* Theorems about what an answer may draw on and what a question may cost: *)
(* what a cached permission still admits (Audience), what is remembered of *)
(* earlier questions (Memory), what the runs of one question have read     *)
(* (Reasoning), and what recordings may spend (Voice).                     *)
(***************************************************************************)
EXTENDS MCAnswers, FiniteSetTheorems, WellFoundedInduction, TLAPS

-----------------------------------------------------------------------------
(* Permissions                                                              *)

(* What k may read of S, as the process knows the guild.                    *)
Granted(k, S) ==
    IF process = "mcp" THEN {c \in S : <<k, c>> \in guild}
    ELSE {c \in S : /\ \E m \in People : <<m, k>> \in guild
                    /\ \A m \in People : <<m, k>> \in guild => <<m, c>> \in guild}

(* An entry still served is granted, or its drop is awaited, or it is older *)
(* than a move that came without one.                                       *)
Kept(k) ==
    entries[k].age < Ttl =>
        \/ Awaited(k) \/ missedAge <= entries[k].age
        \/ entries[k].value \subseteq Granted(k, entries[k].scope)

(* Cut off, the MCP server computes nothing to be read.                     *)
CutOff(k) == process = "mcp" /\ ~online /\ entries[k].age < offlineAge => entries[k].value = {}

(* What the process has not heard is an event of the gap.                   *)
GapIsHeard ==
    /\ online => guild = grants /\ unheard = {} /\ offlineAge = 0
    /\ \A m \in People, c \in Sources :
          (<<m, c>> \in guild <=> <<m, c>> \in grants) \/ unheard \cap {m, Everyone, Silent} # {}

AudienceIInv ==
    /\ AudienceTypeOK /\ indexed \subseteq Sources /\ online \in BOOLEAN /\ GapIsHeard
    /\ \A k \in Keys : Kept(k) /\ CutOff(k)

LEMMA AudienceNumbers ==
    Ttl \in Nat /\ Ttl >= 1 /\ Destinations \subseteq Sources /\ NoEntry \in Entry /\ NoEntry.age = Ttl
<1>1. Ttl \in Nat \ {0} /\ Destinations \subseteq Sources
  BY AudienceAssumption
<1>2. NoEntry = [age |-> Ttl, scope |-> {}, value |-> {}]
  BY DEF NoEntry
<1>3. NoEntry \in Entry /\ NoEntry.age = Ttl
  BY <1>1, <1>2 DEF Entry
<1> QED BY <1>1, <1>3

LEMMA AudienceInitially == ASSUME AudienceInit PROVE AudienceIInv
<1> USE AudienceNumbers
<1>1. \A k \in Keys : entries[k] = NoEntry
  BY DEF AudienceInit
<1>2. AudienceTypeOK
  <2>1. entries \in [Keys -> Entry]
    BY DEF AudienceInit
  <2>2. missedAge \in 0..Ttl /\ offlineAge \in 0..Ttl
    BY DEF AudienceInit
  <2>3. grants \subseteq People \X Sources /\ guild \subseteq People \X Sources
    BY DEF AudienceInit
  <2> QED BY <2>1, <2>2, <2>3 DEF AudienceInit, AudienceTypeOK
<1>3. GapIsHeard
  BY DEF AudienceInit, GapIsHeard
<1>4. ASSUME NEW k \in Keys PROVE Kept(k) /\ CutOff(k)
  <2>1. ~(entries[k].age < Ttl) /\ online
    BY <1>1 DEF AudienceInit
  <2> QED BY <2>1 DEF Kept, CutOff
<1> QED BY <1>2, <1>3, <1>4 DEF AudienceIInv, AudienceInit

(* The guild as it was heard to move, however.                              *)
LEMMA MovesHeard ==
    ASSUME AudienceIInv, NEW g, NEW E, Heard(g, E), UNCHANGED <<process, entries>>,
           \A m \in People, c \in Sources :
              (<<m, c>> \in g <=> <<m, c>> \in guild) \/ E \cap {m, Everyone, Silent} # {},
           NEW k \in Keys
    PROVE  Kept(k)'
<1> USE AudienceNumbers
<1>0. /\ entries[k] \in Entry /\ Kept(k) /\ listeners \subseteq listeners'
      /\ missedAge \in 0..Ttl /\ process \in {"bot", "mcp"}
  BY DEF AudienceIInv, AudienceTypeOK, Heard
<1>1. entries[k].age \in 0..Ttl /\ entries[k].scope \subseteq Sources
  BY <1>0 DEF Entry
<1>2. CASE Silent \in E
  <2>1. missedAge' = 0
    BY <1>2 DEF Heard
  <2>2. missedAge' <= entries'[k].age
    BY <1>1, <2>1
  <2> QED BY <2>2 DEF Kept
<1>3. CASE Silent \notin E
  <2>1. missedAge' = missedAge /\ listeners' = listeners \cup E /\ guild' = g
    BY <1>3 DEF Heard
  <2>2. Awaited(k) => Awaited(k)'
    BY <1>0 DEF Awaited
  <2>3. CASE process = "mcp"
    <3>1. k \in People
      BY <2>3 DEF Keys
    <3>2. CASE E \cap {k, Everyone} # {}
      <4>1. Awaited(k)'
        BY <2>1, <2>3, <3>2 DEF Awaited
      <4> QED BY <4>1 DEF Kept
    <3>3. CASE E \cap {k, Everyone} = {}
      <4>1. \A c \in Sources : <<k, c>> \in guild' <=> <<k, c>> \in guild
        BY <1>3, <2>1, <3>1, <3>3
      <4>2. Granted(k, entries[k].scope)' = Granted(k, entries[k].scope)
        BY <1>1, <2>3, <4>1 DEF Granted
      <4> QED BY <1>0, <2>1, <2>2, <4>2 DEF Kept
    <3> QED BY <3>2, <3>3
  <2>4. CASE process = "bot"
    <3>1. k \in Sources
      BY <2>4 DEF Keys
    <3>2. CASE E # {}
      <4>1. Awaited(k)'
        BY <2>1, <2>4, <3>2 DEF Awaited
      <4> QED BY <4>1 DEF Kept
    <3>3. CASE E = {}
      <4>1. \A m \in People, c \in Sources : <<m, c>> \in guild' <=> <<m, c>> \in guild
        BY <2>1, <3>3
      <4>2. Granted(k, entries[k].scope)' = Granted(k, entries[k].scope)
        BY <1>1, <2>4, <3>1, <4>1 DEF Granted
      <4> QED BY <1>0, <2>1, <2>2, <4>2 DEF Kept
    <3> QED BY <3>2, <3>3
  <2> QED BY <1>0, <2>3, <2>4
<1> QED BY <1>2, <1>3

LEMMA MovesStep ==
    ASSUME AudienceIInv, NEW g \in SUBSET (People \X Sources),
           NEW e \in People \cup {Everyone, Silent}, Moves(g, e),
           \A m \in People, c \in Sources :
              (<<m, c>> \in g <=> <<m, c>> \in grants) \/ {e} \cap {m, Everyone, Silent} # {}
    PROVE  AudienceIInv'
<1> USE AudienceNumbers
<1>0. /\ AudienceTypeOK /\ GapIsHeard /\ indexed \subseteq Sources /\ online \in BOOLEAN
      /\ \A k \in Keys : Kept(k) /\ CutOff(k)
  BY DEF AudienceIInv
<1>1. UNCHANGED <<process, online, indexed, entries, offlineAge>> /\ grants' = g /\ Keys' = Keys
  BY DEF Moves, Keys
<1>2. CASE online
  <2>1. Heard(g, {e}) /\ unheard' = unheard /\ guild' = g
    BY <1>2 DEF Moves, Heard
  <2>2. guild = grants
    BY <1>0, <1>2 DEF GapIsHeard
  <2>3. \A k \in Keys : Kept(k)'
    BY <1>1, <2>1, <2>2, MovesHeard
  <2>4. AudienceTypeOK'
    <3>1. missedAge' \in 0..Ttl /\ listeners' \subseteq People \cup {Everyone}
      BY <1>0, <2>1 DEF AudienceTypeOK, Heard
    <3> QED BY <1>0, <1>1, <2>1, <3>1 DEF AudienceTypeOK
  <2>5. GapIsHeard'
    BY <1>0, <1>1, <1>2, <2>1 DEF GapIsHeard
  <2>6. \A k \in Keys : CutOff(k)'
    BY <1>0, <1>1 DEF CutOff
  <2> QED BY <1>0, <1>1, <2>3, <2>4, <2>5, <2>6 DEF AudienceIInv
<1>3. CASE ~online
  <2>1. unheard' = unheard \cup {e} /\ UNCHANGED <<guild, listeners, missedAge>>
    BY <1>3 DEF Moves
  <2>2. AudienceTypeOK'
    BY <1>0, <1>1, <2>1 DEF AudienceTypeOK
  <2>3. GapIsHeard'
    BY <1>0, <1>1, <1>3, <2>1 DEF GapIsHeard
  <2>4. ASSUME NEW k \in Keys PROVE Kept(k)' /\ CutOff(k)'
    BY <1>0, <1>1, <2>1 DEF Kept, CutOff, Awaited, Granted
  <2> QED BY <1>0, <1>1, <2>2, <2>3, <2>4 DEF AudienceIInv
<1> QED BY <1>2, <1>3

LEMMA ReconnectStep ==
    ASSUME AudienceIInv, NEW E, Reconnect(E), E = unheard \/ E = IF unheard = {} THEN {} ELSE {Silent}
    PROVE  AudienceIInv'
<1> USE AudienceNumbers
<1>0. /\ AudienceTypeOK /\ GapIsHeard /\ indexed \subseteq Sources
      /\ \A k \in Keys : Kept(k) /\ CutOff(k)
  BY DEF AudienceIInv
<1>1. /\ UNCHANGED <<process, indexed, entries, grants>> /\ Keys' = Keys
      /\ online' = TRUE /\ unheard' = {} /\ offlineAge' = 0 /\ Heard(grants, E) /\ guild' = grants
  BY DEF Reconnect, Keys, Heard
<1>2. E \subseteq People \cup {Everyone, Silent}
  BY <1>0 DEF AudienceTypeOK
<1>3. \A m \in People, c \in Sources :
         (<<m, c>> \in grants <=> <<m, c>> \in guild) \/ E \cap {m, Everyone, Silent} # {}
  BY <1>0 DEF GapIsHeard
<1>4. \A k \in Keys : Kept(k)'
  BY <1>1, <1>3, MovesHeard
<1>5. AudienceTypeOK'
  <2>1. missedAge' \in 0..Ttl /\ listeners' \subseteq People \cup {Everyone}
    BY <1>0, <1>1, <1>2 DEF AudienceTypeOK, Heard
  <2>2. unheard' \subseteq People \cup {Everyone, Silent} /\ offlineAge' \in 0..Ttl
    BY <1>1
  <2> QED BY <1>0, <1>1, <2>1, <2>2 DEF AudienceTypeOK
<1>6. GapIsHeard'
  BY <1>1 DEF GapIsHeard
<1>7. \A k \in Keys : CutOff(k)'
  BY <1>1 DEF CutOff
<1> QED BY <1>0, <1>1, <1>4, <1>5, <1>6, <1>7 DEF AudienceIInv

(* A listener's task runs: what it drops is served no more, and the rest    *)
(* did not await it.                                                        *)
LEMMA ListenerStep ==
    ASSUME AudienceIInv, NEW e, ListenerRuns(e)
    PROVE  AudienceIInv'
<1> USE AudienceNumbers
<1>0. /\ AudienceTypeOK /\ GapIsHeard /\ indexed \subseteq Sources /\ online \in BOOLEAN
      /\ \A k \in Keys : Kept(k) /\ CutOff(k)
  BY DEF AudienceIInv
<1>1. /\ UNCHANGED <<process, indexed, grants, guild, online, unheard, missedAge, offlineAge>>
      /\ Keys' = Keys /\ listeners' = listeners \ {e}
      /\ entries' = [k \in Keys |-> IF k \in Dropped(e) THEN NoEntry ELSE entries[k]]
  BY DEF ListenerRuns, Keys
<1>2. AudienceTypeOK'
  <2>1. entries' \in [Keys -> Entry]
    BY <1>0, <1>1 DEF AudienceTypeOK
  <2> QED BY <1>0, <1>1, <2>1 DEF AudienceTypeOK
<1>3. GapIsHeard'
  BY <1>0, <1>1 DEF GapIsHeard
<1>4. ASSUME NEW k \in Keys PROVE Kept(k)' /\ CutOff(k)'
  <2>1. CASE k \in Dropped(e)
    <3>1. entries'[k] = NoEntry
      BY <1>1, <2>1
    <3>2. entries'[k].age = Ttl /\ offlineAge' \in 0..Ttl
      BY <1>0, <1>1, <3>1 DEF AudienceTypeOK
    <3> QED BY <3>2 DEF Kept, CutOff
  <2>2. CASE k \notin Dropped(e)
    <3>1. entries'[k] = entries[k]
      BY <1>1, <2>2
    <3>2. process # "bot" /\ e # Everyone /\ e # k
      BY <2>2 DEF Dropped
    <3>3. Awaited(k) => Awaited(k)'
      BY <1>1, <3>2 DEF Awaited
    <3> QED BY <1>0, <1>1, <3>1, <3>3 DEF Kept, CutOff, Granted
  <2> QED BY <2>1, <2>2
<1> QED BY <1>0, <1>1, <1>2, <1>3, <1>4 DEF AudienceIInv

LEMMA ComputedIs ==
    ASSUME AudienceTypeOK, indexed \subseteq Sources, NEW k \in Keys
    PROVE  /\ Computed(k) \subseteq Granted(k, indexed) /\ Computed(k) \in SUBSET Sources
           /\ online \/ process = "bot" => Computed(k) = Granted(k, indexed)
           /\ process = "mcp" /\ ~online => Computed(k) = {}
<1>1. CASE process = "mcp"
  BY <1>1 DEF Computed, Readable, Granted
<1>2. CASE process = "bot"
  <2>1. Receivers(k) = {} <=> ~\E m \in People : <<m, k>> \in guild
    BY DEF Receivers
  <2>2. Contained(k) = {c \in indexed : \A m \in People : <<m, k>> \in guild => <<m, c>> \in guild}
    BY DEF Contained, Receivers
  <2> QED BY <1>2, <2>1, <2>2 DEF Computed, Granted
<1> QED BY <1>1, <1>2 DEF AudienceTypeOK

LEMMA ResolveStep ==
    ASSUME AudienceIInv, NEW k \in Keys, Resolve(k)
    PROVE  AudienceIInv'
<1> USE AudienceNumbers
<1>0. /\ AudienceTypeOK /\ GapIsHeard /\ indexed \subseteq Sources /\ online \in BOOLEAN
      /\ \A x \in Keys : Kept(x) /\ CutOff(x)
  BY DEF AudienceIInv
<1>1. PICK r : r = [age |-> 0, scope |-> indexed, value |-> Computed(k)]
  OBVIOUS
<1>2. /\ UNCHANGED <<process, indexed, grants, guild, online, unheard, listeners, missedAge, offlineAge>>
      /\ Keys' = Keys /\ entries' = [entries EXCEPT ![k] = r]
  BY <1>1 DEF Resolve, Keys
<1>3. r \in Entry /\ r.age = 0 /\ r.scope = indexed /\ r.value = Computed(k)
  BY <1>0, <1>1, ComputedIs DEF Entry
<1>4. AudienceTypeOK'
  <2>1. entries' \in [Keys -> Entry]
    BY <1>0, <1>2, <1>3 DEF AudienceTypeOK
  <2> QED BY <1>0, <1>2, <2>1 DEF AudienceTypeOK
<1>5. GapIsHeard'
  BY <1>0, <1>2 DEF GapIsHeard
<1>6. ASSUME NEW x \in Keys PROVE Kept(x)' /\ CutOff(x)'
  <2>1. CASE x # k
    <3>1. entries'[x] = entries[x]
      BY <1>0, <1>2, <2>1 DEF AudienceTypeOK
    <3> QED BY <1>0, <1>2, <3>1 DEF Kept, CutOff, Awaited, Granted
  <2>2. CASE x = k
    <3>1. entries'[x] = r
      BY <1>0, <1>2, <2>2 DEF AudienceTypeOK
    <3>2. Computed(k) \subseteq Granted(k, indexed) /\ (process = "mcp" /\ ~online => Computed(k) = {})
      BY <1>0, ComputedIs
    <3>3. Granted(k, indexed)' = Granted(k, indexed)
      BY <1>2 DEF Granted
    <3>4. Kept(x)'
      BY <1>2, <1>3, <2>2, <3>1, <3>2, <3>3 DEF Kept
    <3>5. CutOff(x)'
      BY <1>2, <1>3, <2>2, <3>1, <3>2 DEF CutOff
    <3> QED BY <3>4, <3>5
  <2> QED BY <2>1, <2>2
<1> QED BY <1>0, <1>2, <1>4, <1>5, <1>6 DEF AudienceIInv

LEMMA PassesStep ==
    ASSUME AudienceIInv, Passes
    PROVE  AudienceIInv'
<1> USE AudienceNumbers
<1>0. /\ AudienceTypeOK /\ GapIsHeard /\ indexed \subseteq Sources /\ online \in BOOLEAN
      /\ \A x \in Keys : Kept(x) /\ CutOff(x)
      /\ missedAge \in 0..Ttl /\ offlineAge \in 0..Ttl
  BY DEF AudienceIInv, AudienceTypeOK
<1>1. /\ UNCHANGED <<process, indexed, grants, guild, online, unheard, listeners>>
      /\ Keys' = Keys /\ missedAge' = Older(missedAge)
      /\ offlineAge' = IF online THEN 0 ELSE Older(offlineAge)
  BY DEF Passes, Keys
<1>2. ASSUME NEW n \in 0..Ttl PROVE Older(n) \in 0..Ttl /\ n <= Older(n)
  BY DEF Older
<1>3. ASSUME NEW k \in Keys
      PROVE  /\ entries'[k] \in Entry /\ entries'[k].age = Older(entries[k].age)
             /\ entries'[k].scope = entries[k].scope /\ entries'[k].value = entries[k].value
             /\ entries[k].age \in 0..Ttl
  <2>1. entries[k] \in Entry /\ entries[k].age \in 0..Ttl
    BY <1>0 DEF AudienceTypeOK, Entry
  <2>2. PICK n : n = Older(entries[k].age)
    OBVIOUS
  <2>3. entries'[k] = [entries[k] EXCEPT !.age = n] /\ n \in 0..Ttl
    BY <1>2, <2>1, <2>2 DEF Passes
  <2> QED BY <2>1, <2>2, <2>3 DEF Entry
<1>4. AudienceTypeOK'
  <2>1. DOMAIN entries' = Keys
    BY DEF Passes
  <2>2. entries' = [k \in Keys |-> entries'[k]]
    BY DEF Passes
  <2>3. entries' \in [Keys -> Entry]
    BY <1>3, <2>2
  <2>4. missedAge' \in 0..Ttl /\ offlineAge' \in 0..Ttl
    BY <1>0, <1>1, <1>2
  <2> QED BY <1>0, <1>1, <2>3, <2>4 DEF AudienceTypeOK
<1>5. GapIsHeard'
  BY <1>0, <1>1 DEF GapIsHeard
<1>6. ASSUME NEW k \in Keys PROVE Kept(k)'
  <2>1. SUFFICES ASSUME entries'[k].age < Ttl
                 PROVE  \/ Awaited(k)' \/ missedAge' <= entries'[k].age
                        \/ entries'[k].value \subseteq Granted(k, entries[k].scope)'
    BY DEF Kept
  <2>2. entries[k].age < Ttl
    BY <1>3, <2>1 DEF Older
  <2>3. CASE Awaited(k)
    BY <1>1, <2>3 DEF Awaited
  <2>4. CASE missedAge <= entries[k].age
    BY <1>0, <1>1, <1>3, <2>4 DEF Older
  <2>5. CASE entries[k].value \subseteq Granted(k, entries[k].scope)
    BY <1>1, <1>3, <2>5 DEF Granted
  <2> QED BY <1>0, <2>2, <2>3, <2>4, <2>5 DEF Kept
<1>7. ASSUME NEW k \in Keys PROVE CutOff(k)'
  <2>1. SUFFICES ASSUME process = "mcp", ~online, entries'[k].age < offlineAge'
                 PROVE  entries'[k].value = {}
    BY <1>1 DEF CutOff
  <2>2. entries[k].age < offlineAge
    BY <1>0, <1>1, <1>3, <2>1 DEF Older
  <2> QED BY <1>0, <1>3, <2>1, <2>2 DEF CutOff
<1> QED BY <1>0, <1>1, <1>4, <1>5, <1>6, <1>7 DEF AudienceIInv

LEMMA AudienceStep == ASSUME AudienceIInv, [AudienceNext]_audienceVars PROVE AudienceIInv'
<1> USE AudienceNumbers
<1>0. /\ AudienceTypeOK /\ GapIsHeard /\ indexed \subseteq Sources /\ online \in BOOLEAN
      /\ \A x \in Keys : Kept(x) /\ CutOff(x)
      /\ grants \subseteq People \X Sources
  BY DEF AudienceIInv, AudienceTypeOK
<1>1. CASE UNCHANGED audienceVars
  <2>1. UNCHANGED <<process, grants, guild, online, unheard, listeners, indexed, entries, missedAge,
                    offlineAge>>
    BY <1>1 DEF audienceVars
  <2> QED BY <1>0, <2>1 DEF AudienceIInv, AudienceTypeOK, GapIsHeard, Kept, CutOff, Awaited, Granted, Keys
<1>2. ASSUME NEW m \in People, NEW e \in {m, Silent}, PersonMoves(m, e) PROVE AudienceIInv'
  <2>1. PICK C \in SUBSET Sources : Moves({p \in grants : p[1] # m} \cup ({m} \X C), e)
    BY <1>2 DEF PersonMoves
  <2>2. PICK g : g = {p \in grants : p[1] # m} \cup ({m} \X C)
    OBVIOUS
  <2>3. g \in SUBSET (People \X Sources)
    BY <1>0, <2>2
  <2>4. \A n \in People, c \in Sources : n # m => (<<n, c>> \in g <=> <<n, c>> \in grants)
    BY <2>2
  <2>5. \A n \in People, c \in Sources :
           (<<n, c>> \in g <=> <<n, c>> \in grants) \/ {e} \cap {n, Everyone, Silent} # {}
    BY <2>4
  <2> QED BY <2>1, <2>2, <2>3, <2>5, MovesStep
<1>3. ASSUME NEW d \in Sources, ChannelMoves(d) PROVE AudienceIInv'
  <2>1. PICK P \in SUBSET People : Moves({p \in grants : p[2] # d} \cup (P \X {d}), Everyone)
    BY <1>3 DEF ChannelMoves
  <2>2. PICK g : g = {p \in grants : p[2] # d} \cup (P \X {d})
    OBVIOUS
  <2>3. g \in SUBSET (People \X Sources)
    BY <1>0, <2>2
  <2> QED BY <2>1, <2>2, <2>3, MovesStep
<1>4. CASE Disconnect
  <2>1. /\ UNCHANGED <<process, grants, guild, unheard, listeners, indexed, entries, missedAge, offlineAge>>
        /\ online /\ ~online' /\ Keys' = Keys
    BY <1>4 DEF Disconnect, Keys
  <2>2. AudienceTypeOK'
    BY <1>0, <2>1 DEF AudienceTypeOK
  <2>3. GapIsHeard'
    BY <1>0, <2>1 DEF GapIsHeard
  <2>4. ASSUME NEW k \in Keys PROVE Kept(k)' /\ CutOff(k)'
    <3>1. offlineAge' = 0 /\ entries'[k].age \in 0..Ttl
      BY <1>0, <2>1 DEF GapIsHeard, AudienceTypeOK, Entry
    <3> QED BY <1>0, <2>1, <3>1 DEF Kept, CutOff, Awaited, Granted
  <2> QED BY <1>0, <1>4, <2>1, <2>2, <2>3, <2>4 DEF AudienceIInv, Disconnect
<1>5. CASE Resume \/ NewSession
  <2>1. PICK E : /\ E = unheard \/ E = IF unheard = {} THEN {} ELSE {Silent}
                 /\ Reconnect(E)
    BY <1>5 DEF Resume, NewSession
  <2> QED BY <2>1, ReconnectStep
<1>6. ASSUME NEW S \in SUBSET Sources, ScopeMoves(S) PROVE AudienceIInv'
  <2>1. /\ UNCHANGED <<process, grants, guild, online, unheard, listeners, entries, missedAge, offlineAge>>
        /\ indexed' \subseteq Sources /\ Keys' = Keys
    BY <1>6 DEF ScopeMoves, Keys
  <2>2. AudienceTypeOK' /\ GapIsHeard'
    BY <1>0, <2>1 DEF AudienceTypeOK, GapIsHeard
  <2>3. ASSUME NEW k \in Keys PROVE Kept(k)' /\ CutOff(k)'
    BY <1>0, <2>1 DEF Kept, CutOff, Awaited, Granted
  <2> QED BY <1>0, <2>1, <2>2, <2>3 DEF AudienceIInv
<1>7. ASSUME NEW k \in Keys, Resolve(k) PROVE AudienceIInv'
  BY <1>7, ResolveStep
<1>8. ASSUME NEW e \in People \cup {Everyone}, ListenerRuns(e) PROVE AudienceIInv'
  BY <1>8, ListenerStep
<1>9. CASE Passes
  BY <1>9, PassesStep
<1> QED BY <1>1, <1>2, <1>3, <1>4, <1>5, <1>6, <1>7, <1>8, <1>9 DEF AudienceNext

LEMMA AudienceMeans == ASSUME AudienceIInv PROVE AudienceTypeOK /\ AudienceInv
<1> USE AudienceNumbers
<1>0. /\ AudienceTypeOK /\ GapIsHeard /\ indexed \subseteq Sources /\ online \in BOOLEAN
      /\ \A x \in Keys : Kept(x) /\ CutOff(x)
  BY DEF AudienceIInv
<1>1. ASSUME NEW k \in Keys, online, ~Awaited(k), missedAge = Ttl PROVE Answer(k) \subseteq Computed(k)
  <2>1. CASE ~Servable(k)
    BY <2>1 DEF Answer
  <2>2. CASE Servable(k)
    <3>1. entries[k].age < Ttl /\ entries[k].scope = indexed /\ Answer(k) = entries[k].value
      BY <2>2 DEF Servable, Answer
    <3>2. entries[k].age \in 0..Ttl
      BY <1>0 DEF AudienceTypeOK, Entry
    <3>3. entries[k].value \subseteq Granted(k, indexed)
      BY <1>0, <1>1, <3>1, <3>2 DEF Kept
    <3>4. Computed(k) = Granted(k, indexed)
      BY <1>0, <1>1, ComputedIs
    <3> QED BY <3>1, <3>3, <3>4
  <2> QED BY <2>1, <2>2
<1>2. ASSUME NEW k \in Keys, process = "mcp", ~online, offlineAge = Ttl PROVE Answer(k) = {}
  <2>1. Computed(k) = {}
    BY <1>0, <1>2, ComputedIs
  <2>2. Servable(k) => entries[k].value = {}
    BY <1>0, <1>2 DEF Servable, CutOff
  <2> QED BY <2>1, <2>2 DEF Answer
<1> QED BY <1>0, <1>1, <1>2 DEF AudienceInv, NoStaleGrant, CutOffAnswersNothing

(* For any people, channels, destinations and time to live: what is served  *)
(* from the cache is granted by the guild as the process knows it, unless a *)
(* listener's task is still to run or a move came without an event less     *)
(* than the time to live ago; and the MCP server, cut off that long,        *)
(* answers nothing (DiscordAudienceResolver, CachingAclResolver, the         *)
(* listeners that drop their entries).                                      *)
THEOREM NothingRevokedIsServed == AudienceSpec => [](AudienceTypeOK /\ AudienceInv)
<1>1. AudienceIInv => AudienceTypeOK /\ AudienceInv
  BY AudienceMeans
<1> QED BY <1>1, AudienceInitially, AudienceStep, PTL DEF AudienceSpec

-----------------------------------------------------------------------------
(* Least and greatest elements.  The least comes of the order of the        *)
(* naturals being well-founded, which stands in for an induction.           *)
LEMMA LeastStands ==
    ASSUME NEW S \in SUBSET Nat, S # {}
    PROVE  Min(S) \in S /\ \A y \in S : Min(S) <= y
<1> DEFINE R == OpToRel(<, Nat)
<1>1. IsWellFoundedOn(R, Nat)
  BY NatLessThanWellFounded
<1>2. R = {p \in Nat \X Nat : p[1] < p[2]}
  BY DEF OpToRel
<1> HIDE DEF R
<1>3. PICK x \in S : \A y \in S : ~ (<<y, x>> \in R)
  BY <1>1, WFMin
<1>4. \A y \in S : ~ (y < x)
  BY <1>2, <1>3
<1>5. \A y \in S : x <= y
  BY <1>4
<1> QED BY <1>5 DEF Min

LEMMA GreatestStands ==
    ASSUME NEW n \in Nat, NEW S \in SUBSET (0..n), S # {}
    PROVE  Max(S) \in S /\ \A y \in S : Max(S) >= y
<1> DEFINE T == {n - x : x \in S}
<1>1. \A x \in S : n - x \in Nat
  OBVIOUS
<1>2. T \in SUBSET Nat /\ T # {}
  BY <1>1
<1> HIDE DEF T
<1>3. Min(T) \in T /\ \A y \in T : Min(T) <= y
  BY <1>2, LeastStands
<1>4. PICK s \in S : Min(T) = n - s
  BY <1>3 DEF T
<1>5. ASSUME NEW y \in S PROVE s >= y
  <2>1. n - y \in T
    BY DEF T
  <2> QED BY <1>3, <1>4, <2>1
<1> QED BY <1>5 DEF Max

-----------------------------------------------------------------------------
(* Memory                                                                   *)

Begun == {i \in TurnIds : i < nextTurn}
Waiting == {a \in Asks : question[a].at \in {"recalling", "answering"}}

Question == [at : {"idle", "recalling", "answering", "writing"}, scope : SUBSET Channels,
             shown : SUBSET Channels, rests : SUBSET TurnIds, id : 0..MaxTurns]

(* The channels X account for what turn i may restate.                      *)
Held(i, X) == \A j \in rests[i] \ lost : drew[j] \subseteq X

MemoryRows ==
    /\ readable \subseteq Channels /\ memoryOut \in BOOLEAN
    /\ nextTurn \in 1..(MaxTurns + 1) /\ horizon \in 0..MaxTurns /\ horizon < nextTurn
    /\ channelIds \in [TurnIds -> SUBSET Channels] /\ drew \in [TurnIds -> SUBSET Channels]
    /\ rests \in [TurnIds -> SUBSET TurnIds] /\ forgotten \subseteq Begun

RestsStand == \A i \in Begun : i \in rests[i] /\ rests[i] \subseteq Begun

StoredStand ==
    /\ stored \subseteq Begun /\ stored \cap forgotten = {}
    /\ \A i \in stored : i > horizon /\ Held(i, channelIds[i])

(* At most one summary, of turns begun, none of them forgotten, and none    *)
(* past the window but what was taken from under the summariser.            *)
SummariesStand ==
    /\ summaries \subseteq Summary /\ \A s, t \in summaries : s = t
    /\ \A s \in summaries : /\ s.of \subseteq Begun /\ s.of \cap forgotten = {}
                            /\ \A i \in s.of \ lost : i > horizon /\ i >= s.starts
                            /\ \A i \in s.of : Held(i, s.ids)

(* What a question was shown is within its scope and accounted for, and so  *)
(* is what its turn, while it is written, may restate.                      *)
QuestionStands(a) ==
    /\ question[a] \in Question /\ question[a].rests \subseteq Begun
    /\ question[a].at = "answering" =>
          /\ question[a].shown \subseteq question[a].scope
          /\ \A j \in question[a].rests \ lost : drew[j] \subseteq question[a].shown
    /\ question[a].at = "writing" =>
          /\ question[a].id \in Begun \ (stored \cup forgotten) /\ question[a].id > horizon
          /\ Held(question[a].id, question[a].shown)

TurnsDiffer == \A a, b \in Writing : question[a].id = question[b].id => a = b

(* A turn is begun only where there is room for it.                         *)
RoomIsLeft == IsFiniteSet(InProgress) /\ nextTurn + Cardinality(Waiting) <= MaxTurns + 1

(* What the summariser condenses is still there to be deleted, or was taken *)
(* from under it; and once it was forgotten there is nothing left that the  *)
(* summary could replace.                                                   *)
SummariserTypes ==
    /\ summarising \in [at : {"idle", "scheduled", "condensing"}, scope : SUBSET Channels,
                        of : SUBSET TurnIds, through : 0..MaxTurns]
    /\ summarising.at # "condensing" => summarising.of = {}
    /\ summarising.at = "condensing" => summarising.through \in Begun

SummariserStands ==
    /\ summarising.of \subseteq Begun
    /\ \A i \in summarising.of :
          /\ Held(i, summarising.scope)
          /\ \/ rests[i] \subseteq lost \/ i \in Condensed(summaries)
             \/ i \in stored /\ i <= summarising.through

ForgetsAsItCondenses ==
    \/ summarising.of \cap forgotten = {}
    \/ /\ summaries = {} /\ \A i \in stored : i > summarising.through
       /\ \A a \in Writing : question[a].id > summarising.through

MemoryIInv ==
    /\ MemoryRows /\ RestsStand /\ StoredStand /\ SummariesStand
    /\ question \in [Asks -> Question] /\ \A a \in Asks : QuestionStands(a)
    /\ TurnsDiffer /\ RoomIsLeft
    /\ SummariserTypes /\ SummariserStands /\ ForgetsAsItCondenses

LEMMA MemoryNumbers ==
    /\ MaxTurns \in Nat \ {0} /\ RecentTurns \in Nat \ {0} /\ SummariseAfter \in Nat
    /\ SummariseAfter > RecentTurns /\ TurnIds = 1..MaxTurns
BY MemoryAssumption DEF TurnIds

LEMMA HeldIsDrawn ==
    ASSUME NEW R, NEW X
    PROVE  (\A j \in R \ lost : drew[j] \subseteq X) <=> Drawn(R \ lost) \subseteq X
BY DEF Drawn

LEMMA MemoryMeans == MemoryIInv => MemoryTypeOK /\ MemoryInv
<1> SUFFICES ASSUME MemoryIInv PROVE MemoryTypeOK /\ MemoryInv
  OBVIOUS
<1> USE DEF MemoryIInv
<1>1. MemoryTypeOK
  <2>1. Cardinality(summaries) <= 1
    <3>1. CASE summaries = {}
      BY <3>1, FS_EmptySet
    <3>2. CASE summaries # {}
      <4>1. PICK s \in summaries : TRUE
        BY <3>2
      <4>2. summaries = {s}
        BY <4>1 DEF SummariesStand
      <4>3. Cardinality({s}) = 1
        BY FS_Singleton
      <4> QED BY <4>2, <4>3
    <3> QED BY <3>1, <3>2
  <2>2. \A a \in Asks : /\ question[a].at \in {"idle", "recalling", "answering", "writing"}
                        /\ question[a].shown \subseteq Channels
    BY DEF QuestionStands, Question
  <2>3. stored \subseteq TurnIds
    BY DEF StoredStand, Begun
  <2>4. summarising.at \in {"idle", "scheduled", "condensing"}
    BY DEF SummariserTypes
  <2> QED BY <2>1, <2>2, <2>3, <2>4 DEF MemoryTypeOK, MemoryRows, SummariesStand
<1>2. AccountedFor
  <2>1. ASSUME NEW i \in stored PROVE Drawn(rests[i] \ lost) \subseteq channelIds[i]
    BY HeldIsDrawn DEF StoredStand, Held
  <2>2. ASSUME NEW s \in summaries PROVE Drawn(Restated(s.of) \ lost) \subseteq s.ids
    <3>1. \A j \in Restated(s.of) \ lost : drew[j] \subseteq s.ids
      BY DEF SummariesStand, Held, Restated
    <3> QED BY <3>1, HeldIsDrawn
  <2> QED BY <2>1, <2>2 DEF AccountedFor
<1>3. ShownIsReadable
  <2>1. ASSUME NEW a \in Asks, question[a].at = "answering"
        PROVE  Drawn(question[a].rests \ lost) \subseteq question[a].scope
    <3>1. \A j \in question[a].rests \ lost : drew[j] \subseteq question[a].scope
      BY <2>1 DEF QuestionStands
    <3> QED BY <3>1, HeldIsDrawn
  <2>2. \A j \in Restated(summarising.of) \ lost : drew[j] \subseteq summarising.scope
    BY DEF SummariserStands, Held, Restated
  <2>3. Drawn(Restated(summarising.of) \ lost) \subseteq summarising.scope
    BY <2>2, HeldIsDrawn
  <2> QED BY <2>1, <2>3 DEF ShownIsReadable
<1>4. ForgottenStaysForgotten /\ ExpiredIsGone
  BY DEF ForgottenStaysForgotten, ExpiredIsGone, SummariesStand
<1> QED BY <1>1, <1>2, <1>3, <1>4 DEF MemoryInv

LEMMA MemoryInitially == MemoryInit => MemoryIInv
<1> SUFFICES ASSUME MemoryInit PROVE MemoryIInv
  OBVIOUS
<1> USE MemoryNumbers
<1>0. Begun = {}
  BY DEF MemoryInit, Begun
<1>1. MemoryRows /\ RestsStand /\ StoredStand /\ SummariesStand
  <2>0. readable \subseteq Channels /\ memoryOut \in BOOLEAN /\ forgotten \subseteq Begun
    BY Zenon DEF MemoryInit
  <2>1. nextTurn \in 1..(MaxTurns + 1) /\ horizon \in 0..MaxTurns /\ horizon < nextTurn
    <3>1. nextTurn = 1 /\ horizon = 0
      BY Zenon DEF MemoryInit
    <3> QED BY <3>1
  <2>2. /\ channelIds \in [TurnIds -> SUBSET Channels] /\ drew \in [TurnIds -> SUBSET Channels]
        /\ rests \in [TurnIds -> SUBSET TurnIds]
    BY DEF MemoryInit
  <2>3. MemoryRows
    BY <2>0, <2>1, <2>2 DEF MemoryRows
  <2> QED BY <1>0, <2>3 DEF MemoryInit, RestsStand, StoredStand, SummariesStand
<1>2. ASSUME NEW a \in Asks PROVE QuestionStands(a)
  BY DEF MemoryInit, QuestionStands, Idle, Question
<1>3. Waiting = {} /\ InProgress = {} /\ Writing = {}
  BY DEF MemoryInit, Waiting, InProgress, Writing, Idle
<1>4. TurnsDiffer /\ RoomIsLeft
  <2>1. IsFiniteSet({}) /\ Cardinality({}) = 0
    BY FS_EmptySet
  <2> QED BY <1>3, <2>1 DEF MemoryInit, TurnsDiffer, RoomIsLeft
<1>5. SummariserTypes /\ SummariserStands /\ ForgetsAsItCondenses
  BY DEF MemoryInit, SummariserTypes, SummariserStands, ForgetsAsItCondenses, NoSummariser
<1>6. question \in [Asks -> Question]
  BY DEF MemoryInit, Idle, Question
<1> QED BY <1>1, <1>2, <1>4, <1>5, <1>6 DEF MemoryIInv

(* The turns begun stay what they are, and more may be lost.                *)
TurnsKept ==
    /\ \A i \in Begun : drew'[i] = drew[i] /\ rests'[i] = rests[i]
    /\ lost \subseteq lost' /\ Begun \subseteq Begun'

LEMMA HeldKept ==
    ASSUME RestsStand, TurnsKept, NEW i \in Begun, NEW X, NEW Y, X \subseteq Y, Held(i, X)
    PROVE  Held(i, Y)'
BY DEF RestsStand, TurnsKept, Held

(* A question that goes on as it was is not disturbed by deletions.         *)
LEMMA QuestionKept ==
    ASSUME RestsStand, TurnsKept, NEW a \in Asks, QuestionStands(a), question'[a] = question[a],
           question[a].at = "writing" =>
              question[a].id \notin stored' \cup forgotten' /\ question[a].id > horizon'
    PROVE  QuestionStands(a)'
<1>1. question[a].rests \subseteq Begun'
  BY DEF QuestionStands, TurnsKept
<1>2. ASSUME question[a].at = "answering"
      PROVE  \A j \in question[a].rests \ lost' : drew'[j] \subseteq question[a].shown
  BY <1>2 DEF QuestionStands, TurnsKept
<1>3. ASSUME question[a].at = "writing"
      PROVE  question[a].id \in Begun' /\ Held(question[a].id, question[a].shown)'
  <2>1. question[a].id \in Begun /\ Held(question[a].id, question[a].shown)
    BY <1>3 DEF QuestionStands
  <2>2. PICK i \in Begun : i = question[a].id
    BY <2>1
  <2>3. PICK X : X = question[a].shown
    OBVIOUS
  <2>4. Held(i, X)'
    BY <2>1, <2>2, <2>3, HeldKept
  <2>5. question'[a].id = i /\ question'[a].shown = X
    BY <2>2, <2>3
  <2> QED BY <2>1, <2>2, <2>4, <2>5 DEF TurnsKept, Held
<1>4. QuestionStands(a) /\ question'[a] = question[a]
  OBVIOUS
<1>5. question[a] \in Question /\ (question[a].at = "answering" =>
          question[a].shown \subseteq question[a].scope)
  BY <1>4 DEF QuestionStands
<1>6. Question' = Question
  BY DEF Question
<1>7. /\ question'[a] \in Question /\ question'[a].rests \subseteq Begun'
      /\ question'[a].at = "answering" =>
            /\ question'[a].shown \subseteq question'[a].scope
            /\ \A j \in question'[a].rests \ lost' : drew'[j] \subseteq question'[a].shown
  BY <1>1, <1>2, <1>5
<1>8. question'[a].at = "writing" =>
          /\ question'[a].id \in Begun' \ (stored' \cup forgotten') /\ question'[a].id > horizon'
          /\ Held(question[a].id, question[a].shown)'
  <2>1. ASSUME question[a].at = "writing"
        PROVE  Held(question[a].id, question[a].shown)'
    BY <1>3, <2>1
  <2>2. question'[a].at = question[a].at /\ question'[a].id = question[a].id
    OBVIOUS
  <2> QED BY <1>3, <2>1, <2>2
<1> QED BY <1>6, <1>7, <1>8 DEF QuestionStands

LEMMA RowsKept ==
    ASSUME MemoryIInv, UNCHANGED <<readable, memoryOut, stored, summaries, nextTurn, asideVars>>
    PROVE  /\ MemoryRows' /\ RestsStand' /\ StoredStand' /\ SummariesStand'
           /\ TurnsKept /\ Begun' = Begun
<1>1. Begun' = Begun
  BY DEF Begun
<1>2. TurnsKept /\ RestsStand'
  BY <1>1 DEF TurnsKept, RestsStand, MemoryIInv, asideVars
<1>3. MemoryRows'
  BY <1>1 DEF MemoryRows, MemoryIInv, asideVars
<1>4. StoredStand'
  BY <1>1 DEF StoredStand, Held, MemoryIInv, asideVars
<1>5. SummariesStand'
  BY <1>1 DEF SummariesStand, Held, MemoryIInv, asideVars
<1> QED BY <1>1, <1>2, <1>3, <1>4, <1>5

LEMMA SummariserKept ==
    ASSUME MemoryIInv,
           UNCHANGED <<readable, memoryOut, stored, summaries, nextTurn, asideVars, summarising>>
    PROVE  SummariserTypes' /\ SummariserStands'
<1>1. Begun' = Begun
  BY DEF Begun
<1>2. SummariserTypes'
  BY <1>1 DEF SummariserTypes, MemoryIInv
<1>3. SummariserStands'
  BY <1>1 DEF SummariserStands, Held, Condensed, MemoryIInv, asideVars
<1> QED BY <1>2, <1>3

(* Where nobody starts to write, the writers stay told apart.               *)
LEMMA WritersKept ==
    ASSUME MemoryIInv, UNCHANGED <<stored, summaries, forgotten, summarising>>,
           Writing' \subseteq Writing, \A b \in Writing' : question'[b].id = question[b].id
    PROVE  TurnsDiffer' /\ ForgetsAsItCondenses'
<1>1. TurnsDiffer'
  BY DEF TurnsDiffer, MemoryIInv
<1>2. ForgetsAsItCondenses'
  BY DEF ForgetsAsItCondenses, MemoryIInv
<1> QED BY <1>1, <1>2

LEMMA WaitersCount ==
    ASSUME RoomIsLeft
    PROVE  /\ IsFiniteSet(Waiting) /\ Cardinality(Waiting) \in Nat
           /\ Cardinality(InProgress) \in Nat /\ Cardinality(Waiting) <= Cardinality(InProgress)
<1>1. IsFiniteSet(InProgress) /\ Waiting \in SUBSET InProgress
  BY DEF RoomIsLeft, Waiting, InProgress
<1> QED BY <1>1, FS_Subset, FS_CardinalityType

(* Fewer in progress, and no turn begun, leave as much room.                *)
LEMMA RoomKept ==
    ASSUME MemoryIInv, nextTurn' = nextTurn, InProgress' \subseteq InProgress,
           Waiting' \subseteq Waiting
    PROVE  RoomIsLeft'
<1> USE MemoryNumbers
<1>1. RoomIsLeft /\ nextTurn \in Nat
  BY DEF MemoryIInv, MemoryRows
<1>2. IsFiniteSet(Waiting) /\ Cardinality(Waiting) \in Nat
  BY <1>1, WaitersCount
<1>3. Waiting' \in SUBSET Waiting /\ InProgress' \in SUBSET InProgress
  OBVIOUS
<1>4. IsFiniteSet(InProgress') /\ IsFiniteSet(Waiting') /\ Cardinality(Waiting') <= Cardinality(Waiting)
  <2>1. IsFiniteSet(InProgress')
    BY <1>1, <1>3, FS_Subset DEF RoomIsLeft
  <2> QED BY <1>2, <1>3, <2>1, FS_Subset
<1>5. Cardinality(Waiting') \in Nat
  BY <1>4, FS_CardinalityType
<1>6. nextTurn + Cardinality(Waiting) <= MaxTurns + 1
  BY <1>1 DEF RoomIsLeft
<1>7. nextTurn' + Cardinality(Waiting') <= MaxTurns + 1
  BY <1>1, <1>2, <1>4, <1>5, <1>6
<1> QED BY <1>4, <1>7 DEF RoomIsLeft

(* What the statements return is stored under channels within the scope.    *)
LEMMA RecalledAre ==
    ASSUME NEW scope, NEW n
    PROVE  /\ RecalledTurns(scope, n) \subseteq {i \in stored : channelIds[i] \subseteq scope}
           /\ RecalledSummaries(scope) \subseteq {s \in summaries : s.ids \subseteq scope}
BY DEF RecalledTurns, RecalledSummaries, Newest

LEMMA InheritedAre ==
    ASSUME NEW T, NEW S
    PROVE  /\ \A i \in T : channelIds[i] \subseteq Inherited(T, S)
           /\ \A s \in S : s.ids \subseteq Inherited(T, S)
           /\ \A c \in Inherited(T, S) : \/ \E i \in T : c \in channelIds[i]
                                        \/ \E s \in S : c \in s.ids
<1>1. ASSUME NEW i \in T, NEW c \in channelIds[i] PROVE c \in Inherited(T, S)
  <2>1. c \in UNION {channelIds[k] : k \in T}
    OBVIOUS
  <2> QED BY <2>1, Zenon DEF Inherited
<1>2. ASSUME NEW s \in S, NEW c \in s.ids PROVE c \in Inherited(T, S)
  <2>1. c \in UNION {t.ids : t \in S}
    OBVIOUS
  <2> QED BY <2>1 DEF Inherited
<1>3. ASSUME NEW c \in Inherited(T, S)
      PROVE  (\E i \in T : c \in channelIds[i]) \/ \E s \in S : c \in s.ids
  <2>1. c \in UNION {channelIds[k] : k \in T} \/ c \in UNION {t.ids : t \in S}
    BY <1>3 DEF Inherited
  <2> QED BY <2>1
<1> QED BY <1>1, <1>2, <1>3

LEMMA RemindingIsAccountedFor ==
    ASSUME MemoryIInv, NEW scope \in SUBSET Channels,
           NEW T \in SUBSET {i \in stored : channelIds[i] \subseteq scope},
           NEW S \in SUBSET {s \in summaries : s.ids \subseteq scope}
    PROVE  /\ Inherited(T, S) \subseteq scope
           /\ T \cup Condensed(S) \subseteq Begun /\ Restated(T \cup Condensed(S)) \subseteq Begun
           /\ \A j \in Restated(T \cup Condensed(S)) \ lost : drew[j] \subseteq Inherited(T, S)
<1> USE DEF MemoryIInv
<1>0. /\ \A i \in T : channelIds[i] \subseteq Inherited(T, S) /\ channelIds[i] \subseteq scope
      /\ \A s \in S : s.ids \subseteq Inherited(T, S) /\ s.ids \subseteq scope
  BY InheritedAre
<1>1. Inherited(T, S) \subseteq scope
  <2>1. ASSUME NEW c \in Inherited(T, S) PROVE c \in scope
    <3>1. (\E i \in T : c \in channelIds[i]) \/ \E s \in S : c \in s.ids
      BY <2>1, InheritedAre
    <3> QED BY <1>0, <3>1
  <2> QED BY <2>1
<1>2. T \cup Condensed(S) \subseteq Begun
  BY DEF StoredStand, SummariesStand, Condensed
<1>3. Restated(T \cup Condensed(S)) \subseteq Begun
  BY <1>2 DEF Restated, RestsStand
<1>4. ASSUME NEW i \in T \cup Condensed(S), NEW j \in rests[i] \ lost
      PROVE  drew[j] \subseteq Inherited(T, S)
  <2>1. CASE i \in T
    <3>1. Held(i, channelIds[i])
      BY <2>1 DEF StoredStand
    <3> QED BY <1>0, <2>1, <3>1 DEF Held
  <2>2. CASE i \in Condensed(S)
    <3>1. PICK s \in S : i \in s.of
      BY <2>2 DEF Condensed
    <3>2. Held(i, s.ids)
      BY <3>1 DEF SummariesStand
    <3> QED BY <1>0, <3>1, <3>2 DEF Held
  <2> QED BY <2>1, <2>2
<1>5. \A j \in Restated(T \cup Condensed(S)) \ lost : drew[j] \subseteq Inherited(T, S)
  BY <1>4 DEF Restated
<1> QED BY <1>1, <1>2, <1>3, <1>5

(* The questions but a go on as they were.                                  *)
LEMMA OthersKept ==
    ASSUME MemoryIInv, UNCHANGED <<readable, memoryOut, stored, summaries, nextTurn, asideVars>>,
           NEW a \in Asks, NEW q, question' = [question EXCEPT ![a] = q],
           NEW b \in Asks, b # a
    PROVE  QuestionStands(b)'
<1>1. TurnsKept /\ RestsStand /\ QuestionStands(b)
  BY RowsKept DEF MemoryIInv
<1>2. question'[b] = question[b]
  OBVIOUS
<1>3. question[b].at = "writing" =>
         question[b].id \notin stored' \cup forgotten' /\ question[b].id > horizon'
  BY <1>1 DEF QuestionStands, asideVars
<1> QED BY <1>1, <1>2, <1>3, QuestionKept

LEMMA AskBeginsStep == ASSUME MemoryIInv, NEW a \in Asks, AskBegins(a) PROVE MemoryIInv'
<1> USE MemoryNumbers
<1>1. PICK q : q = [Idle EXCEPT !.at = "recalling", !.scope = readable]
  OBVIOUS
<1>2. /\ UNCHANGED <<readable, memoryOut, stored, summaries, nextTurn, asideVars>>
      /\ question[a].at = "idle" /\ question' = [question EXCEPT ![a] = q]
      /\ UNCHANGED <<summarising, forgotten>>
  BY <1>1 DEF AskBegins, asideVars
<1>3. MemoryRows' /\ RestsStand' /\ StoredStand' /\ SummariesStand'
  BY <1>2, RowsKept
<1>4. SummariserTypes' /\ SummariserStands'
  BY <1>2, SummariserKept
<1>5. question \in [Asks -> Question] /\ RoomIsLeft /\ nextTurn \in Nat
  BY DEF MemoryIInv, MemoryRows
<1>6. q \in Question /\ q.at = "recalling" /\ q.rests = {}
  <2>1. readable \subseteq Channels
    BY DEF MemoryIInv, MemoryRows
  <2>2. q = [at |-> "recalling", scope |-> readable, shown |-> {}, rests |-> {}, id |-> 0]
    BY <1>1 DEF Idle
  <2> QED BY <2>1, <2>2 DEF Question
<1>7. question'[a] = q /\ question' \in [Asks -> Question]
      /\ \A b \in Asks : b # a => question'[b] = question[b]
  BY <1>2, <1>5, <1>6
<1>8. Question' = Question
  BY DEF Question
<1>9. ASSUME NEW b \in Asks PROVE QuestionStands(b)'
  <2>1. CASE b = a
    BY <1>6, <1>7, <1>8, <2>1 DEF QuestionStands
  <2>2. CASE b # a
    BY <1>2, <2>2, OthersKept
  <2> QED BY <2>1, <2>2
<1>10. /\ InProgress' = InProgress \cup {a} /\ a \notin InProgress /\ Writing' = Writing
       /\ Waiting' = Waiting \cup {a}
  BY <1>2, <1>6, <1>7 DEF InProgress, Writing, Waiting
<1>11. TurnsDiffer' /\ ForgetsAsItCondenses'
  <2>1. \A b \in Writing' : question'[b].id = question[b].id
    BY <1>2, <1>7, <1>10 DEF Writing
  <2> QED BY <1>2, <1>10, <2>1, WritersKept
<1>12. RoomIsLeft'
  <2>1. /\ IsFiniteSet(Waiting) /\ Cardinality(Waiting) \in Nat
        /\ Cardinality(InProgress) \in Nat /\ Cardinality(Waiting) <= Cardinality(InProgress)
    BY <1>5, WaitersCount
  <2>2. IsFiniteSet(InProgress')
    BY <1>5, <1>10, FS_AddElement DEF RoomIsLeft
  <2>3. Cardinality(Waiting') <= Cardinality(Waiting) + 1 /\ Cardinality(Waiting') \in Nat
    <3>1. IsFiniteSet(Waiting \cup {a})
          /\ Cardinality(Waiting \cup {a}) = IF a \in Waiting THEN Cardinality(Waiting)
                                             ELSE Cardinality(Waiting) + 1
      BY <2>1, FS_AddElement
    <3> QED BY <1>10, <2>1, <3>1
  <2>4. nextTurn + Cardinality(InProgress) <= MaxTurns
    BY DEF AskBegins
  <2>5. nextTurn' + Cardinality(Waiting') <= MaxTurns + 1
    BY <1>2, <1>5, <2>1, <2>3, <2>4
  <2> QED BY <2>2, <2>5 DEF RoomIsLeft
<1> QED BY <1>3, <1>4, <1>7, <1>8, <1>9, <1>11, <1>12 DEF MemoryIInv

LEMMA RemindedStep ==
    ASSUME MemoryIInv, NEW a \in Asks, question[a].at = "recalling",
           NEW T \in SUBSET {i \in stored : channelIds[i] \subseteq question[a].scope},
           NEW S \in SUBSET {s \in summaries : s.ids \subseteq question[a].scope},
           Reminded(a, T, S),
           UNCHANGED <<readable, memoryOut, stored, summaries, summarising, nextTurn, asideVars>>
    PROVE  MemoryIInv'
<1> USE MemoryNumbers
<1>1. PICK q : q = [question[a] EXCEPT !.at = "answering", !.shown = Inherited(T, S),
                                       !.rests = Restated(T \cup Condensed(S))]
  OBVIOUS
<1>2. /\ question' = [question EXCEPT ![a] = q] /\ forgotten' = forgotten
      /\ UNCHANGED <<readable, memoryOut, stored, summaries, nextTurn, asideVars>>
  BY <1>1 DEF Reminded, asideVars
<1>3. /\ MemoryRows' /\ RestsStand' /\ StoredStand' /\ SummariesStand' /\ TurnsKept
      /\ Begun' = Begun
  BY <1>2, RowsKept
<1>4. SummariserTypes' /\ SummariserStands'
  BY <1>2, SummariserKept
<1>5. question \in [Asks -> Question]
  BY DEF MemoryIInv
<1>6. question[a] \in Question /\ question[a].scope \in SUBSET Channels
  BY <1>5 DEF Question
<1>7. /\ Inherited(T, S) \subseteq question[a].scope
      /\ Restated(T \cup Condensed(S)) \subseteq Begun
      /\ \A j \in Restated(T \cup Condensed(S)) \ lost : drew[j] \subseteq Inherited(T, S)
  <2>1. PICK scope : scope = question[a].scope
    OBVIOUS
  <2>2. /\ scope \in SUBSET Channels /\ T \in SUBSET {i \in stored : channelIds[i] \subseteq scope}
        /\ S \in SUBSET {s \in summaries : s.ids \subseteq scope}
    BY <1>6, <2>1
  <2>3. /\ Inherited(T, S) \subseteq scope
        /\ Restated(T \cup Condensed(S)) \subseteq Begun
        /\ \A j \in Restated(T \cup Condensed(S)) \ lost : drew[j] \subseteq Inherited(T, S)
    BY ONLY MemoryIInv, <2>2, RemindingIsAccountedFor
  <2> QED BY <2>1, <2>3
<1>8. /\ q \in Question /\ q.at = "answering" /\ q.rests = Restated(T \cup Condensed(S))
      /\ q.shown = Inherited(T, S) /\ q.scope = question[a].scope
  BY <1>1, <1>6, <1>7 DEF Question, Begun
<1>9. question'[a] = q /\ question' \in [Asks -> Question]
      /\ \A b \in Asks : b # a => question'[b] = question[b]
  BY <1>2, <1>5, <1>8
<1>10. Question' = Question
  BY DEF Question
<1>11. ASSUME NEW b \in Asks PROVE QuestionStands(b)'
  <2>1. CASE b = a
    <3>1. drew' = drew /\ lost' = lost
      BY <1>2 DEF asideVars
    <3> QED BY <1>3, <1>7, <1>8, <1>9, <1>10, <2>1, <3>1 DEF QuestionStands
  <2>2. CASE b # a
    BY <1>2, <2>2, OthersKept
  <2> QED BY <2>1, <2>2
<1>12. /\ InProgress' \subseteq InProgress /\ Writing' \subseteq Writing /\ Waiting' \subseteq Waiting
  BY <1>2, <1>8, <1>9 DEF InProgress, Writing, Waiting
<1>13. TurnsDiffer' /\ ForgetsAsItCondenses'
  <2>1. \A b \in Writing' : question'[b].id = question[b].id
    BY <1>8, <1>9 DEF Writing
  <2> QED BY <1>2, <1>12, <2>1, WritersKept
<1>14. RoomIsLeft'
  BY <1>2, <1>12, RoomKept
<1> QED BY <1>3, <1>4, <1>9, <1>10, <1>11, <1>13, <1>14 DEF MemoryIInv

LEMMA AskRecallsStep == ASSUME MemoryIInv, NEW a \in Asks, AskRecalls(a) PROVE MemoryIInv'
<1>1. /\ question[a].at = "recalling"
      /\ UNCHANGED <<readable, memoryOut, stored, summaries, summarising, nextTurn, asideVars>>
  BY DEF AskRecalls
<1>2. CASE Reminded(a, RecalledTurns(question[a].scope, RecentTurns),
                       RecalledSummaries(question[a].scope))
  <2>1. PICK T : T = RecalledTurns(question[a].scope, RecentTurns)
    OBVIOUS
  <2>2. PICK S : S = RecalledSummaries(question[a].scope)
    OBVIOUS
  <2>3. /\ T \in SUBSET {i \in stored : channelIds[i] \subseteq question[a].scope}
        /\ S \in SUBSET {s \in summaries : s.ids \subseteq question[a].scope}
    BY <2>1, <2>2, RecalledAre
  <2>4. Reminded(a, T, S)
    BY <1>2, <2>1, <2>2
  <2> QED BY <1>1, <2>3, <2>4, RemindedStep
<1>3. CASE Reminded(a, {}, {})
  BY <1>1, <1>3, RemindedStep
<1> QED BY <1>2, <1>3 DEF AskRecalls

(* A question that ends without its turn.                                   *)
LEMMA QuestionEnds ==
    ASSUME MemoryIInv, NEW a \in Asks, question' = [question EXCEPT ![a] = Idle],
           UNCHANGED <<readable, memoryOut, stored, summaries, summarising, nextTurn, asideVars>>
    PROVE  MemoryIInv'
<1> USE MemoryNumbers
<1>2. /\ question' = [question EXCEPT ![a] = Idle] /\ forgotten' = forgotten
      /\ UNCHANGED <<readable, memoryOut, stored, summaries, nextTurn, asideVars>>
  BY DEF asideVars
<1>3. MemoryRows' /\ RestsStand' /\ StoredStand' /\ SummariesStand' /\ TurnsKept
  BY <1>2, RowsKept
<1>4. SummariserTypes' /\ SummariserStands'
  BY <1>2, SummariserKept
<1>5. question \in [Asks -> Question]
  BY DEF MemoryIInv
<1>6. Idle \in Question /\ Idle.at = "idle" /\ Idle.rests = {}
  BY DEF Question, Idle
<1>7. question'[a] = Idle /\ question' \in [Asks -> Question]
      /\ \A b \in Asks : b # a => question'[b] = question[b]
  BY <1>2, <1>5, <1>6
<1>8. Question' = Question
  BY DEF Question
<1>9. ASSUME NEW b \in Asks PROVE QuestionStands(b)'
  <2>1. CASE b = a
    BY <1>6, <1>7, <1>8, <2>1 DEF QuestionStands
  <2>2. CASE b # a
    BY <1>2, <2>2, OthersKept
  <2> QED BY <2>1, <2>2
<1>10. /\ InProgress' \subseteq InProgress /\ Writing' \subseteq Writing /\ Waiting' \subseteq Waiting
  BY <1>6, <1>7 DEF InProgress, Writing, Waiting
<1>11. TurnsDiffer' /\ ForgetsAsItCondenses'
  <2>1. \A b \in Writing' : question'[b].id = question[b].id
    BY <1>6, <1>7 DEF Writing
  <2> QED BY <1>2, <1>10, <2>1, WritersKept
<1>12. RoomIsLeft'
  BY <1>2, <1>10, RoomKept
<1> QED BY <1>3, <1>4, <1>7, <1>8, <1>9, <1>11, <1>12 DEF MemoryIInv

LEMMA AskUnstoredStep == ASSUME MemoryIInv, NEW a \in Asks, AskUnstored(a) PROVE MemoryIInv'
BY QuestionEnds DEF AskUnstored

(* What is stored stands where some of it goes.                             *)
LEMMA StoredKept ==
    ASSUME MemoryIInv, TurnsKept, stored' \subseteq stored,
           \A i \in stored' : channelIds'[i] = channelIds[i] /\ i > horizon' /\ i \notin forgotten'
    PROVE  StoredStand'
<1>1. StoredStand /\ RestsStand
  BY DEF MemoryIInv
<1>2. stored' \subseteq Begun' /\ stored' \cap forgotten' = {}
  BY <1>1 DEF StoredStand, TurnsKept
<1>3. ASSUME NEW i \in stored' PROVE i > horizon' /\ Held(i, channelIds[i])'
  <2>1. PICK k \in Begun : k = i
    BY <1>1 DEF StoredStand
  <2>2. PICK X : X = channelIds[i] /\ X = channelIds'[i]
    OBVIOUS
  <2>3. Held(k, X)
    BY <1>1, <2>1, <2>2 DEF StoredStand
  <2>4. Held(k, X)'
    BY <1>1, <2>3, HeldKept
  <2> QED BY <2>1, <2>2, <2>4 DEF Held
<1> QED BY <1>2, <1>3 DEF StoredStand

LEMMA SummariesKept ==
    ASSUME MemoryIInv, TurnsKept, summaries' \subseteq summaries, horizon' \in Int,
           \A s \in summaries' : /\ s.of \cap forgotten' = {}
                                 /\ horizon' = horizon \/ s.starts > horizon'
    PROVE  SummariesStand'
<1> USE MemoryNumbers
<1>1. SummariesStand /\ RestsStand => SummariesStand'
  <2> SUFFICES ASSUME SummariesStand, RestsStand PROVE SummariesStand'
    BY DEF MemoryIInv
  <2>1. summaries' \subseteq Summary /\ \A s, t \in summaries' : s = t
    BY DEF SummariesStand
  <2>2. Summary' = Summary
    BY DEF Summary
  <2>3. ASSUME NEW s \in summaries'
        PROVE  /\ s.of \subseteq Begun' /\ s.of \cap forgotten' = {}
               /\ \A i \in s.of \ lost' : i > horizon' /\ i >= s.starts
               /\ \A i \in s.of : Held(i, s.ids)'
    <3>1. /\ s \in summaries /\ s.of \subseteq Begun
          /\ \A i \in s.of \ lost : i > horizon /\ i >= s.starts
          /\ \A i \in s.of : Held(i, s.ids)
      BY <2>3 DEF SummariesStand
    <3>2. s.of \subseteq Begun' /\ s.of \cap forgotten' = {}
      BY <3>1 DEF TurnsKept
    <3>3. ASSUME NEW i \in s.of \ lost' PROVE i > horizon' /\ i >= s.starts
      <4>1. i \in s.of \ lost /\ i \in TurnIds /\ s.starts \in TurnIds
        BY <3>1 DEF TurnsKept, Begun, SummariesStand, Summary
      <4>2. horizon' = horizon \/ s.starts > horizon'
        OBVIOUS
      <4>3. horizon \in Int
        BY DEF MemoryIInv, MemoryRows
      <4> QED BY <3>1, <4>1, <4>2, <4>3
    <3>4. ASSUME NEW i \in s.of PROVE Held(i, s.ids)'
      <4>1. PICK X : X = s.ids
        OBVIOUS
      <4>2. i \in Begun /\ Held(i, X)
        BY <3>1, <4>1
      <4>3. Held(i, X)'
        BY <4>2, HeldKept
      <4> QED BY <4>1, <4>3 DEF Held
    <3> QED BY <3>2, <3>3, <3>4
  <2> QED BY <2>1, <2>2, <2>3 DEF SummariesStand
<1> QED BY <1>1 DEF MemoryIInv

LEMMA AskStoresStep ==
    ASSUME MemoryIInv, NEW a \in Asks, NEW D \in SUBSET Channels, AskStores(a, D)
    PROVE  MemoryIInv'
<1> USE MemoryNumbers
<1>1. CASE memoryOut
  <2>1. /\ question' = [question EXCEPT ![a] = Idle]
        /\ UNCHANGED <<readable, memoryOut, stored, summaries, summarising, nextTurn, asideVars>>
    BY <1>1 DEF AskStores, asideVars
  <2> QED BY <2>1, QuestionEnds
<1>2. CASE ~memoryOut
  <2>1. PICK n : n = nextTurn
    OBVIOUS
  <2>2. PICK q : q = [question[a] EXCEPT !.at = "writing", !.id = n, !.shown = Provenance(a, D)]
    OBVIOUS
  <2>3. PICK R : R = {n} \cup question[a].rests
    OBVIOUS
  <2>4. /\ question[a].at = "answering" /\ question' = [question EXCEPT ![a] = q]
        /\ nextTurn' = n + 1 /\ drew' = [drew EXCEPT ![n] = D] /\ rests' = [rests EXCEPT ![n] = R]
        /\ UNCHANGED <<readable, memoryOut, stored, channelIds, summaries, summarising, horizon,
                       forgotten, lost>>
    BY <1>2, <2>1, <2>2, <2>3 DEF AskStores
  <2>5. /\ RoomIsLeft /\ QuestionStands(a) /\ RestsStand /\ MemoryRows
        /\ question \in [Asks -> Question] /\ nextTurn \in Nat
    BY DEF MemoryIInv, MemoryRows
  <2>6. /\ IsFiniteSet(Waiting) /\ a \in Waiting /\ IsFiniteSet(Waiting \ {a})
        /\ Cardinality(Waiting) \in Nat
        /\ Cardinality(Waiting \ {a}) = Cardinality(Waiting) - 1
        /\ Cardinality(Waiting \ {a}) \in Nat
    <3>1. IsFiniteSet(Waiting) /\ a \in Waiting /\ Cardinality(Waiting) \in Nat
      BY <2>4, <2>5, WaitersCount DEF Waiting
    <3>2. IsFiniteSet(Waiting \ {a}) /\ Cardinality(Waiting \ {a}) = Cardinality(Waiting) - 1
      BY <3>1, FS_RemoveElement
    <3> QED BY <3>1, <3>2, FS_CardinalityType
  <2>7. n \in TurnIds /\ n \notin Begun /\ n > horizon
    <3>1. nextTurn + Cardinality(Waiting) <= MaxTurns + 1
      BY <2>5 DEF RoomIsLeft
    <3>2. nextTurn >= 1 /\ horizon < nextTurn
      BY <2>5 DEF MemoryRows
    <3> QED BY <2>1, <2>5, <2>6, <3>1, <3>2 DEF Begun
  <2>8. Begun' = Begun \cup {n} /\ \A i \in Begun : i < n
    BY <2>1, <2>4, <2>5, <2>7 DEF Begun
  <2>9. drew'[n] = D /\ rests'[n] = R /\ R \subseteq Begun' /\ R \subseteq TurnIds
    BY <2>3, <2>4, <2>5, <2>7, <2>8 DEF MemoryRows, QuestionStands, Begun
  <2>10. TurnsKept
    BY <2>4, <2>5, <2>7, <2>8 DEF TurnsKept, MemoryRows
  <2>11. RestsStand'
    BY <2>3, <2>5, <2>8, <2>9, <2>10 DEF RestsStand, TurnsKept
  <2>12. MemoryRows'
    <3>1. nextTurn' \in 1..(MaxTurns + 1) /\ horizon' < nextTurn' /\ horizon' \in 0..MaxTurns
      BY <2>1, <2>4, <2>5, <2>7 DEF MemoryRows
    <3>2. drew' \in [TurnIds -> SUBSET Channels] /\ rests' \in [TurnIds -> SUBSET TurnIds]
      BY <2>4, <2>5, <2>7, <2>9 DEF MemoryRows
    <3>3. forgotten' \subseteq Begun'
      BY <2>4, <2>5, <2>8 DEF MemoryRows
    <3> QED BY <2>4, <2>5, <3>1, <3>2, <3>3 DEF MemoryRows
  <2>13. StoredStand'
    BY <2>4, <2>10, StoredKept DEF MemoryIInv, StoredStand
  <2>14. SummariesStand'
    <3>1. horizon' \in Int /\ horizon' = horizon
      BY <2>4, <2>5 DEF MemoryRows
    <3>2. \A s \in summaries' : s.of \cap forgotten' = {}
      BY <2>4 DEF MemoryIInv, SummariesStand
    <3> QED BY <2>4, <2>10, <3>1, <3>2, SummariesKept
  <2>15. /\ q \in Question /\ q.at = "writing" /\ q.id = n /\ q.shown = D \cup question[a].shown
         /\ q.rests = question[a].rests
    <3>1. /\ question[a].scope \subseteq Channels /\ D \cup question[a].shown \subseteq Channels
          /\ question[a].rests \subseteq TurnIds /\ n \in 0..MaxTurns
      BY <2>5, <2>7 DEF Question
    <3>2. q = [at |-> "writing", scope |-> question[a].scope, shown |-> D \cup question[a].shown,
               rests |-> question[a].rests, id |-> n]
      BY <2>2, <2>5 DEF Question, Provenance
    <3> QED BY <3>1, <3>2 DEF Question
  <2>16. question'[a] = q /\ question' \in [Asks -> Question]
         /\ \A b \in Asks : b # a => question'[b] = question[b]
    BY <2>4, <2>5, <2>15
  <2>17. Question' = Question
    BY DEF Question
  <2>18. Held(n, q.shown)'
    <3>1. ASSUME NEW j \in R \ lost PROVE drew'[j] \subseteq q.shown
      <4>1. CASE j = n
        BY <2>9, <2>15, <4>1
      <4>2. CASE j \in question[a].rests
        BY <2>4, <2>5, <2>10, <2>15, <3>1, <4>2 DEF QuestionStands, TurnsKept
      <4> QED BY <2>3, <4>1, <4>2
    <3> QED BY <2>4, <2>9, <3>1 DEF Held
  <2>19. ASSUME NEW b \in Asks PROVE QuestionStands(b)'
    <3>1. CASE b = a
      <4>1. n \notin stored \cup forgotten
        BY <2>5, <2>7 DEF MemoryIInv, StoredStand, MemoryRows
      <4>2. q.rests \subseteq Begun'
        BY <2>5, <2>8, <2>15 DEF QuestionStands
      <4>3. Held(question[a].id, question[a].shown)'
        BY <2>15, <2>16, <2>18 DEF Held
      <4> QED BY <2>4, <2>7, <2>8, <2>15, <2>16, <2>17, <3>1, <4>1, <4>2, <4>3 DEF QuestionStands
    <3>2. CASE b # a
      <4>1. QuestionStands(b) /\ question'[b] = question[b]
        BY <2>16, <3>2 DEF MemoryIInv
      <4>2. question[b].at = "writing" =>
               question[b].id \notin stored' \cup forgotten' /\ question[b].id > horizon'
        BY <2>4, <4>1 DEF QuestionStands
      <4> QED BY <2>5, <2>10, <4>1, <4>2, QuestionKept
    <3> QED BY <3>1, <3>2
  <2>20. Writing' = Writing \cup {a} /\ a \notin Writing /\ InProgress' = InProgress
         /\ Waiting' = Waiting \ {a}
    BY <2>4, <2>15, <2>16 DEF Writing, InProgress, Waiting
  <2>21. \A b \in Writing : question'[b] = question[b] /\ question[b].id \in Begun
    BY <2>16, <2>20 DEF Writing, MemoryIInv, QuestionStands
  <2>22. TurnsDiffer'
    BY <2>7, <2>15, <2>16, <2>20, <2>21 DEF TurnsDiffer, MemoryIInv
  <2>23. RoomIsLeft'
    <3>1. nextTurn' + Cardinality(Waiting') <= MaxTurns + 1
      BY <2>1, <2>4, <2>5, <2>6, <2>20 DEF RoomIsLeft
    <3> QED BY <2>5, <2>20, <3>1 DEF RoomIsLeft
  <2>24. SummariserTypes'
    BY <2>4, <2>8 DEF SummariserTypes, MemoryIInv
  <2>25. SummariserStands'
    <3>1. SummariserStands
      BY DEF MemoryIInv
    <3>2. ASSUME NEW i \in summarising.of
          PROVE  /\ i \in Begun' /\ Held(i, summarising.scope)'
                 /\ \/ rests'[i] \subseteq lost' \/ i \in Condensed(summaries)'
                    \/ i \in stored' /\ i <= summarising.through
      <4>1. i \in Begun /\ Held(i, summarising.scope)
        BY <3>1 DEF SummariserStands
      <4>2. PICK X : X = summarising.scope
        OBVIOUS
      <4>3. Held(i, X)'
        BY <2>5, <2>10, <4>1, <4>2, HeldKept
      <4>4. Held(i, summarising.scope)'
        BY <2>4, <4>2, <4>3 DEF Held
      <4>5. rests'[i] = rests[i] /\ Condensed(summaries)' = Condensed(summaries)
        BY <2>4, <2>10, <4>1 DEF TurnsKept, Condensed
      <4> QED BY <2>4, <2>8, <3>1, <4>1, <4>4, <4>5 DEF SummariserStands
    <3> QED BY <2>4, <3>2 DEF SummariserStands
  <2>26. ForgetsAsItCondenses'
    <3>1. CASE summarising.of \cap forgotten = {}
      BY <2>4, <3>1 DEF ForgetsAsItCondenses
    <3>2. CASE summarising.of \cap forgotten # {}
      <4>1. summarising.through \in Begun
        BY <3>2 DEF MemoryIInv, SummariserTypes
      <4>2. n > summarising.through
        BY <2>8, <4>1, <2>1, <2>5 DEF Begun
      <4>3. /\ summaries = {} /\ \A i \in stored : i > summarising.through
            /\ \A b \in Writing : question[b].id > summarising.through
        BY <3>2 DEF MemoryIInv, ForgetsAsItCondenses
      <4>4. \A b \in Writing' : question'[b].id > summarising.through
        BY <2>15, <2>16, <2>20, <2>21, <4>2, <4>3
      <4> QED BY <2>4, <4>3, <4>4 DEF ForgetsAsItCondenses
    <3> QED BY <3>1, <3>2
  <2> QED BY <2>11, <2>12, <2>13, <2>14, <2>16, <2>17, <2>19, <2>22, <2>23, <2>24, <2>25, <2>26
          DEF MemoryIInv
<1> QED BY <1>1, <1>2

LEMMA AskCommitsStep == ASSUME MemoryIInv, NEW a \in Asks, AskCommits(a) PROVE MemoryIInv'
<1> USE MemoryNumbers
<1>1. PICK n : n = question[a].id
  OBVIOUS
<1>2. PICK X : X = question[a].shown
  OBVIOUS
<1>3. /\ question[a].at = "writing" /\ question' = [question EXCEPT ![a] = Idle]
      /\ stored' = stored \cup {n} /\ channelIds' = [channelIds EXCEPT ![n] = X]
      /\ UNCHANGED <<readable, memoryOut, summaries, nextTurn, drew, rests, horizon, forgotten, lost>>
      /\ \/ summarising' = summarising
         \/ summarising' = [NoSummariser EXCEPT !.at = "scheduled", !.scope = question[a].scope]
  BY <1>1, <1>2 DEF AskCommits
<1>4. /\ question \in [Asks -> Question] /\ QuestionStands(a) /\ MemoryRows /\ RestsStand
      /\ StoredStand
  BY DEF MemoryIInv
<1>5. /\ n \in Begun /\ n \notin stored /\ n \notin forgotten /\ n > horizon /\ Held(n, X)
      /\ X \subseteq Channels /\ n \in TurnIds
  BY <1>1, <1>2, <1>3, <1>4 DEF QuestionStands, Question, Begun
<1>6. Begun' = Begun /\ TurnsKept
  BY <1>3 DEF Begun, TurnsKept
<1>7. MemoryRows' /\ RestsStand'
  <2>1. RestsStand'
    BY <1>3, <1>4, <1>6 DEF RestsStand
  <2>2. channelIds' \in [TurnIds -> SUBSET Channels]
    BY <1>3, <1>4, <1>5 DEF MemoryRows
  <2> QED BY <1>3, <1>4, <1>6, <2>1, <2>2 DEF MemoryRows
<1>8. StoredStand'
  <2>1. stored' \subseteq Begun' /\ stored' \cap forgotten' = {}
    BY <1>3, <1>4, <1>5, <1>6 DEF StoredStand
  <2>2. ASSUME NEW i \in stored' PROVE i > horizon' /\ Held(i, channelIds[i])'
    <3>1. CASE i = n
      <4>1. channelIds'[i] = X
        BY <1>3, <1>4, <1>5, <3>1 DEF MemoryRows
      <4> QED BY <1>3, <1>5, <3>1, <4>1 DEF Held
    <3>2. CASE i # n
      <4>1. i \in stored
        BY <1>3, <3>2
      <4>2. channelIds'[i] = channelIds[i]
        BY <1>3, <1>4, <3>2, <4>1 DEF MemoryRows, StoredStand, Begun
      <4> QED BY <1>3, <1>4, <4>1, <4>2 DEF StoredStand, Held
    <3> QED BY <3>1, <3>2
  <2> QED BY <2>1, <2>2 DEF StoredStand
<1>9. SummariesStand'
  <2>1. horizon' \in Int /\ horizon' = horizon
    BY <1>3, <1>4 DEF MemoryRows
  <2>2. \A s \in summaries' : s.of \cap forgotten' = {}
    BY <1>3 DEF MemoryIInv, SummariesStand
  <2> QED BY <1>3, <1>6, <2>1, <2>2, SummariesKept
<1>10. Idle \in Question /\ Idle.at = "idle" /\ Idle.rests = {} /\ Question' = Question
  BY DEF Question, Idle
<1>11. question'[a] = Idle /\ question' \in [Asks -> Question]
       /\ \A b \in Asks : b # a => question'[b] = question[b]
  BY <1>3, <1>4, <1>10
<1>12. ASSUME NEW b \in Asks PROVE QuestionStands(b)'
  <2>1. CASE b = a
    BY <1>10, <1>11, <2>1 DEF QuestionStands
  <2>2. CASE b # a
    <3>1. QuestionStands(b) /\ question'[b] = question[b]
      BY <1>11, <2>2 DEF MemoryIInv
    <3>2. ASSUME question[b].at = "writing"
          PROVE  question[b].id \notin stored' \cup forgotten' /\ question[b].id > horizon'
      <4>1. question[b].id \notin stored \cup forgotten /\ question[b].id > horizon
        BY <3>1, <3>2 DEF QuestionStands
      <4>2. question[b].id # n
        BY <1>1, <1>3, <2>2, <3>2 DEF TurnsDiffer, MemoryIInv, Writing
      <4> QED BY <1>3, <4>1, <4>2
    <3> QED BY <1>4, <1>6, <3>1, <3>2, QuestionKept
  <2> QED BY <2>1, <2>2
<1>13. /\ InProgress' \subseteq InProgress /\ Writing' \subseteq Writing /\ Waiting' \subseteq Waiting
       /\ a \in Writing /\ \A b \in Writing' : question'[b] = question[b]
  BY <1>3, <1>10, <1>11 DEF InProgress, Writing, Waiting
<1>14. TurnsDiffer'
  BY <1>13 DEF TurnsDiffer, MemoryIInv
<1>15. RoomIsLeft'
  BY <1>3, <1>13, RoomKept
<1>16. CASE summarising' = summarising
  <2>1. SummariserTypes'
    BY <1>6, <1>16 DEF SummariserTypes, MemoryIInv
  <2>2. SummariserStands'
    BY <1>3, <1>6, <1>16 DEF SummariserStands, Held, Condensed, MemoryIInv
  <2>3. ForgetsAsItCondenses'
    <3>1. CASE summarising.of \cap forgotten = {}
      BY <1>3, <1>16, <3>1 DEF ForgetsAsItCondenses
    <3>2. CASE summarising.of \cap forgotten # {}
      <4>1. /\ summaries = {} /\ \A i \in stored : i > summarising.through
            /\ \A b \in Writing : question[b].id > summarising.through
        BY <3>2 DEF MemoryIInv, ForgetsAsItCondenses
      <4>2. n > summarising.through
        BY <1>1, <1>13, <4>1
      <4> QED BY <1>3, <1>13, <1>16, <4>1, <4>2 DEF ForgetsAsItCondenses
    <3> QED BY <3>1, <3>2
  <2> QED BY <1>7, <1>8, <1>9, <1>10, <1>11, <1>12, <1>14, <1>15, <2>1, <2>2, <2>3 DEF MemoryIInv
<1>17. CASE summarising' = [NoSummariser EXCEPT !.at = "scheduled", !.scope = question[a].scope]
  <2>1. question[a].scope \subseteq Channels
    BY <1>4 DEF Question
  <2>2. summarising' = [at |-> "scheduled", scope |-> question[a].scope, of |-> {}, through |-> 0]
    BY <1>17 DEF NoSummariser
  <2>3. SummariserTypes' /\ SummariserStands' /\ ForgetsAsItCondenses'
    BY <2>1, <2>2 DEF SummariserTypes, SummariserStands, ForgetsAsItCondenses
  <2> QED BY <1>7, <1>8, <1>9, <1>10, <1>11, <1>12, <1>14, <1>15, <2>3 DEF MemoryIInv
<1> QED BY <1>3, <1>16, <1>17

(* The summariser alone moves.                                              *)
LEMMA OnlyTheSummariser ==
    ASSUME MemoryIInv, UNCHANGED <<readable, memoryOut, stored, summaries, nextTurn, asideVars>>,
           question' = question, SummariserTypes', SummariserStands', ForgetsAsItCondenses'
    PROVE  MemoryIInv'
<1>1. MemoryRows' /\ RestsStand' /\ StoredStand' /\ SummariesStand' /\ TurnsKept
  BY RowsKept
<1>2. ASSUME NEW b \in Asks PROVE QuestionStands(b)'
  <2>1. QuestionStands(b) /\ RestsStand
    BY DEF MemoryIInv
  <2>2. question[b].at = "writing" =>
           question[b].id \notin stored' \cup forgotten' /\ question[b].id > horizon'
    BY <2>1 DEF QuestionStands, asideVars
  <2> QED BY <1>1, <2>1, <2>2, QuestionKept
<1>3. Question' = Question /\ Writing' = Writing /\ InProgress' = InProgress /\ Waiting' = Waiting
  BY DEF Question, Writing, InProgress, Waiting
<1>4. TurnsDiffer' /\ RoomIsLeft'
  BY <1>3 DEF MemoryIInv, TurnsDiffer, RoomIsLeft
<1> QED BY <1>1, <1>2, <1>3, <1>4 DEF MemoryIInv

LEMMA SummariserIsIdle ==
    ASSUME MemoryIInv, UNCHANGED <<readable, memoryOut, stored, summaries, nextTurn, asideVars>>,
           question' = question, summarising' = NoSummariser
    PROVE  MemoryIInv'
<1>1. SummariserTypes' /\ SummariserStands' /\ ForgetsAsItCondenses'
  BY MemoryNumbers DEF SummariserTypes, SummariserStands, ForgetsAsItCondenses, NoSummariser
<1> QED BY <1>1, OnlyTheSummariser

LEMMA SummariserFailsStep == ASSUME MemoryIInv, SummariserFails PROVE MemoryIInv'
BY SummariserIsIdle DEF SummariserFails

LEMMA NewestAreFew ==
    ASSUME NEW S \in SUBSET TurnIds, NEW n \in Nat
    PROVE  /\ Newest(S, n) \subseteq S /\ IsFiniteSet(Newest(S, n))
           /\ Cardinality(Newest(S, n)) <= n
<1> USE MemoryNumbers
<1>1. PICK N : N = Newest(S, n)
  OBVIOUS
<1>2. N \in SUBSET S /\ \A i \in N : Cardinality({j \in S : j > i}) < n
  BY <1>1 DEF Newest
<1>3. IsFiniteSet(S)
  <2>1. IsFiniteSet(1..MaxTurns)
    BY FS_Interval
  <2> QED BY <2>1, FS_Subset
<1>4. IsFiniteSet(N)
  BY <1>2, <1>3, FS_Subset
<1>5. CASE N = {}
  BY <1>1, <1>2, <1>4, <1>5, FS_EmptySet
<1>6. CASE N # {}
  <2>1. PICK m \in N : \A y \in N : m <= y
    <3>1. N \in SUBSET Nat
      BY <1>2
    <3> QED BY <1>6, <3>1, LeastStands
  <2>2. PICK B : B = {j \in S : j > m}
    OBVIOUS
  <2>3. B \in SUBSET S /\ Cardinality(B) < n
    BY <1>2, <2>1, <2>2
  <2>4. N \ {m} \in SUBSET B
    BY <1>2, <2>1, <2>2
  <2>5. IsFiniteSet(B) /\ Cardinality(B) \in Nat
    BY <1>3, <2>3, FS_Subset, FS_CardinalityType
  <2>6. Cardinality(N \ {m}) <= Cardinality(B)
    BY <2>4, <2>5, FS_Subset
  <2>7. Cardinality(N \ {m}) = Cardinality(N) - 1 /\ Cardinality(N) \in Nat
    BY <1>4, <2>1, FS_RemoveElement, FS_CardinalityType
  <2>8. Cardinality(N) <= n
    BY <2>3, <2>5, <2>6, <2>7
  <2> QED BY <1>1, <1>2, <1>4, <2>8
<1> QED BY <1>5, <1>6

LEMMA SummariserRecallsStep == ASSUME MemoryIInv, SummariserRecalls PROVE MemoryIInv'
<1> USE MemoryNumbers
<1>1. PICK scope : scope = summarising.scope
  OBVIOUS
<1>2. PICK recalled : recalled = RecalledTurns(scope, 2 * SummariseAfter)
  OBVIOUS
<1>3. PICK older : older = recalled \ Newest(recalled, RecentTurns)
  OBVIOUS
<1>4. PICK S : S = RecalledSummaries(scope)
  OBVIOUS
<1>5. /\ UNCHANGED <<readable, memoryOut, stored, summaries, nextTurn, asideVars>>
      /\ question' = question
      /\ summarising' =
            IF Cardinality(recalled) <= SummariseAfter THEN NoSummariser
            ELSE [summarising EXCEPT !.at = "condensing", !.of = older \cup Condensed(S),
                                     !.through = Max(older)]
  BY <1>1, <1>2, <1>3, <1>4 DEF SummariserRecalls
<1>6. CASE Cardinality(recalled) <= SummariseAfter
  BY <1>5, <1>6, SummariserIsIdle
<1>7. CASE ~(Cardinality(recalled) <= SummariseAfter)
  <2>1. scope \subseteq Channels /\ SummariserTypes /\ StoredStand /\ SummariesStand
    BY <1>1 DEF MemoryIInv, SummariserTypes
  <2>2. /\ recalled \subseteq {i \in stored : channelIds[i] \subseteq scope}
        /\ S \in SUBSET {s \in summaries : s.ids \subseteq scope}
    BY <1>2, <1>4, RecalledAre
  <2>3. recalled \in SUBSET TurnIds /\ stored \subseteq TurnIds
    BY <2>1, <2>2 DEF StoredStand, Begun
  <2>4. IsFiniteSet(recalled) /\ Cardinality(recalled) \in Nat
    <3>1. IsFiniteSet(1..MaxTurns)
      BY FS_Interval
    <3> QED BY <2>3, <3>1, FS_Subset, FS_CardinalityType
  <2>5. older # {} /\ older \subseteq recalled
    <3>1. /\ Newest(recalled, RecentTurns) \subseteq recalled
          /\ IsFiniteSet(Newest(recalled, RecentTurns))
          /\ Cardinality(Newest(recalled, RecentTurns)) <= RecentTurns
      BY <2>3, NewestAreFew
    <3>2. Cardinality(Newest(recalled, RecentTurns)) \in Nat
      BY <3>1, FS_CardinalityType
    <3>3. Cardinality(Newest(recalled, RecentTurns)) # Cardinality(recalled)
      BY <1>7, <2>4, <3>1, <3>2
    <3>4. Newest(recalled, RecentTurns) # recalled
      BY <3>3
    <3> QED BY <1>3, <3>1, <3>4
  <2>6. Max(older) \in older /\ \A y \in older : Max(older) >= y
    <3>1. older \in SUBSET (0..MaxTurns) /\ MaxTurns \in Nat
      BY <2>3, <2>5
    <3> QED BY <2>5, <3>1, GreatestStands
  <2>7. PICK m : m = Max(older)
    OBVIOUS
  <2>8. older \in SUBSET {i \in stored : channelIds[i] \subseteq scope}
    BY <2>2, <2>5
  <2>9. /\ Inherited(older, S) \subseteq scope /\ older \cup Condensed(S) \subseteq Begun
        /\ \A j \in Restated(older \cup Condensed(S)) \ lost : drew[j] \subseteq Inherited(older, S)
    BY <2>1, <2>2, <2>8, RemindingIsAccountedFor
  <2>10. summarising' = [at |-> "condensing", scope |-> scope, of |-> older \cup Condensed(S),
                         through |-> m]
    BY <1>1, <1>5, <1>7, <2>1, <2>7 DEF SummariserTypes
  <2>11. Begun' = Begun /\ m \in Begun /\ Begun \subseteq TurnIds
    BY <1>5, <2>6, <2>7, <2>9 DEF Begun
  <2>12. SummariserTypes'
    <3>1. m \in 0..MaxTurns /\ older \cup Condensed(S) \in SUBSET TurnIds
      BY <2>9, <2>11
    <3> QED BY <2>1, <2>10, <2>11, <3>1 DEF SummariserTypes
  <2>13. ASSUME NEW i \in older \cup Condensed(S)
         PROVE  /\ Held(i, scope)
                /\ i \in Condensed(summaries) \/ (i \in stored /\ i <= m)
    <3>1. Held(i, scope)
      BY <2>9 DEF Held, Restated
    <3>2. CASE i \in older
      BY <2>6, <2>7, <2>8, <3>1, <3>2
    <3>3. CASE i \in Condensed(S)
      <4>1. PICK s \in S : i \in s.of
        BY <3>3 DEF Condensed
      <4>2. i \in Condensed(summaries)
        BY <2>2, <4>1 DEF Condensed
      <4> QED BY <3>1, <4>2
    <3> QED BY <3>2, <3>3
  <2>14. SummariserStands'
    <3>1. ASSUME NEW i \in older \cup Condensed(S) PROVE Held(i, scope)'
      BY <1>5, <2>13 DEF Held, asideVars
    <3>2. Condensed(summaries)' = Condensed(summaries) /\ stored' = stored
      BY <1>5 DEF Condensed
    <3>3. /\ summarising'.of = older \cup Condensed(S) /\ summarising'.scope = scope
          /\ summarising'.through = m
      BY <2>10
    <3>4. \A i \in summarising'.of : Held(i, summarising.scope)'
      BY <3>1, <3>3 DEF Held
    <3> QED BY <2>9, <2>11, <2>13, <3>2, <3>3, <3>4 DEF SummariserStands
  <2>15. ForgetsAsItCondenses'
    <3>1. (older \cup Condensed(S)) \cap forgotten = {}
      BY <2>1, <2>2, <2>8 DEF StoredStand, SummariesStand, Condensed
    <3>2. forgotten' = forgotten
      BY <1>5 DEF asideVars
    <3> QED BY <2>10, <3>1, <3>2 DEF ForgetsAsItCondenses
  <2> QED BY <1>5, <2>12, <2>14, <2>15, OnlyTheSummariser
<1> QED BY <1>6, <1>7

(* Turns and summaries go, and the rest is as it was.                       *)
LEMMA QuestionsOutlive ==
    ASSUME MemoryIInv, TurnsKept, question' = question, nextTurn' = nextTurn,
           stored' \subseteq stored,
           \A a \in Writing : question[a].id \notin forgotten' /\ question[a].id > horizon'
    PROVE  /\ question' \in [Asks -> Question'] /\ \A a \in Asks : QuestionStands(a)'
           /\ TurnsDiffer' /\ RoomIsLeft' /\ Writing' = Writing
<1>1. Question' = Question /\ Writing' = Writing /\ InProgress' = InProgress /\ Waiting' = Waiting
  BY DEF Question, Writing, InProgress, Waiting
<1>2. TurnsDiffer' /\ RoomIsLeft'
  BY <1>1 DEF MemoryIInv, TurnsDiffer, RoomIsLeft
<1>3. ASSUME NEW a \in Asks PROVE QuestionStands(a)'
  <2>1. QuestionStands(a) /\ RestsStand
    BY DEF MemoryIInv
  <2>2. question[a].at = "writing" =>
           question[a].id \notin stored' \cup forgotten' /\ question[a].id > horizon'
    BY <2>1 DEF QuestionStands, Writing
  <2> QED BY <2>1, <2>2, QuestionKept
<1> QED BY <1>1, <1>2, <1>3 DEF MemoryIInv

LEMMA ReplacementStands ==
    ASSUME MemoryIInv, summarising.at = "condensing",
           NEW T, T = ReplacedTurns, WorthWriting(T, summaries),
           NEW r, r = Replacement(T, summaries)
    PROVE  /\ r \in Summary /\ r.of \subseteq Begun /\ r.of \cap forgotten = {}
           /\ \A i \in r.of \ lost : i > horizon /\ i >= r.starts
           /\ \A i \in r.of : Held(i, r.ids)
<1> USE MemoryNumbers
<1>0. /\ StoredStand /\ SummariesStand /\ SummariserTypes /\ SummariserStands /\ RestsStand
      /\ MemoryRows /\ ForgetsAsItCondenses
  BY DEF MemoryIInv
<1>1. T = {i \in stored : i <= summarising.through} /\ T \subseteq TurnIds
  BY <1>0 DEF ReplacedTurns, StoredStand, Begun
<1>2. PICK m : m = summarising.through
  OBVIOUS
<1>3. m \in TurnIds /\ summarising.of \subseteq Begun /\ Begun \subseteq TurnIds
  BY <1>0, <1>2 DEF SummariserTypes, SummariserStands, Begun
<1>4. PICK U : U = T \cup {s.starts : s \in summaries} \cup {m}
  OBVIOUS
<1>5. U \in SUBSET Nat /\ U \subseteq TurnIds /\ U # {}
  <2>1. \A s \in summaries : s.starts \in TurnIds
    BY <1>0 DEF SummariesStand, Summary
  <2> QED BY <1>1, <1>3, <1>4, <2>1
<1>6. Min(U) \in U /\ \A y \in U : Min(U) <= y
  BY <1>5, LeastStands
<1>7. PICK X : X = Inherited(T, summaries)
  OBVIOUS
<1>8. r = [ids |-> X, through |-> m, starts |-> Min(U), of |-> summarising.of]
  BY <1>2, <1>4, <1>7 DEF Replacement
<1>9. X \subseteq Channels
  <2>1. \A i \in T : channelIds[i] \subseteq Channels
    BY <1>0, <1>1 DEF MemoryRows
  <2>2. \A s \in summaries : s.ids \subseteq Channels
    BY <1>0 DEF SummariesStand, Summary
  <2> QED BY <1>7, <2>1, <2>2, InheritedAre
<1>10. r \in Summary /\ r.of \subseteq Begun
  <2>1. Min(U) \in TurnIds /\ summarising.of \in SUBSET TurnIds
    BY <1>3, <1>5, <1>6
  <2> QED BY <1>3, <1>8, <1>9, <2>1 DEF Summary
<1>11. r.of \cap forgotten = {}
  <2>1. ~(summaries = {} /\ T = {})
    BY DEF WorthWriting
  <2>2. ~(summaries = {} /\ \A i \in stored : i > summarising.through)
    <3>1. SUFFICES ASSUME \A i \in stored : i > summarising.through PROVE T = {}
      BY <2>1
    <3> QED BY <1>0, <1>1, <1>2, <1>3, <3>1 DEF StoredStand
  <2> QED BY <1>0, <1>8, <2>2 DEF ForgetsAsItCondenses
<1>12. ASSUME NEW i \in summarising.of
       PROVE  \/ rests[i] \subseteq lost
              \/ i \in T
              \/ \E s \in summaries : i \in s.of
  BY <1>0, <1>1 DEF SummariserStands, Condensed
<1>13. ASSUME NEW i \in summarising.of, i \notin lost PROVE i > horizon /\ i >= Min(U)
  <2>1. i \in rests[i]
    BY <1>3 , <1>0 DEF RestsStand
  <2>2. CASE i \in T
    <3>1. i >= Min(U)
      BY <1>4, <1>5, <1>6, <2>2
    <3> QED BY <1>0, <1>1, <2>2, <3>1 DEF StoredStand
  <2>3. ASSUME NEW s \in summaries, i \in s.of PROVE i > horizon /\ i >= Min(U)
    <3>1. i > horizon /\ i >= s.starts
      BY <1>0, <1>13, <2>3 DEF SummariesStand
    <3>2. s.starts \in U
      BY <1>4
    <3>3. s.starts \in Nat /\ Min(U) \in Nat /\ i \in Nat
      <4>1. s.starts \in Nat /\ Min(U) \in Nat
        BY <1>5, <1>6, <3>2
      <4>2. i \in TurnIds
        BY <1>3
      <4> QED BY <4>1, <4>2
    <3>4. Min(U) <= s.starts
      BY <1>6, <3>2
    <3> QED BY <3>1, <3>3, <3>4
  <2> QED BY <1>12, <1>13, <2>1, <2>2, <2>3
<1>14. ASSUME NEW i \in summarising.of PROVE Held(i, X)
  <2>1. CASE rests[i] \subseteq lost
    BY <2>1 DEF Held
  <2>2. CASE i \in T
    <3>1. Held(i, channelIds[i])
      BY <1>0, <1>1, <2>2 DEF StoredStand
    <3>2. channelIds[i] \subseteq X
      BY <1>7, <2>2, InheritedAre
    <3> QED BY <3>1, <3>2 DEF Held
  <2>3. ASSUME NEW s \in summaries, i \in s.of PROVE Held(i, X)
    <3>1. Held(i, s.ids)
      BY <1>0, <2>3 DEF SummariesStand
    <3>2. s.ids \subseteq X
      BY <1>7, InheritedAre
    <3> QED BY <3>1, <3>2 DEF Held
  <2> QED BY <1>12, <2>1, <2>2, <2>3
<1> QED BY <1>8, <1>10, <1>11, <1>13, <1>14

LEMMA SummariserReplacesStep == ASSUME MemoryIInv, SummariserReplaces PROVE MemoryIInv'
<1> USE MemoryNumbers
<1>1. /\ summarising.at = "condensing" /\ summarising' = NoSummariser /\ question' = question
      /\ UNCHANGED <<readable, memoryOut, nextTurn, asideVars>>
  BY DEF SummariserReplaces
<1>2. CASE ~Guarded
  <2>1. UNCHANGED <<stored, summaries>>
    BY <1>2 DEF SummariserReplaces
  <2> QED BY <1>1, <2>1, SummariserIsIdle
<1>3. CASE Guarded
  <2>1. PICK T : T = ReplacedTurns
    OBVIOUS
  <2>2. PICK r : r = Replacement(T, summaries)
    OBVIOUS
  <2>3. /\ stored' = stored \ T
        /\ \/ summaries' = {}
           \/ summaries' = {r} /\ WorthWriting(T, summaries)
    BY <1>3, <2>1, <2>2 DEF SummariserReplaces
  <2>4. Begun' = Begun /\ TurnsKept /\ RestsStand /\ MemoryRows /\ StoredStand
    BY <1>1 DEF TurnsKept, Begun, asideVars, MemoryIInv
  <2>5. MemoryRows' /\ RestsStand'
    BY <1>1, <2>4 DEF MemoryRows, RestsStand, asideVars
  <2>6. StoredStand'
    <3>1. stored' \subseteq stored
      BY <2>3
    <3>2. \A i \in stored' : channelIds'[i] = channelIds[i] /\ i > horizon' /\ i \notin forgotten'
      BY <1>1, <2>4, <3>1 DEF asideVars, StoredStand
    <3> QED BY <2>4, <3>1, <3>2, StoredKept
  <2>7. SummariesStand'
    <3>1. CASE summaries' = {}
      BY <3>1 DEF SummariesStand
    <3>2. CASE summaries' = {r} /\ WorthWriting(T, summaries)
      <4>1. /\ r \in Summary /\ r.of \subseteq Begun /\ r.of \cap forgotten = {}
            /\ \A i \in r.of \ lost : i > horizon /\ i >= r.starts
            /\ \A i \in r.of : Held(i, r.ids)
        BY <1>1, <2>1, <2>2, <3>2, ReplacementStands
      <4>2. Summary' = Summary /\ forgotten' = forgotten /\ horizon' = horizon /\ lost' = lost
        BY <1>1 DEF Summary, asideVars
      <4>3. \A i \in r.of : Held(i, r.ids)'
        BY <1>1, <4>1 DEF Held, asideVars
      <4> QED BY <2>4, <3>2, <4>1, <4>2, <4>3 DEF SummariesStand
    <3> QED BY <2>3, <3>1, <3>2
  <2>8. /\ question' \in [Asks -> Question'] /\ \A a \in Asks : QuestionStands(a)'
        /\ TurnsDiffer' /\ RoomIsLeft' /\ Writing' = Writing
    <3>1. \A a \in Writing : question[a].id \notin forgotten' /\ question[a].id > horizon'
      BY <1>1 DEF asideVars, MemoryIInv, QuestionStands, Writing
    <3>2. stored' \subseteq stored /\ nextTurn' = nextTurn
      BY <1>1, <2>3
    <3> QED BY <1>1, <2>4, <3>1, <3>2, QuestionsOutlive
  <2>9. SummariserTypes' /\ SummariserStands' /\ ForgetsAsItCondenses'
    BY <1>1 DEF SummariserTypes, SummariserStands, ForgetsAsItCondenses, NoSummariser
  <2> QED BY <2>5, <2>6, <2>7, <2>8, <2>9 DEF MemoryIInv
<1> QED BY <1>2, <1>3

(* Deletions: what is taken from under the summariser is lost, and what is  *)
(* left stands.                                                             *)
LEMMA DeletedStep ==
    ASSUME MemoryIInv, NEW T \in SUBSET stored, NEW S \in SUBSET summaries, Deleted(T, S),
           UNCHANGED <<readable, question, summarising, nextTurn, channelIds, drew, rests>>,
           memoryOut' \in BOOLEAN, horizon' \in 0..MaxTurns, horizon' < nextTurn,
           forgotten' \subseteq Begun, forgotten \subseteq forgotten',
           \A i \in stored \ T : i > horizon' /\ i \notin forgotten',
           \A s \in summaries \ S : /\ s.of \cap forgotten' = {}
                                    /\ horizon' = horizon \/ s.starts > horizon',
           \A a \in Writing : question[a].id \notin forgotten' /\ question[a].id > horizon',
           forgotten' = forgotten \/ (stored' = {} /\ summaries' = {} /\ Writing = {})
    PROVE  MemoryIInv'
<1> USE MemoryNumbers
<1>1. /\ stored' = stored \ T /\ summaries' = summaries \ S
      /\ lost' = lost \cup Restated((T \cup Condensed(S)) \cap summarising.of)
  BY DEF Deleted
<1>2. Begun' = Begun /\ TurnsKept
  BY <1>1 DEF Begun, TurnsKept
<1>3. MemoryRows' /\ RestsStand'
  <2>1. RestsStand'
    BY <1>2 DEF RestsStand, MemoryIInv
  <2> QED BY <1>2, <2>1 DEF MemoryRows, MemoryIInv
<1>4. StoredStand'
  BY <1>1, <1>2, StoredKept
<1>5. SummariesStand'
  <2>1. horizon' \in Int /\ summaries' \subseteq summaries
    BY <1>1
  <2>2. \A s \in summaries' : s.of \cap forgotten' = {} /\ (horizon' = horizon \/ s.starts > horizon')
    BY <1>1
  <2> QED BY <1>2, <2>1, <2>2, SummariesKept
<1>6. /\ question' \in [Asks -> Question'] /\ \A a \in Asks : QuestionStands(a)'
      /\ TurnsDiffer' /\ RoomIsLeft' /\ Writing' = Writing
  <2>1. stored' \subseteq stored
    BY <1>1
  <2> QED BY <1>2, <2>1, QuestionsOutlive
<1>7. SummariserTypes'
  BY <1>2 DEF SummariserTypes, MemoryIInv
<1>8. SummariserStands'
  <2>1. SummariserStands /\ RestsStand
    BY DEF MemoryIInv
  <2>2. ASSUME NEW i \in summarising.of
        PROVE  /\ i \in Begun' /\ Held(i, summarising.scope)'
               /\ \/ rests'[i] \subseteq lost' \/ i \in Condensed(summaries)'
                  \/ i \in stored' /\ i <= summarising.through
    <3>1. /\ i \in Begun /\ Held(i, summarising.scope)
          /\ \/ rests[i] \subseteq lost \/ i \in Condensed(summaries)
             \/ i \in stored /\ i <= summarising.through
      BY <2>1 DEF SummariserStands
    <3>2. Held(i, summarising.scope)'
      <4>1. PICK X : X = summarising.scope
        OBVIOUS
      <4>2. Held(i, X)
        BY <3>1, <4>1
      <4>3. Held(i, X)'
        BY <1>2, <2>1, <3>1, <4>2, HeldKept
      <4> QED BY <4>1, <4>3 DEF Held
    <3>3. i \in T \cup Condensed(S) => rests[i] \subseteq lost'
      <4>1. SUFFICES ASSUME i \in T \cup Condensed(S), NEW j \in rests[i] PROVE j \in lost'
        OBVIOUS
      <4>2. i \in (T \cup Condensed(S)) \cap summarising.of
        BY <4>1
      <4>3. j \in Restated((T \cup Condensed(S)) \cap summarising.of)
        BY <4>1, <4>2 DEF Restated
      <4> QED BY <1>1, <4>3
    <3>4. i \in Condensed(summaries) => i \in Condensed(S) \/ i \in Condensed(summaries)'
      BY <1>1 DEF Condensed
    <3>5. i \in stored => i \in T \/ i \in stored'
      BY <1>1
    <3>6. rests'[i] = rests[i] /\ lost \subseteq lost'
      BY <1>1
    <3> QED BY <1>2, <3>1, <3>2, <3>3, <3>4, <3>5, <3>6
  <2> QED BY <2>2 DEF SummariserStands
<1>9. ForgetsAsItCondenses'
  <2>1. CASE forgotten' = forgotten
    BY <1>1, <1>6, <2>1 DEF ForgetsAsItCondenses, MemoryIInv
  <2>2. CASE stored' = {} /\ summaries' = {} /\ Writing = {}
    BY <1>6, <2>2 DEF ForgetsAsItCondenses
  <2> QED BY <2>1, <2>2
<1> QED BY <1>3, <1>4, <1>5, <1>6, <1>7, <1>8, <1>9 DEF MemoryIInv

LEMMA ForgotAllStep ==
    ASSUME MemoryIInv, ForgotAll,
           UNCHANGED <<readable, question, summarising, nextTurn, channelIds, drew, rests, horizon>>,
           memoryOut' \in BOOLEAN
    PROVE  MemoryIInv'
<1> USE MemoryNumbers
<1>1. Deleted(stored, summaries) /\ stored' = {} /\ summaries' = {}
  BY DEF ForgotAll, Deleted
<1>2. MemoryRows /\ StoredStand /\ SummariesStand /\ \A a \in Asks : QuestionStands(a)
  BY DEF MemoryIInv
<1>3. horizon' \in 0..MaxTurns /\ horizon' < nextTurn /\ horizon' = horizon
  BY <1>2 DEF MemoryRows
<1>4. \A a \in Writing : question[a].id \notin forgotten /\ question[a].id > horizon
  BY <1>2 DEF QuestionStands, Writing
<1>5. \/ forgotten' = forgotten
      \/ Writing = {} /\ forgotten' = forgotten \cup stored \cup Condensed(summaries)
  BY DEF ForgotAll
<1>6. Condensed(summaries) \subseteq Begun
  BY <1>2 DEF SummariesStand, Condensed
<1>7. forgotten' \subseteq Begun /\ forgotten \subseteq forgotten'
  BY <1>2, <1>5, <1>6 DEF MemoryRows, StoredStand
<1>8. \A a \in Writing : question[a].id \notin forgotten' /\ question[a].id > horizon'
  BY <1>3, <1>4, <1>5
<1>9. forgotten' = forgotten \/ (stored' = {} /\ summaries' = {} /\ Writing = {})
  BY <1>1, <1>5
<1> QED BY <1>1, <1>3, <1>7, <1>8, <1>9, DeletedStep

LEMMA ForgetStep == ASSUME MemoryIInv, Forget PROVE MemoryIInv'
<1>1. memoryOut' \in BOOLEAN
  BY DEF Forget, MemoryIInv, MemoryRows
<1> QED BY <1>1, ForgotAllStep DEF Forget

LEMMA OptOutStep == ASSUME MemoryIInv, OptOut PROVE MemoryIInv'
<1>1. memoryOut' \in BOOLEAN
  BY Zenon DEF OptOut
<1> QED BY <1>1, ForgotAllStep DEF OptOut

LEMMA PurgeStep == ASSUME MemoryIInv, NEW h \in TurnIds, Purge(h) PROVE MemoryIInv'
<1> USE MemoryNumbers
<1>1. PICK T : T = ExpiredTurns(h)
  OBVIOUS
<1>2. PICK S : S = ExpiredSummaries(h)
  OBVIOUS
<1>3. /\ Deleted(T, S) /\ forgotten' = forgotten /\ memoryOut' = memoryOut
      /\ UNCHANGED <<readable, question, summarising, nextTurn, channelIds, drew, rests>>
      /\ h > horizon /\ h < nextTurn /\ horizon' = h /\ \A a \in Writing : h < question[a].id
  BY <1>1, <1>2 DEF Purge
<1>4. MemoryRows /\ StoredStand /\ SummariesStand /\ \A a \in Asks : QuestionStands(a)
  BY DEF MemoryIInv
<1>5. T \in SUBSET stored /\ S \in SUBSET summaries
  BY <1>1, <1>2 DEF ExpiredTurns, ExpiredSummaries
<1>6. /\ memoryOut' \in BOOLEAN /\ forgotten' \subseteq Begun /\ forgotten \subseteq forgotten'
      /\ forgotten' = forgotten \/ (stored' = {} /\ summaries' = {} /\ Writing = {})
  BY <1>3, <1>4 DEF MemoryRows
<1>7. horizon' \in 0..MaxTurns /\ horizon' < nextTurn
  BY <1>3
<1>8. \A i \in stored \ T : i > horizon' /\ i \notin forgotten'
  <2>1. ASSUME NEW i \in stored \ T PROVE i > horizon' /\ i \notin forgotten'
    <3>1. i \in TurnIds /\ i \notin forgotten
      BY <1>4 DEF StoredStand, Begun
    <3>2. ~(i <= h)
      BY <1>1, <2>1 DEF ExpiredTurns
    <3> QED BY <1>3, <3>1, <3>2
  <2> QED BY <2>1
<1>9. ASSUME NEW s \in summaries \ S
      PROVE  s.of \cap forgotten' = {} /\ (horizon' = horizon \/ s.starts > horizon')
  <2>1. s.of \cap forgotten = {} /\ s.starts \in TurnIds
    BY <1>4 DEF SummariesStand, Summary
  <2>2. ~(s.starts <= h)
    BY <1>2, <1>9 DEF ExpiredSummaries
  <2> QED BY <1>3, <2>1, <2>2
<1>10. ASSUME NEW a \in Writing PROVE question[a].id \notin forgotten' /\ question[a].id > horizon'
  <2>1. question[a].id \notin forgotten /\ question[a].id \in TurnIds
    BY <1>4 DEF QuestionStands, Writing, Begun
  <2>2. h < question[a].id
    BY <1>3
  <2> QED BY <1>3, <2>1, <2>2
<1> QED BY <1>3, <1>5, <1>6, <1>7, <1>8, <1>9, <1>10, DeletedStep

(* What a person may read or has chosen says nothing of what is stored.     *)
LEMMA AsideStep ==
    ASSUME MemoryIInv, readable' \subseteq Channels, memoryOut' \in BOOLEAN,
           UNCHANGED <<stored, summaries, question, summarising, nextTurn, asideVars>>
    PROVE  MemoryIInv'
<1>1. Begun' = Begun /\ Question' = Question /\ Writing' = Writing /\ Waiting' = Waiting
      /\ InProgress' = InProgress
  BY DEF Begun, Question, Writing, Waiting, InProgress
<1>2. MemoryRows' /\ RestsStand' /\ StoredStand' /\ SummariesStand'
  BY <1>1 DEF MemoryIInv, MemoryRows, RestsStand, StoredStand, SummariesStand, Held, asideVars
<1>3. question' \in [Asks -> Question'] /\ \A a \in Asks : QuestionStands(a)'
  BY <1>1 DEF MemoryIInv, QuestionStands, Held, asideVars
<1>4. TurnsDiffer' /\ RoomIsLeft'
  BY <1>1 DEF MemoryIInv, TurnsDiffer, RoomIsLeft
<1>5. SummariserTypes' /\ SummariserStands' /\ ForgetsAsItCondenses'
  BY <1>1 DEF MemoryIInv, SummariserTypes, SummariserStands, ForgetsAsItCondenses, Held, Condensed,
              asideVars
<1> QED BY <1>2, <1>3, <1>4, <1>5 DEF MemoryIInv

LEMMA MemoryStep == MemoryIInv /\ [MemoryNext]_memoryVars => MemoryIInv'
<1> SUFFICES ASSUME MemoryIInv, [MemoryNext]_memoryVars PROVE MemoryIInv'
  OBVIOUS
<1>0. MemoryRows
  BY DEF MemoryIInv
<1>1. ASSUME NEW a \in Asks, AskStep(a) PROVE MemoryIInv'
  BY <1>1, AskBeginsStep, AskRecallsStep, AskStoresStep, AskCommitsStep, AskUnstoredStep DEF AskStep
<1>2. CASE OptIn
  <2>1. readable' \subseteq Channels /\ memoryOut' \in BOOLEAN
    BY <1>0, <1>2, Zenon DEF OptIn, MemoryRows
  <2> QED BY <1>2, <2>1, AsideStep DEF OptIn
<1>3. ASSUME NEW C \in SUBSET Channels, AccessChanges(C) PROVE MemoryIInv'
  <2>1. readable' \subseteq Channels /\ memoryOut' \in BOOLEAN
    BY <1>0, <1>3 DEF AccessChanges, MemoryRows
  <2> QED BY <1>3, <2>1, AsideStep DEF AccessChanges
<1>4. CASE UNCHANGED memoryVars
  <2>1. readable' \subseteq Channels /\ memoryOut' \in BOOLEAN
    BY <1>0, <1>4 DEF memoryVars, MemoryRows
  <2> QED BY <1>4, <2>1, AsideStep DEF memoryVars, asideVars
<1> QED BY <1>1, <1>2, <1>3, <1>4, SummariserRecallsStep, SummariserFailsStep,
           SummariserReplacesStep, ForgetStep, OptOutStep, PurgeStep DEF MemoryNext

(* For any channels, questions at once and bounds: every channel whose      *)
(* content a stored turn or a summary may restate is among those it is      *)
(* withheld by; no model is shown what its scope does not allow, however    *)
(* access moves; and a summary brings back neither what was forgotten nor   *)
(* what retention expired while it was written (ConversationMemory,         *)
(* REPLACE_WITH_SUMMARY, the purges).                                       *)
THEOREM MemoryIsAccountedFor == MemorySpec => [](MemoryTypeOK /\ MemoryInv)
BY MemoryMeans, MemoryInitially, MemoryStep, PTL DEF MemorySpec

-----------------------------------------------------------------------------
(* A question's run                                                         *)

Searches == {"fixed", "loop", "escalated"}
Causes == {"sufficient", "exhausted", "no_progress", "empty"}

RunType == [held : SUBSET (Windows \cup {Outside}), noted : SUBSET [text : Texts, limit : 0..Widest],
            attempts : Nat, late : BOOLEAN, lines : Seq(Texts), planned : Nat,
            query : [text : Texts, limit : 0..Widest], rounds : Nat,
            results : Seq([cause : Causes, abstained : BOOLEAN]), searched : BOOLEAN]

Stages == {"asked", "offering", "proposing", "calling", "planning", "searching", "judging",
           "writing", "answered"}
Paths == {"none", "fixed", "loop", "escalated", "external"}

RunTypes ==
    /\ stage \in Stages /\ path \in Paths /\ federated \in BOOLEAN
    /\ run \in RunType /\ Len(run.lines) = run.planned /\ run.attempts <= Budget

(* What each stage finds: nothing is held before the plan, and there is a   *)
(* line to run wherever one is run.                                         *)
RunStands ==
    /\ stage = "asked" => path = "none"
    /\ stage \in {"offering", "proposing", "calling"} =>
          /\ path \in {"escalated", "external"} /\ run.held = {}
          /\ run.results = <<>> /\ run.planned = 0
    /\ stage = "planning" => path \in {"loop", "escalated"} /\ run.results = <<>>
    /\ (path = "external" /\ stage # "answered") => run.results = <<>> /\ run.planned = 0
    /\ stage \in {"searching", "judging"} => path \in Searches /\ Len(run.results) < run.planned
    /\ stage = "writing" => path \in Searches \cup {"external"} /\ Len(run.results) <= run.planned

(* What a run can come to: an answer with citations, partial unless every   *)
(* line found enough; an abstention; a search that failed.                  *)
Found(o) ==
    /\ o.status = "answered" /\ o.text = "found" /\ o.cited # {} /\ o.cited \subseteq o.held
    /\ ~o.partial => o.cause = "sufficient" /\ o.lines = o.planned
Comes(o, p) ==
    \/ Found(o)
    \/ o.status = "abstained" /\ o.text = IF p = "external" THEN "nothing outside" ELSE "nothing found"
    \/ o.status = "failed" /\ o.text = "search failed"

SentStands ==
    \A s \in sent : /\ s.held = {} /\ s.path \in {"escalated", "external"}
                    /\ s.path = "escalated" => path = "escalated"

CorpusStands ==
    /\ path = "escalated" => Comes(corpus, "loop") /\ FallsShort(corpus)
    /\ (path # "escalated" /\ stage # "answered") => corpus = NoOutcome
    /\ path \in {"none", "external"} => corpus = NoOutcome

(* The second run's answer replaces the first's only where it improves.     *)
ReplyStands ==
    /\ stage # "answered" => reply = NoOutcome
    /\ stage = "answered" =>
          \/ reply = [NoOutcome EXCEPT !.status = "raised"] /\ corpus.status # "failed"
          \/ path = "none" /\ reply = Refused
          \/ path \in {"fixed", "loop"} /\ reply = corpus /\ Comes(corpus, path)
          \/ path = "escalated" /\ reply = corpus
          \/ path = "escalated" /\ Found(reply) /\ ImprovesOn(corpus, reply)
          \/ path = "external" /\ Comes(reply, path)

ReasoningIInv == RunTypes /\ RunStands /\ SentStands /\ CorpusStands /\ ReplyStands

LEMMA ReasoningNumbers ==
    /\ Asked \in Texts /\ MaxLines \in Nat \ {0} /\ FixedAttempts \in Nat \ {0}
    /\ LoopAttempts \in Nat \ {0} /\ Widest \in Nat /\ Budget \in Nat \ {0}
<1>1. {MaxLines, FixedAttempts, LoopAttempts} \subseteq Nat \ {0} /\ Asked \in Texts /\ Widest \in Nat
  BY ReasoningAssumption
<1> QED BY <1>1 DEF Budget

LEMMA ReasoningMeans == ReasoningIInv => ReasoningTypeOK /\ ReasoningInv
<1> SUFFICES ASSUME ReasoningIInv PROVE ReasoningTypeOK /\ ReasoningInv
  OBVIOUS
<1> USE DEF ReasoningIInv
<1>1. ReasoningTypeOK
  BY ReasoningNumbers DEF ReasoningTypeOK, RunTypes, RunType, Stages, Paths
<1>2. CorpusFirst
  BY DEF CorpusFirst, SentStands, CorpusStands
<1>3. NoOutcome.status = "none" /\ NoOutcome.text = "none"
  BY DEF NoOutcome
<1>4. PartialIsSaid
  <2>1. CASE stage # "answered"
    BY <1>3, <2>1 DEF PartialIsSaid, ReplyStands
  <2>2. CASE stage = "answered"
    <3>1. SUFFICES ASSUME reply.status = "answered", reply.text = "found" PROVE Found(reply)
      BY DEF PartialIsSaid, Found
    <3>2. reply # [NoOutcome EXCEPT !.status = "raised"] /\ reply # Refused
      BY <3>1 DEF NoOutcome, Refused
    <3>3. CASE path = "escalated" /\ reply = corpus
      BY <3>1, <3>3 DEF CorpusStands, Comes
    <3> QED BY <2>2, <3>1, <3>2, <3>3 DEF ReplyStands, Comes
  <2> QED BY <2>1, <2>2
<1>5. NeverWorse
  <2>1. SUFFICES ASSUME stage = "answered", corpus.status = "answered", reply.status # "raised"
                 PROVE  reply.status = "answered" /\ (reply = corpus \/ Outside \in reply.held)
    BY DEF NeverWorse
  <2>2. corpus # NoOutcome /\ reply # [NoOutcome EXCEPT !.status = "raised"]
    BY <2>1 DEF NoOutcome
  <2>3. path \notin {"none", "external"}
    BY <2>2 DEF CorpusStands
  <2>4. CASE path = "escalated" /\ Found(reply) /\ ImprovesOn(corpus, reply)
    BY <2>1, <2>4 DEF ImprovesOn
  <2> QED BY <2>1, <2>2, <2>3, <2>4 DEF ReplyStands
<1>6. NothingFoundIsMeant
  <2>1. CASE stage # "answered"
    <3>1. corpus.status # "failed"
      BY <1>3, <2>1 DEF CorpusStands, FallsShort
    <3>2. reply.text # "nothing found"
      BY <1>3, <2>1 DEF ReplyStands
    <3> QED BY <3>1, <3>2 DEF NothingFoundIsMeant
  <2>2. CASE stage = "answered" /\ reply = [NoOutcome EXCEPT !.status = "raised"]
                                /\ corpus.status # "failed"
    BY <2>2 DEF NothingFoundIsMeant, NoOutcome
  <2>3. CASE path = "none" /\ reply = Refused
    BY <1>3, <2>3 DEF NothingFoundIsMeant, CorpusStands, Refused, NoOutcome
  <2>4. CASE path \in {"fixed", "loop"} /\ reply = corpus /\ Comes(corpus, path)
    BY <2>4 DEF NothingFoundIsMeant, Comes, Found
  <2>5. CASE path = "escalated" /\ reply = corpus
    BY <2>5 DEF NothingFoundIsMeant, CorpusStands, Comes, Found
  <2>6. CASE path = "escalated" /\ Found(reply) /\ ImprovesOn(corpus, reply)
    BY <2>6 DEF NothingFoundIsMeant, CorpusStands, FallsShort, Found
  <2>7. CASE path = "external" /\ Comes(reply, path)
    BY <1>3, <2>7 DEF NothingFoundIsMeant, CorpusStands, Comes, Found
  <2> QED BY <2>1, <2>2, <2>3, <2>4, <2>5, <2>6, <2>7 DEF ReplyStands
<1> QED BY <1>1, <1>2, <1>4, <1>5, <1>6 DEF ReasoningInv

LEMMA NewRunIsTyped ==
    ASSUME NEW lines \in Seq(Texts), NEW r, r = [NewRun EXCEPT !.lines = lines, !.planned = Len(lines)]
    PROVE  /\ r \in RunType /\ r.attempts = 0 /\ r.held = {} /\ r.results = <<>>
           /\ r.lines = lines /\ r.planned = Len(lines)
<1>1. r = [held |-> {}, noted |-> {}, attempts |-> 0, late |-> FALSE, lines |-> lines,
           planned |-> Len(lines), query |-> [text |-> Asked, limit |-> 0], rounds |-> 0,
           results |-> <<>>, searched |-> FALSE]
  BY DEF NewRun, Query
<1>2. [text |-> Asked, limit |-> 0] \in [text : Texts, limit : 0..Widest]
  BY ReasoningNumbers
<1>3. Len(lines) \in Nat /\ <<>> \in Seq([cause : Causes, abstained : BOOLEAN])
  OBVIOUS
<1>4. PICK planned \in Nat : planned = Len(lines)
  BY <1>3
<1>5. PICK none \in Seq([cause : Causes, abstained : BOOLEAN]) : none = <<>>
  BY <1>3
<1>6. PICK q \in [text : Texts, limit : 0..Widest] : q = [text |-> Asked, limit |-> 0]
  BY <1>2
<1>7. r = [held |-> {}, noted |-> {}, attempts |-> 0, late |-> FALSE, lines |-> lines,
           planned |-> planned, query |-> q, rounds |-> 0, results |-> none, searched |-> FALSE]
  BY <1>1, <1>4, <1>5, <1>6
<1>8. r \in RunType
  BY ONLY <1>7, lines \in Seq(Texts) DEF RunType
<1>9. r.attempts = 0 /\ r.held = {} /\ r.results = none /\ r.lines = lines /\ r.planned = planned
  BY ONLY <1>7
<1> QED BY <1>4, <1>5, <1>8, <1>9

LEMMA ReasoningInitially == ReasoningInit => ReasoningIInv
<1> SUFFICES ASSUME ReasoningInit PROVE ReasoningIInv
  OBVIOUS
<1>1. /\ stage = "asked" /\ path = "none" /\ federated \in BOOLEAN /\ run = NewRun
      /\ corpus = NoOutcome /\ reply = NoOutcome /\ sent = {}
  BY Zenon DEF ReasoningInit
<1>2. NewRun = [NewRun EXCEPT !.lines = <<>>, !.planned = Len(<<>>)] /\ <<>> \in Seq(Texts)
  <2>1. Len(<<>>) = 0 /\ <<>> \in Seq(Texts)
    OBVIOUS
  <2>2. NewRun.lines = <<>> /\ NewRun.planned = 0
    BY DEF NewRun
  <2>3. NewRun = [NewRun EXCEPT !.lines = NewRun.lines, !.planned = NewRun.planned]
    BY DEF NewRun
  <2> QED BY <2>1, <2>2, <2>3
<1>3. /\ run \in RunType /\ run.attempts = 0 /\ run.lines = <<>> /\ run.planned = Len(<<>>)
  <2>1. PICK r : r = [NewRun EXCEPT !.lines = <<>>, !.planned = Len(<<>>)]
    OBVIOUS
  <2>2. r \in RunType /\ r.attempts = 0 /\ r.lines = <<>> /\ r.planned = Len(<<>>)
    BY ONLY <1>2, <2>1, NewRunIsTyped
  <2> QED BY <1>1, <1>2, <2>1, <2>2
<1>4. RunTypes
  BY <1>1, <1>3, ReasoningNumbers DEF RunTypes, Stages, Paths
<1> QED BY <1>1, <1>4 DEF ReasoningIInv, RunStands, SentStands, CorpusStands, ReplyStands

LEMMA RunEndsStep ==
    ASSUME ReasoningIInv, stage \in {"searching", "judging", "writing"},
           path \in Searches \cup {"external"},
           NEW o, Comes(o, path), RunEnds(o), UNCHANGED <<federated, sent>>
    PROVE  ReasoningIInv'
<1> USE ReasoningNumbers DEF ReasoningIInv
<1>1. CASE Escalates(o)
  <2>1. PICK r : r = [NewRun EXCEPT !.lines = <<>>, !.planned = Len(<<>>)]
    OBVIOUS
  <2>2. /\ corpus' = o /\ path' = "escalated" /\ stage' = "offering" /\ run' = r /\ reply' = reply
        /\ path \in {"fixed", "loop"} /\ FallsShort(o)
    BY <1>1, <2>1 DEF RunEnds, Begin, Escalates
  <2>3. /\ r \in RunType /\ r.attempts = 0 /\ r.held = {} /\ r.results = <<>> /\ r.lines = <<>>
        /\ r.planned = 0 /\ Len(r.lines) = r.planned
    <3>1. <<>> \in Seq(Texts) /\ Len(<<>>) = 0
      OBVIOUS
    <3> QED BY <2>1, <3>1, NewRunIsTyped
  <2>4. Budget' \in Nat \ {0} /\ RunType' = RunType
    BY DEF Budget, RunType
  <2>5. RunTypes'
    BY <2>2, <2>3, <2>4 DEF RunTypes, Stages, Paths
  <2>6. RunStands' /\ SentStands'
    BY <2>2, <2>3 DEF RunStands, SentStands
  <2>7. CorpusStands'
    BY <2>2 DEF CorpusStands, Comes, Found, FallsShort
  <2>8. ReplyStands'
    BY <2>2 DEF ReplyStands
  <2> QED BY <2>5, <2>6, <2>7, <2>8
<1>2. CASE ~Escalates(o)
  <2>1. /\ corpus' = IF path \in {"fixed", "loop"} THEN o ELSE corpus
        /\ reply' = IF path = "escalated" /\ ~ImprovesOn(corpus, o) THEN corpus ELSE o
        /\ stage' = "answered" /\ path' = path /\ run' = run
    BY <1>2 DEF RunEnds, Tell
  <2>2. RunTypes'
    BY <2>1 DEF RunTypes, Stages, Budget, RunType
  <2>3. RunStands' /\ SentStands'
    BY <2>1 DEF RunStands, SentStands
  <2>4. CorpusStands'
    BY <2>1 DEF CorpusStands, Comes, Found, FallsShort, Searches
  <2>5. ReplyStands'
    <3>1. CASE path \in {"fixed", "loop"}
      BY <2>1, <3>1 DEF ReplyStands, Comes, Found
    <3>2. CASE path = "escalated" /\ ~ImprovesOn(corpus, o)
      BY <2>1, <3>2 DEF ReplyStands
    <3>3. CASE path = "escalated" /\ ImprovesOn(corpus, o)
      <4>1. Found(o)
        BY <3>3 DEF Comes, ImprovesOn
      <4>2. /\ reply' = o /\ corpus' = corpus /\ path' = "escalated"
        BY <2>1, <3>3
      <4>3. Found(reply)' /\ ImprovesOn(corpus, reply)'
        BY <3>3, <4>1, <4>2 DEF Found, ImprovesOn
      <4> QED BY <2>1, <4>2, <4>3 DEF ReplyStands
    <3>4. CASE path = "external"
      BY <2>1, <3>4 DEF ReplyStands, Comes, Found
    <3> QED BY <3>1, <3>2, <3>3, <3>4 DEF Searches
  <2> QED BY <2>2, <2>3, <2>4, <2>5
<1> QED BY <1>1, <1>2

(* A run that goes on, within the stages of one run.                        *)
LEMMA RunGoesOn ==
    ASSUME ReasoningIInv, UNCHANGED <<federated, path, corpus, reply>>, stage # "answered",
           stage # "asked", stage' \in Stages \ {"asked", "answered"},
           run' \in RunType, Len(run'.lines) = run'.planned, run'.attempts <= Budget, RunStands',
           SentStands'
    PROVE  ReasoningIInv'
<1> USE DEF ReasoningIInv
<1>1. RunTypes'
  BY DEF RunTypes, RunType, Stages, Paths, Budget
<1>2. CorpusStands' /\ ReplyStands'
  BY DEF CorpusStands, ReplyStands, Comes, Found, FallsShort
<1> QED BY <1>1, <1>2

LEMMA CycleEndsStep ==
    ASSUME ReasoningIInv, stage \in {"searching", "judging"}, path \in Searches,
           NEW r \in RunType, Len(r.lines) = r.planned, r.attempts <= Budget,
           Len(r.results) < r.planned, NEW cause \in Causes, NEW abstained \in BOOLEAN,
           CycleEnds(r, cause, abstained), UNCHANGED <<federated, sent>>
    PROVE  ReasoningIInv'
<1> USE ReasoningNumbers
<1>1. PICK x : x = [cause |-> cause, abstained |-> abstained]
  OBVIOUS
<1>2. PICK results : results = Append(r.results, x)
  OBVIOUS
<1>3. PICK after : after = [r EXCEPT !.results = results]
  OBVIOUS
<1>4. PICK n : n = Len(results)
  OBVIOUS
<1>5. /\ r.results \in Seq([cause : Causes, abstained : BOOLEAN]) /\ r.lines \in Seq(Texts)
      /\ r.planned \in Nat
  BY DEF RunType
<1>6. x \in [cause : Causes, abstained : BOOLEAN]
  BY <1>1
<1>7. /\ results \in Seq([cause : Causes, abstained : BOOLEAN]) /\ n \in Nat
      /\ n = Len(r.results) + 1 /\ n <= r.planned
  BY <1>2, <1>4, <1>5, <1>6
<1>8. /\ after \in RunType /\ after.results = results /\ after.lines = r.lines
      /\ after.planned = r.planned /\ after.attempts = r.attempts
  BY <1>3, <1>7 DEF RunType
<1>9. SentStands'
  <2>1. path' \in {path, "escalated"}
    BY DEF CycleEnds, RunEnds, Begin
  <2> QED BY <2>1 DEF SentStands, ReasoningIInv
<1>10. CASE n < r.planned /\ ~Exhausted(after)
  <2>1. PICK q : q = Query(r.lines[n + 1])
    OBVIOUS
  <2>2. /\ run' = [after EXCEPT !.query = q, !.rounds = 0] /\ stage' = "searching"
        /\ UNCHANGED <<path, corpus, reply>>
    BY <1>1, <1>2, <1>3, <1>4, <1>8, <1>10, <2>1 DEF CycleEnds
  <2>3. q \in [text : Texts, limit : 0..Widest]
    <3>1. r.lines[n + 1] \in Texts
      BY <1>5, <1>7, <1>10
    <3> QED BY <2>1, <3>1 DEF Query
  <2>4. /\ run' \in RunType /\ run'.lines = r.lines /\ run'.planned = r.planned
        /\ run'.attempts = r.attempts /\ run'.results = results
    BY <1>8, <2>2, <2>3 DEF RunType
  <2>5. RunStands'
    BY <1>4, <1>10, <2>2, <2>4 DEF RunStands, Searches
  <2>6. stage' \in Stages \ {"asked", "answered"}
    BY <2>2 DEF Stages
  <2> QED BY <1>9, <2>2, <2>4, <2>5, <2>6, RunGoesOn
<1>11. CASE ~(n < r.planned /\ ~Exhausted(after)) /\ after.held # {} /\ ~Abstains(after)
  <2>1. run' = after /\ stage' = "writing" /\ UNCHANGED <<path, corpus, reply>>
    BY <1>1, <1>2, <1>3, <1>4, <1>8, <1>11 DEF CycleEnds
  <2>2. RunStands'
    BY <1>4, <1>7, <1>8, <2>1 DEF RunStands, Searches
  <2>3. stage' \in Stages \ {"asked", "answered"}
    BY <2>1 DEF Stages
  <2>4. run' \in RunType /\ Len(run'.lines) = run'.planned /\ run'.attempts <= Budget
    BY <1>8, <2>1
  <2> QED BY <1>9, <2>1, <2>2, <2>3, <2>4, RunGoesOn
<1>12. CASE ~(n < r.planned /\ ~Exhausted(after)) /\ ~(after.held # {} /\ ~Abstains(after))
  <2>1. PICK o : o = Abstention(after)
    OBVIOUS
  <2>2. RunEnds(o)
    BY <1>1, <1>2, <1>3, <1>4, <1>8, <1>12, <2>1 DEF CycleEnds
  <2>3. Comes(o, path)
    BY <2>1 DEF Comes, Abstention, Ended
  <2> QED BY <2>2, <2>3, RunEndsStep
<1> QED BY <1>10, <1>11, <1>12

(* A corrective action is one that was available.                           *)
LEMMA DecidedIs ==
    ASSUME NEW verdict \in Verdicts \cup {"empty"}, NEW r
    PROVE  /\ Decided(verdict, r) \in {"answer", "reformulate", "widen_results", "abstain"}
           /\ Available(Decided(verdict, r), r)
<1>1. PICK p : p = Preferred(verdict)
  OBVIOUS
<1>2. p \in {"answer", "widen_results", "reformulate", "widen_time_range", "abstain"}
  BY <1>1 DEF Preferred, Verdicts
<1>3. PICK order : order = <<p, "reformulate", "answer", "abstain">>
  OBVIOUS
<1>4. \A i \in 1..4 : order[i] \in {"answer", "widen_results", "reformulate", "widen_time_range",
                                    "abstain"}
  BY <1>2, <1>3
<1>5. Available("abstain", r) /\ ~Available("widen_time_range", r) /\ order[4] = "abstain"
  BY <1>3 DEF Available
<1>6. PICK S : S = {i \in 1..4 : Available(order[i], r)}
  OBVIOUS
<1>7. S \in SUBSET Nat /\ S # {}
  <2>1. 4 \in S
    BY <1>5, <1>6
  <2> QED BY <1>6, <2>1
<1>8. PICK m \in S : \A y \in S : m <= y
  BY <1>7, LeastStands
<1>9. \A j \in 1..(m - 1) : ~Available(order[j], r)
  <2>1. ASSUME NEW j \in 1..(m - 1) PROVE ~Available(order[j], r)
    <3>1. m \in 1..4
      BY <1>6, <1>8
    <3>2. j \in 1..4 /\ ~(m <= j)
      BY <3>1
    <3> QED BY <1>6, <1>8, <3>2
  <2> QED BY <2>1
<1>10. \E i \in 1..4 : Available(order[i], r) /\ \A j \in 1..(i - 1) : ~Available(order[j], r)
  BY <1>6, <1>8, <1>9
<1>11. PICK i \in 1..4 : /\ i = CHOOSE k \in 1..4 : /\ Available(order[k], r)
                                                   /\ \A j \in 1..(k - 1) : ~Available(order[j], r)
                         /\ Available(order[i], r)
  BY <1>10
<1>12. Decided(verdict, r) = order[i]
  BY <1>1, <1>3, <1>11 DEF Decided
<1>13. order[i] # "widen_time_range"
  BY <1>5, <1>11
<1> QED BY <1>4, <1>11, <1>12, <1>13

LEMMA DecideStep ==
    ASSUME ReasoningIInv, stage \in {"searching", "judging"}, path \in Searches,
           NEW r \in RunType, Len(r.lines) = r.planned, r.attempts <= Budget,
           Len(r.results) < r.planned, NEW verdict \in Verdicts \cup {"empty"},
           Decide(verdict, r), UNCHANGED <<federated, sent>>
    PROVE  ReasoningIInv'
<1> USE ReasoningNumbers
<1>1. PICK action : action = Decided(verdict, r)
  OBVIOUS
<1>2. /\ action \in {"answer", "reformulate", "widen_results", "abstain"} /\ Available(action, r)
  BY <1>1, DecidedIs
<1>3. CASE action = "answer"
  <2>1. CycleEnds(r, AnswerCause(verdict, r), FALSE)
    BY <1>1, <1>3 DEF Decide
  <2>2. AnswerCause(verdict, r) \in Causes
    BY DEF AnswerCause, Causes
  <2> QED BY <2>1, <2>2, CycleEndsStep
<1>4. CASE action = "abstain"
  <2>1. CycleEnds(r, "empty", TRUE)
    BY <1>1, <1>4 DEF Decide
  <2>2. "empty" \in Causes
    BY DEF Causes
  <2> QED BY <2>1, <2>2, CycleEndsStep
<1>5. ASSUME NEW q \in [text : Texts, limit : 0..Widest], Corrected(r, q),
             UNCHANGED <<path, corpus, reply>>
      PROVE  ReasoningIInv'
  <2>1. run' = [r EXCEPT !.query = q, !.rounds = @ + 1] /\ stage' = "searching"
    BY <1>5 DEF Corrected
  <2>2. /\ run' \in RunType /\ run'.lines = r.lines /\ run'.planned = r.planned
        /\ run'.attempts = r.attempts /\ run'.results = r.results
    <3>1. PICK n : n = r.rounds + 1
      OBVIOUS
    <3>2. n \in Nat
      BY <3>1 DEF RunType
    <3>3. run' = [r EXCEPT !.query = q, !.rounds = n]
      BY <2>1, <3>1
    <3> QED BY <3>2, <3>3 DEF RunType
  <2>3. RunStands' /\ SentStands'
    BY <1>5, <2>1, <2>2 DEF RunStands, SentStands, ReasoningIInv
  <2>4. stage' \in Stages \ {"asked", "answered"}
    BY <2>1 DEF Stages
  <2> QED BY <1>5, <2>2, <2>3, <2>4, RunGoesOn
<1>6. r.query \in [text : Texts, limit : 0..Widest]
  BY DEF RunType
<1>7. CASE action = "widen_results"
  <2>1. PICK q : q = [r.query EXCEPT !.limit = @ + 1]
    OBVIOUS
  <2>2. Corrected(r, q) /\ UNCHANGED <<path, corpus, reply>>
    BY <1>1, <1>7, <2>1 DEF Decide
  <2>3. r.query.limit < Widest
    BY <1>2, <1>7 DEF Available
  <2>4. q \in [text : Texts, limit : 0..Widest]
    BY <1>6, <2>1, <2>3
  <2> QED BY <1>5, <2>2, <2>4
<1>8. CASE action = "reformulate"
  <2>1. PICK t \in Texts : Corrected(r, [r.query EXCEPT !.text = t]) /\ UNCHANGED <<path, corpus, reply>>
    BY <1>1, <1>8 DEF Decide
  <2>2. [r.query EXCEPT !.text = t] \in [text : Texts, limit : 0..Widest]
    BY <1>6
  <2> QED BY <1>5, <2>1, <2>2
<1> QED BY <1>2, <1>3, <1>4, <1>7, <1>8

(* What a cycle makes of the run's ledgers.                                 *)
LEMMA NotedStands ==
    ASSUME ReasoningIInv
    PROVE  /\ Noted(run) \in RunType /\ Noted(run).lines = run.lines
           /\ Noted(run).planned = run.planned /\ Noted(run).results = run.results
           /\ Noted(run).attempts = run.attempts /\ Noted(run).attempts <= Budget
           /\ Noted(run).held = run.held
<1>1. run \in RunType /\ run.attempts <= Budget
  BY DEF ReasoningIInv, RunTypes
<1>2. PICK N : N = run.noted \cup {run.query}
  OBVIOUS
<1>3. N \subseteq [text : Texts, limit : 0..Widest]
  BY <1>1, <1>2 DEF RunType
<1>4. Noted(run) = [run EXCEPT !.noted = N]
  BY <1>2 DEF Noted
<1>5. Noted(run) \in RunType
  BY <1>1, <1>3, <1>4 DEF RunType
<1>6. /\ Noted(run).lines = run.lines /\ Noted(run).planned = run.planned
      /\ Noted(run).results = run.results /\ Noted(run).attempts = run.attempts
      /\ Noted(run).held = run.held
  BY <1>1, <1>4 DEF RunType
<1> QED BY <1>1, <1>5, <1>6

LEMMA AttemptedStands ==
    ASSUME ReasoningIInv, ~Exhausted(run), NEW r, r = Attempted(run)
    PROVE  /\ r \in RunType /\ r.lines = run.lines /\ r.planned = run.planned
           /\ r.results = run.results /\ r.attempts <= Budget /\ r.held = run.held
<1> USE ReasoningNumbers
<1>1. run \in RunType /\ run.attempts <= Budget /\ run.attempts \in Nat
  BY DEF ReasoningIInv, RunTypes, RunType
<1>2. PICK b : b = Noted(run)
  OBVIOUS
<1>3. /\ b \in RunType /\ b.lines = run.lines /\ b.planned = run.planned
      /\ b.results = run.results /\ b.attempts = run.attempts /\ b.held = run.held
  BY <1>2, NotedStands
<1>4. PICK n : n = run.attempts + 1
  OBVIOUS
<1>5. n \in Nat /\ n <= Budget
  BY <1>1, <1>4 DEF Exhausted
<1>6. r = [b EXCEPT !.attempts = n]
  BY <1>2, <1>3, <1>4 DEF Attempted
<1>7. r \in RunType /\ r.attempts = n
  BY <1>3, <1>5, <1>6 DEF RunType
<1>8. r.lines = b.lines /\ r.planned = b.planned /\ r.results = b.results /\ r.held = b.held
  BY <1>3, <1>6 DEF RunType
<1> QED BY <1>3, <1>5, <1>7, <1>8

LEMMA StopsStep == ASSUME ReasoningIInv, StopsBeforeRetrieval PROVE ReasoningIInv'
<1>1. /\ stage = "searching" /\ UNCHANGED <<federated, sent>>
      /\ \/ run.query \in run.noted /\ CycleEnds(run, "no_progress", FALSE)
         \/ run.query \notin run.noted /\ Exhausted(run) /\ CycleEnds(Noted(run), "exhausted", FALSE)
  BY DEF StopsBeforeRetrieval
<1>2. path \in Searches /\ Len(run.results) < run.planned
  BY <1>1 DEF ReasoningIInv, RunStands
<1>3. run \in RunType /\ Len(run.lines) = run.planned /\ run.attempts <= Budget
  BY DEF ReasoningIInv, RunTypes
<1>4. "no_progress" \in Causes /\ "exhausted" \in Causes
  BY DEF Causes
<1>5. CASE CycleEnds(run, "no_progress", FALSE)
  BY <1>1, <1>2, <1>3, <1>4, <1>5, CycleEndsStep
<1>6. CASE CycleEnds(Noted(run), "exhausted", FALSE) /\ Exhausted(run)
  <2>1. PICK r : r = Noted(run)
    OBVIOUS
  <2>2. /\ r \in RunType /\ Len(r.lines) = r.planned /\ r.attempts <= Budget
        /\ Len(r.results) < r.planned
    <3>1. /\ Noted(run) \in RunType /\ Noted(run).lines = run.lines
          /\ Noted(run).planned = run.planned /\ Noted(run).results = run.results
          /\ Noted(run).attempts <= Budget
      BY NotedStands
    <3> QED BY <1>2, <1>3, <2>1, <3>1
  <2> QED BY <1>1, <1>2, <1>4, <1>6, <2>1, <2>2, CycleEndsStep
<1> QED BY <1>1, <1>5, <1>6

LEMMA SearchFailsStep == ASSUME ReasoningIInv, SearchFails PROVE ReasoningIInv'
<1>1. PICK o : o = Failure(Attempted(run))
  OBVIOUS
<1>2. stage = "searching" /\ RunEnds(o) /\ UNCHANGED <<federated, sent>>
  BY <1>1 DEF SearchFails
<1>3. path \in Searches
  BY <1>2 DEF ReasoningIInv, RunStands
<1>4. Comes(o, path)
  BY <1>1 DEF Comes, Failure, Ended
<1> QED BY <1>2, <1>3, <1>4, RunEndsStep

LEMMA RetrieveStep == ASSUME ReasoningIInv, NEW found \in SUBSET Windows, Retrieve(found) PROVE ReasoningIInv'
<1>1. PICK held : held = run.held \cup found
  OBVIOUS
<1>2. PICK a : a = Attempted(run)
  OBVIOUS
<1>3. PICK r : r = [a EXCEPT !.held = held, !.searched = TRUE]
  OBVIOUS
<1>4. stage = "searching" /\ ~Exhausted(run) /\ UNCHANGED <<federated, sent>>
  BY DEF Retrieve
<1>5. path \in Searches /\ Len(run.results) < run.planned
  BY <1>4 DEF ReasoningIInv, RunStands
<1>6. run \in RunType /\ Len(run.lines) = run.planned
  BY DEF ReasoningIInv, RunTypes
<1>7. /\ a \in RunType /\ a.lines = run.lines /\ a.planned = run.planned
      /\ a.results = run.results /\ a.attempts <= Budget /\ a.held = run.held
  BY <1>2, <1>4, AttemptedStands
<1>8. held \subseteq Windows \cup {Outside}
  BY <1>1, <1>6 DEF RunType
<1>9. /\ r \in RunType /\ r.lines = run.lines /\ r.planned = run.planned
      /\ r.results = run.results /\ r.attempts <= Budget
  BY <1>3, <1>7, <1>8 DEF RunType
<1>10. \/ CycleEnds(r, "no_progress", FALSE)
       \/ Decide("empty", r)
       \/ run' = r /\ stage' = "judging" /\ UNCHANGED <<path, corpus, reply>>
  <2>1. r = [Attempted(run) EXCEPT !.held = @ \cup found, !.searched = TRUE]
    BY <1>1, <1>2, <1>3, <1>7
  <2> QED BY <2>1 DEF Retrieve
<1>11. "no_progress" \in Causes /\ "empty" \in Verdicts \cup {"empty"}
  BY DEF Causes
<1>12. Len(r.lines) = r.planned /\ Len(r.results) < r.planned
  BY <1>5, <1>6, <1>9
<1>13. CASE CycleEnds(r, "no_progress", FALSE)
  BY <1>4, <1>5, <1>9, <1>11, <1>12, <1>13, CycleEndsStep
<1>14. CASE Decide("empty", r)
  BY <1>4, <1>5, <1>9, <1>11, <1>12, <1>14, DecideStep
<1>15. CASE run' = r /\ stage' = "judging" /\ UNCHANGED <<path, corpus, reply>>
  <2>1. RunStands' /\ SentStands'
    BY <1>4, <1>5, <1>12, <1>15 DEF RunStands, SentStands, ReasoningIInv
  <2>2. stage' \in Stages \ {"asked", "answered"}
    BY <1>15 DEF Stages
  <2> QED BY <1>4, <1>9, <1>12, <1>15, <2>1, <2>2, RunGoesOn
<1> QED BY <1>10, <1>13, <1>14, <1>15

LEMMA JudgeStep == ASSUME ReasoningIInv, NEW verdict \in Verdicts, Judge(verdict) PROVE ReasoningIInv'
<1>1. stage = "judging" /\ Decide(verdict, run) /\ UNCHANGED <<federated, sent>>
  BY DEF Judge
<1>2. path \in Searches /\ Len(run.results) < run.planned
  BY <1>1 DEF ReasoningIInv, RunStands
<1>3. run \in RunType /\ Len(run.lines) = run.planned /\ run.attempts <= Budget
  BY DEF ReasoningIInv, RunTypes
<1> QED BY <1>1, <1>2, <1>3, DecideStep

LEMMA WriteStep == ASSUME ReasoningIInv, NEW named, Write(named) PROVE ReasoningIInv'
<1>1. stage = "writing" /\ UNCHANGED <<federated, sent>>
  BY DEF Write
<1>2. /\ path \in Searches \cup {"external"} /\ Len(run.results) <= run.planned
      /\ run.planned \in Nat /\ Len(run.results) \in Nat
  <2>1. run \in RunType /\ path \in Searches \cup {"external"} /\ Len(run.results) <= run.planned
    BY <1>1 DEF ReasoningIInv, RunStands, RunTypes
  <2>2. run.results \in Seq([cause : Causes, abstained : BOOLEAN]) /\ run.planned \in Nat
    BY <2>1 DEF RunType
  <2> QED BY <2>1, <2>2
<1>3. CASE Citations(named, run) = {}
  <2>1. PICK o : o = Abstention(run)
    OBVIOUS
  <2>2. RunEnds(o) /\ Comes(o, path)
    BY <1>3, <2>1 DEF Write, Comes, Abstention, Ended
  <2> QED BY <1>1, <1>2, <2>2, RunEndsStep
<1>4. CASE Citations(named, run) # {}
  <2>1. PICK o : o = Ended(run, "answered", IF path = "external" THEN "sufficient" ELSE Cause(run),
                           "found", Marked(run), Citations(named, run))
    OBVIOUS
  <2>2. RunEnds(o)
    BY <1>4, <2>1 DEF Write
  <2>3. /\ o.status = "answered" /\ o.text = "found" /\ o.cited = Citations(named, run)
        /\ o.held = run.held /\ o.partial = Marked(run)
        /\ o.lines = Len(run.results) /\ o.planned = run.planned
        /\ o.cause = IF path = "external" THEN "sufficient" ELSE Cause(run)
    BY <2>1 DEF Ended
  <2>4. o.cited # {} /\ o.cited \subseteq o.held
    BY <1>4, <2>3 DEF Citations
  <2>5. ASSUME ~o.partial PROVE o.cause = "sufficient" /\ o.lines = o.planned
    <3>1. ~Marked(run)
      BY <2>3, <2>5
    <3>2. CASE path = "external"
      <4>1. run.results = <<>> /\ run.planned = 0
        BY <1>1, <3>2 DEF ReasoningIInv, RunStands
      <4> QED BY <2>3, <3>2, <4>1
    <3>3. CASE path # "external"
      <4>1. Cause(run) = "sufficient"
        BY <3>1, <3>3 DEF Marked
      <4>2. ~(Len(run.results) < run.planned)
        BY <4>1 DEF Cause
      <4> QED BY <1>2, <2>3, <3>3, <4>1, <4>2
    <3> QED BY <3>2, <3>3
  <2>6. Comes(o, path)
    BY <2>3, <2>4, <2>5 DEF Comes, Found
  <2> QED BY <1>1, <1>2, <2>2, <2>6, RunEndsStep
<1> QED BY <1>3, <1>4

LEMMA ModelRaisesStep == ASSUME ReasoningIInv, ModelRaises PROVE ReasoningIInv'
<1> USE DEF ReasoningIInv
<1>1. /\ stage \in {"planning", "judging", "writing"} /\ stage' = "answered"
      /\ reply' = [NoOutcome EXCEPT !.status = "raised"]
      /\ UNCHANGED <<federated, path, run, corpus, sent>>
  BY DEF ModelRaises, Tell
<1>2. RunTypes'
  BY <1>1 DEF RunTypes, RunType, Stages, Budget
<1>3. RunStands' /\ SentStands' /\ CorpusStands'
  BY <1>1 DEF RunStands, SentStands, CorpusStands, Comes, Found, FallsShort
<1>4. corpus.status # "failed"
  <2>1. CASE path = "escalated"
    BY <2>1 DEF CorpusStands, FallsShort
  <2>2. CASE path # "escalated"
    BY <1>1, <2>2 DEF CorpusStands, NoOutcome
  <2> QED BY <2>1, <2>2
<1>5. ReplyStands'
  BY <1>1, <1>4 DEF ReplyStands
<1> QED BY <1>2, <1>3, <1>5

LEMMA TimeRunsOutStep == ASSUME ReasoningIInv, TimeRunsOut PROVE ReasoningIInv'
<1>1. /\ stage \notin {"asked", "answered"} /\ run' = [run EXCEPT !.late = TRUE]
      /\ UNCHANGED <<stage, federated, path, corpus, reply, sent>>
  BY DEF TimeRunsOut
<1>2. /\ run \in RunType /\ Len(run.lines) = run.planned /\ run.attempts <= Budget
      /\ stage \in Stages
  BY DEF ReasoningIInv, RunTypes
<1>3. /\ run' \in RunType /\ run'.lines = run.lines /\ run'.planned = run.planned
      /\ run'.attempts = run.attempts /\ run'.results = run.results /\ run'.held = run.held
  BY <1>1, <1>2 DEF RunType
<1>4. RunStands' /\ SentStands'
  BY <1>1, <1>3 DEF RunStands, SentStands, ReasoningIInv
<1> QED BY <1>1, <1>2, <1>3, <1>4, RunGoesOn

LEMMA RouteStep == ASSUME ReasoningIInv, Route PROVE ReasoningIInv'
<1> USE ReasoningNumbers
<1>1. stage = "asked" /\ path = "none" /\ UNCHANGED <<federated, corpus, sent>> /\ federated \in BOOLEAN
      /\ corpus = NoOutcome /\ reply = NoOutcome /\ SentStands
  BY DEF Route, ReasoningIInv, RunStands, CorpusStands, ReplyStands, RunTypes
<1>2. ASSUME NEW p, NEW at, NEW lines \in Seq(Texts), Begin(p, at, lines), reply' = reply,
             \/ p = "fixed" /\ at = "searching" /\ Len(lines) = 1
             \/ p = "loop" /\ at = "planning" /\ Len(lines) = 0
             \/ p = "external" /\ at = "offering" /\ Len(lines) = 0
      PROVE  ReasoningIInv'
  <2>1. PICK r : r = [NewRun EXCEPT !.lines = lines, !.planned = Len(lines)]
    OBVIOUS
  <2>2. /\ r \in RunType /\ r.attempts = 0 /\ r.held = {} /\ r.results = <<>>
        /\ r.lines = lines /\ r.planned = Len(lines)
    BY <2>1, NewRunIsTyped
  <2>3. path' = p /\ stage' = at /\ run' = r
    BY <1>2, <2>1 DEF Begin
  <2>4. Budget' \in Nat \ {0} /\ RunType' = RunType
    BY DEF Budget, RunType
  <2>5. RunTypes'
    BY <1>1, <1>2, <2>2, <2>3, <2>4 DEF RunTypes, Stages, Paths
  <2>6. RunStands'
    <3>1. Len(<<>>) = 0
      OBVIOUS
    <3>2. CASE p = "fixed" /\ at = "searching" /\ Len(lines) = 1
      BY <2>2, <2>3, <3>1, <3>2 DEF RunStands, Searches
    <3>3. CASE p = "loop" /\ at = "planning" /\ Len(lines) = 0
      BY <2>2, <2>3, <3>3 DEF RunStands
    <3>4. CASE p = "external" /\ at = "offering" /\ Len(lines) = 0
      BY <2>2, <2>3, <3>4 DEF RunStands
    <3> QED BY <1>2, <3>2, <3>3, <3>4
  <2>7. SentStands' /\ CorpusStands' /\ ReplyStands'
    BY <1>1, <1>2, <2>3 DEF SentStands, CorpusStands, ReplyStands
  <2> QED BY <2>5, <2>6, <2>7 DEF ReasoningIInv
<1>3. <<Asked>> \in Seq(Texts) /\ Len(<<Asked>>) = 1 /\ <<>> \in Seq(Texts) /\ Len(<<>>) = 0
  OBVIOUS
<1>4. CASE Begin("fixed", "searching", <<Asked>>) /\ UNCHANGED reply
  BY <1>2, <1>3, <1>4
<1>5. CASE Begin("loop", "planning", <<>>) /\ UNCHANGED reply
  BY <1>2, <1>3, <1>5
<1>6. CASE Begin("external", "offering", <<>>) /\ UNCHANGED reply
  BY <1>2, <1>3, <1>6
<1>7. CASE Tell(Refused) /\ UNCHANGED <<path, run>>
  <2>1. stage' = "answered" /\ reply' = Refused /\ path' = "none" /\ run' = run
    BY <1>1, <1>7 DEF Tell
  <2>2. RunTypes'
    BY <1>1, <2>1 DEF ReasoningIInv, RunTypes, RunType, Stages, Budget
  <2>3. RunStands' /\ SentStands' /\ CorpusStands' /\ ReplyStands'
    BY <1>1, <2>1 DEF RunStands, SentStands, CorpusStands, ReplyStands
  <2> QED BY <2>2, <2>3 DEF ReasoningIInv
<1> QED BY <1>4, <1>5, <1>6, <1>7 DEF Route

LEMMA OutsideSteps == ASSUME ReasoningIInv, Offer \/ ProposeAction \/ Invoke PROVE ReasoningIInv'
<1>1. /\ stage \in {"offering", "proposing", "calling"}
      /\ stage' \in {AfterCall, "proposing", "calling"}
      /\ UNCHANGED <<federated, path, corpus, reply>>
  BY DEF Offer, ProposeAction, Invoke
<1>2. /\ path \in {"escalated", "external"} /\ run.held = {} /\ run.results = <<>> /\ run.planned = 0
  BY <1>1 DEF ReasoningIInv, RunStands
<1>3. /\ run \in RunType /\ Len(run.lines) = run.planned /\ run.attempts <= Budget
      /\ SentStands
  BY DEF ReasoningIInv, RunTypes
<1>4. stage' \in Stages \ {"asked", "answered"}
  BY <1>1 DEF Stages, AfterCall
<1>5. CASE Offer \/ ProposeAction
  <2>1. run' = run /\ sent' = sent
    BY <1>5 DEF Offer, ProposeAction
  <2>2. RunStands' /\ SentStands'
    <3>1. Len(<<>>) = 0
      OBVIOUS
    <3> QED BY <1>1, <1>2, <1>3, <2>1, <3>1 DEF RunStands, SentStands, AfterCall, Searches
  <2> QED BY <1>1, <1>3, <1>4, <2>1, <2>2, RunGoesOn
<1>6. CASE Invoke
  <2>1. PICK H : H = run.held \cup {Outside}
    OBVIOUS
  <2>2. /\ stage' = AfterCall /\ sent' = sent \cup {[path |-> path, held |-> run.held]}
        /\ run' = run \/ run' = [run EXCEPT !.held = H]
    BY <1>6, <2>1 DEF Invoke
  <2>3. H \subseteq Windows \cup {Outside}
    BY <1>2, <2>1
  <2>4. /\ run' \in RunType /\ run'.lines = run.lines /\ run'.planned = run.planned
        /\ run'.attempts = run.attempts /\ run'.results = run.results
    BY <1>3, <2>2, <2>3 DEF RunType
  <2>5. SentStands'
    BY <1>1, <1>2, <1>3, <2>2 DEF SentStands
  <2>6. RunStands'
    <3>1. Len(<<>>) = 0
      OBVIOUS
    <3> QED BY <1>1, <1>2, <2>2, <2>4, <3>1 DEF RunStands, AfterCall, Searches
  <2> QED BY <1>1, <1>3, <1>4, <2>4, <2>5, <2>6, RunGoesOn
<1> QED BY <1>5, <1>6

LEMMA PlanStep == ASSUME ReasoningIInv, Plan PROVE ReasoningIInv'
<1> USE ReasoningNumbers
<1>1. PICK n \in 1..MaxLines : \E lines \in [1..n -> Texts] :
             run' = [run EXCEPT !.lines = lines, !.planned = n, !.query = Query(lines[1])]
  BY DEF Plan
<1>2. PICK lines \in [1..n -> Texts] :
             run' = [run EXCEPT !.lines = lines, !.planned = n, !.query = Query(lines[1])]
  BY <1>1
<1>3. /\ stage = "planning" /\ stage' = "searching" /\ UNCHANGED <<federated, path, corpus, reply, sent>>
  BY DEF Plan
<1>4. path \in {"loop", "escalated"} /\ run.results = <<>>
  BY <1>3 DEF ReasoningIInv, RunStands
<1>5. run \in RunType /\ run.attempts <= Budget
  BY DEF ReasoningIInv, RunTypes
<1>6. PICK q : q = Query(lines[1])
  OBVIOUS
<1>7. q \in [text : Texts, limit : 0..Widest]
  <2>1. lines[1] \in Texts
    OBVIOUS
  <2> QED BY <1>6, <2>1 DEF Query
<1>8. lines \in Seq(Texts) /\ Len(lines) = n /\ n \in Nat
  OBVIOUS
<1>9. /\ run' \in RunType /\ run'.lines = lines /\ run'.planned = n /\ run'.results = <<>>
      /\ run'.attempts = run.attempts
  BY <1>2, <1>4, <1>5, <1>6, <1>7, <1>8 DEF RunType
<1>10. RunStands' /\ SentStands'
  <2>1. Len(<<>>) = 0
    OBVIOUS
  <2> QED BY <1>3, <1>4, <1>9, <2>1 DEF RunStands, SentStands, Searches, ReasoningIInv
<1>11. stage' \in Stages \ {"asked", "answered"} /\ stage # "answered" /\ stage # "asked"
  BY <1>3 DEF Stages
<1>12. Len(run'.lines) = run'.planned /\ run'.attempts <= Budget
  BY <1>5, <1>8, <1>9
<1> QED BY <1>3, <1>9, <1>10, <1>11, <1>12, RunGoesOn

LEMMA ReasoningStep == ReasoningIInv /\ [ReasoningNext]_reasoningVars => ReasoningIInv'
<1> SUFFICES ASSUME ReasoningIInv, [ReasoningNext]_reasoningVars PROVE ReasoningIInv'
  OBVIOUS
<1>1. CASE UNCHANGED reasoningVars
  <2>1. UNCHANGED <<stage, federated, path, run, corpus, reply, sent>>
    BY <1>1 DEF reasoningVars
  <2>2. RunTypes'
    BY <2>1 DEF ReasoningIInv, RunTypes, RunType, Budget
  <2>3. RunStands' /\ SentStands'
    BY <2>1 DEF ReasoningIInv, RunStands, SentStands
  <2>4. CorpusStands'
    BY <2>1 DEF ReasoningIInv, CorpusStands, Comes, Found, FallsShort
  <2>5. ReplyStands'
    BY <2>1 DEF ReasoningIInv, ReplyStands, Comes, Found, ImprovesOn
  <2> QED BY <2>2, <2>3, <2>4, <2>5 DEF ReasoningIInv
<1> QED BY <1>1, RouteStep, OutsideSteps, PlanStep, StopsStep, SearchFailsStep, ModelRaisesStep,
           TimeRunsOutStep, RetrieveStep, JudgeStep, WriteStep DEF ReasoningNext

(* For any texts, windows, lines and budgets: a question about the team's   *)
(* conversations goes outside only after the corpus was searched and fell   *)
(* short, with nothing that was read; an answer not marked partial had      *)
(* enough evidence on every line of its plan; and the second run never      *)
(* costs the asker the answer of the first, nor is a search that failed     *)
(* told as "I found nothing" (the fixed path, the loop, their escalation).  *)
THEOREM AnswersRestOnEvidence == ReasoningSpec => [](ReasoningTypeOK /\ ReasoningInv)
BY ReasoningMeans, ReasoningInitially, ReasoningStep, PTL DEF ReasoningSpec

-----------------------------------------------------------------------------
(* Sums.  The fold takes the members of a finite set in some order; what    *)
(* holds of the sums of a set's parts is shown of a least part for which it *)
(* would not, in place of an induction.                                     *)
SumOf(f, S) == MapThenSumSet(LAMBDA x : f[x], S)
First(s) == CHOOSE x \in s : TRUE
Rest(s) == s \ {First(s)}
Sums(f, D, g) == \A s \in D : g[s] = IF s = {} THEN 0 ELSE f[First(s)] + g[Rest(s)]

LEMMA LeastSubset ==
    ASSUME NEW S, IsFiniteSet(S), NEW B \in SUBSET SUBSET S, B # {}
    PROVE  \E s \in B : \A t \in SUBSET s : t # s => t \notin B
<1>1. \A s \in B : IsFiniteSet(s) /\ Cardinality(s) \in Nat
  BY FS_Subset, FS_CardinalityType
<1> DEFINE N == {Cardinality(s) : s \in B}
<1>2. PICK k \in N : \A n \in N : k <= n
  <2>1. N \in SUBSET Nat /\ N # {}
    BY <1>1
  <2> HIDE DEF N
  <2>2. QED
    BY <2>1, LeastStands
<1>3. PICK s \in B : k = Cardinality(s)
  BY <1>2
<1>4. ASSUME NEW t \in SUBSET s, t # s, t \in B PROVE FALSE
  <2>1. Cardinality(t) < Cardinality(s)
    BY <1>1, <1>4, FS_Subset
  <2>2. Cardinality(s) <= Cardinality(t)
    BY <1>2, <1>3, <1>4
  <2>3. QED
    BY <1>1, <1>4, <2>1, <2>2
<1>5. QED
  BY <1>4

LEMMA RestIsSmaller ==
    ASSUME NEW S, IsFiniteSet(S), NEW s \in SUBSET S, s # {}
    PROVE  /\ First(s) \in s /\ Rest(s) \in SUBSET S /\ Rest(s) \subseteq s /\ Rest(s) # s
           /\ Cardinality(s) \in Nat \ {0} /\ Cardinality(Rest(s)) = Cardinality(s) - 1
<1>1. First(s) \in s
  BY DEF First
<1>2. IsFiniteSet(s)
  BY FS_Subset
<1>3. QED
  BY <1>1, <1>2, FS_CardinalityType, FS_EmptySet, FS_RemoveElement DEF Rest

(* The fold's recursion has a solution ...                                  *)
LEMMA SumsExist ==
    ASSUME NEW S, IsFiniteSet(S), NEW f \in [S -> Nat]
    PROVE  \E g \in [SUBSET S -> Nat] : Sums(f, SUBSET S, g)
<1> DEFINE D(n) == {s \in SUBSET S : Cardinality(s) <= n}
           Good(n) == \E g \in [D(n) -> Nat] : Sums(f, D(n), g)
           Bad == {n \in Nat : ~Good(n)}
<1>0. \A s \in SUBSET S : IsFiniteSet(s) /\ Cardinality(s) \in Nat
  BY FS_Subset, FS_CardinalityType
<1>1. Bad = {}
  <2> SUFFICES ASSUME Bad # {} PROVE FALSE
    OBVIOUS
  <2>1. PICK n \in Bad : \A k \in Bad : n <= k
    <3>1. Bad \in SUBSET Nat
      OBVIOUS
    <3> HIDE DEF Bad
    <3>2. QED
      BY <3>1, LeastStands
  <2>2. ~Good(n) /\ n \in Nat
    BY <2>1
  <2>3. CASE n = 0
    <3>1. \A s \in D(0) : s = {}
      BY <1>0, FS_EmptySet
    <3>2. Sums(f, D(0), [s \in D(0) |-> 0])
      BY <3>1 DEF Sums
    <3>3. [s \in D(0) |-> 0] \in [D(0) -> Nat]
      OBVIOUS
    <3> HIDE DEF D
    <3>4. Good(0)
      BY <3>2, <3>3
    <3>5. QED
      BY <2>2, <2>3, <3>4
  <2>4. CASE n # 0
    <3>1. n - 1 \in Nat /\ n - 1 \notin Bad
      <4>1. n - 1 \in Nat /\ ~(n <= n - 1)
        BY <2>2, <2>4
      <4> HIDE DEF Bad
      <4>2. QED
        BY <2>1, <4>1
    <3>2. PICK g \in [D(n - 1) -> Nat] : Sums(f, D(n - 1), g)
      BY <3>1
    <3> DEFINE h == [s \in D(n) |-> IF s = {} THEN 0 ELSE f[First(s)] + g[Rest(s)]]
    <3>3. ASSUME NEW s \in D(n), s # {}
          PROVE  Rest(s) \in D(n - 1) /\ Rest(s) \in D(n) /\ f[First(s)] \in Nat
      BY <2>2, <3>3, RestIsSmaller
    <3>4. h \in [D(n) -> Nat]
      <4> HIDE DEF D
      <4>1. QED
        BY <3>2, <3>3
    <3>5. ASSUME NEW s \in D(n), s # {} PROVE h[Rest(s)] = g[Rest(s)]
      <4>1. PICK t \in D(n - 1) : t = Rest(s) /\ t \in D(n)
        BY <3>3, <3>5
      <4> HIDE DEF D
      <4>2. QED
        BY <3>2, <4>1 DEF Sums
    <3>6. Sums(f, D(n), h)
      <4> HIDE DEF D
      <4>1. QED
        BY <3>5 DEF Sums
    <3>7. Good(n)
      <4> HIDE DEF D, h
      <4>1. QED
        BY <3>4, <3>6
    <3>8. QED
      BY <2>2, <3>7
  <2>5. QED
    BY <2>3, <2>4
<1>2. Cardinality(S) \in Nat /\ \A s \in SUBSET S : Cardinality(s) <= Cardinality(S)
  BY <1>0, FS_Subset
<1>3. D(Cardinality(S)) = SUBSET S
  BY <1>2
<1>4. Good(Cardinality(S))
  <2> HIDE DEF Good
  <2>1. QED
    BY <1>1, <1>2
<1>5. QED
  BY <1>3, <1>4

(* ... and the sum is what it gives the whole set.                          *)
LEMMA SumIs ==
    ASSUME NEW S, IsFiniteSet(S), NEW f \in [S -> Nat]
    PROVE  \E g \in [SUBSET S -> Nat] : Sums(f, SUBSET S, g) /\ SumOf(f, S) = g[S]
<1> DEFINE Body(g) == [s \in SUBSET S |-> IF s = {} THEN 0 ELSE f[First(s)] + g[Rest(s)]]
           iter == CHOOSE g : g = Body(g)
<1>1. SumOf(f, S) = iter[S]
  BY DEF SumOf, MapThenSumSet, MapThenFoldSet, First, Rest
<1>2. PICK g \in [SUBSET S -> Nat] : Sums(f, SUBSET S, g)
  BY SumsExist
<1>3. g = Body(g)
  BY <1>2 DEF Sums
<1>4. iter = Body(iter)
  <2> HIDE DEF Body
  <2>1. QED
    BY <1>3
<1> HIDE DEF iter
<1>5. Sums(f, SUBSET S, iter) /\ iter = [s \in SUBSET S |-> iter[s]]
  BY <1>4 DEF Sums
<1> HIDE DEF Body
<1>6. \A s \in SUBSET S : iter[s] = g[s]
  <2> SUFFICES ASSUME NEW s \in SUBSET S, iter[s] # g[s],
                      \A t \in SUBSET s : t # s => iter[t] = g[t]
               PROVE  FALSE
    <3> DEFINE B == {s \in SUBSET S : iter[s] # g[s]}
    <3>1. B \in SUBSET SUBSET S
      OBVIOUS
    <3>2. ASSUME B # {} PROVE \E s \in B : \A t \in SUBSET s : t # s => t \notin B
      <4> HIDE DEF B
      <4>1. QED
        BY <3>1, <3>2, LeastSubset
    <3>3. QED
      BY <3>2
  <2>1. CASE s = {}
    BY <1>2, <1>5, <2>1 DEF Sums
  <2>2. CASE s # {}
    <3>1. /\ Rest(s) \in SUBSET S /\ Rest(s) \in SUBSET s /\ Rest(s) # s
      BY <2>2, RestIsSmaller
    <3>2. iter[Rest(s)] = g[Rest(s)]
      BY <3>1
    <3>3. g[s] = f[First(s)] + g[Rest(s)] /\ iter[s] = f[First(s)] + iter[Rest(s)]
      BY <1>2, <1>5, <2>2 DEF Sums
    <3>4. QED
      BY <3>2, <3>3
  <2>3. QED
    BY <2>1, <2>2
<1>7. S \in SUBSET S
  OBVIOUS
<1>8. QED
  BY <1>1, <1>2, <1>6, <1>7

LEMMA SumMoves ==
    ASSUME NEW S, IsFiniteSet(S), NEW f \in [S -> Nat], NEW h \in [S -> Nat], NEW x \in S,
           \A y \in S : y # x => h[y] = f[y]
    PROVE  SumOf(h, S) + f[x] = SumOf(f, S) + h[x]
<1>1. PICK g \in [SUBSET S -> Nat] : Sums(f, SUBSET S, g) /\ SumOf(f, S) = g[S]
  BY SumIs
<1>2. PICK k \in [SUBSET S -> Nat] : Sums(h, SUBSET S, k) /\ SumOf(h, S) = k[S]
  BY SumIs
<1> DEFINE Moved(s) == IF x \in s THEN k[s] + f[x] = g[s] + h[x] ELSE k[s] = g[s]
<1>3. \A s \in SUBSET S : Moved(s)
  <2> SUFFICES ASSUME NEW s \in SUBSET S, ~Moved(s), \A t \in SUBSET s : t # s => Moved(t)
               PROVE  FALSE
    <3> DEFINE B == {s \in SUBSET S : ~Moved(s)}
    <3>1. B \in SUBSET SUBSET S
      OBVIOUS
    <3>2. ASSUME B # {} PROVE \E s \in B : \A t \in SUBSET s : t # s => t \notin B
      <4> HIDE DEF B
      <4>1. QED
        BY <3>1, <3>2, LeastSubset
    <3>3. QED
      BY <3>2
  <2>1. s # {}
    BY <1>1, <1>2 DEF Sums
  <2>2. PICK y \in s, t \in SUBSET S : y = First(s) /\ t = Rest(s) /\ t \subseteq s /\ t # s
                                     /\ t = s \ {y}
    <3>1. First(s) \in s /\ Rest(s) \in SUBSET S /\ Rest(s) \subseteq s /\ Rest(s) # s
      BY <2>1, RestIsSmaller
    <3>2. Rest(s) = s \ {First(s)}
      BY DEF Rest
    <3>3. QED
      BY <3>1, <3>2
  <2>3. g[s] = f[y] + g[t] /\ k[s] = h[y] + k[t]
    BY <1>1, <1>2, <2>1, <2>2 DEF Sums
  <2>4. Moved(t)
    BY <2>2
  <2>5. f[y] \in Nat /\ h[y] \in Nat /\ f[x] \in Nat /\ h[x] \in Nat
        /\ g[t] \in Nat /\ k[t] \in Nat
    OBVIOUS
  <2>6. QED
    BY <2>2, <2>3, <2>4, <2>5
<1>4. S \in SUBSET S /\ Moved(S)
  BY <1>3
<1>5. QED
  BY <1>1, <1>2, <1>4

LEMMA SumGrows ==
    ASSUME NEW S, IsFiniteSet(S), NEW f \in [S -> Nat], NEW h \in [S -> Nat],
           \A x \in S : f[x] <= h[x]
    PROVE  SumOf(f, S) <= SumOf(h, S)
<1>1. PICK g \in [SUBSET S -> Nat] : Sums(f, SUBSET S, g) /\ SumOf(f, S) = g[S]
  BY SumIs
<1>2. PICK k \in [SUBSET S -> Nat] : Sums(h, SUBSET S, k) /\ SumOf(h, S) = k[S]
  BY SumIs
<1>3. \A s \in SUBSET S : g[s] <= k[s]
  <2> SUFFICES ASSUME NEW s \in SUBSET S, ~(g[s] <= k[s]), \A t \in SUBSET s : t # s => g[t] <= k[t]
               PROVE  FALSE
    <3> DEFINE B == {s \in SUBSET S : ~(g[s] <= k[s])}
    <3>1. B \in SUBSET SUBSET S
      OBVIOUS
    <3>2. ASSUME B # {} PROVE \E s \in B : \A t \in SUBSET s : t # s => t \notin B
      <4> HIDE DEF B
      <4>1. QED
        BY <3>1, <3>2, LeastSubset
    <3>3. QED
      BY <3>2
  <2>1. s # {}
    <3>1. s = {} => g[s] = 0 /\ k[s] = 0
      BY <1>1, <1>2 DEF Sums
    <3>2. g[s] # k[s]
      BY <1>1, <1>2
    <3>3. QED
      BY <3>1, <3>2
  <2>2. PICK y \in s, t \in SUBSET S : y = First(s) /\ t = Rest(s) /\ t \subseteq s /\ t # s
    BY <2>1, RestIsSmaller
  <2>3. g[s] = f[y] + g[t] /\ k[s] = h[y] + k[t] /\ g[t] <= k[t] /\ f[y] <= h[y]
    BY <1>1, <1>2, <2>1, <2>2 DEF Sums
  <2>4. f[y] \in Nat /\ h[y] \in Nat /\ g[t] \in Nat /\ k[t] \in Nat
    OBVIOUS
  <2>5. QED
    BY <2>3, <2>4
<1>4. S \in SUBSET S
  OBVIOUS
<1>5. QED
  BY <1>1, <1>2, <1>3, <1>4

LEMMA SumOfNothing ==
    ASSUME NEW S, IsFiniteSet(S)
    PROVE  SumOf([x \in S |-> 0], S) = 0
<1> DEFINE f == [x \in S |-> 0]
<1>1. PICK g \in [SUBSET S -> Nat] : Sums(f, SUBSET S, g) /\ SumOf(f, S) = g[S]
  BY SumIs
<1>2. \A s \in SUBSET S : g[s] = 0
  <2> SUFFICES ASSUME NEW s \in SUBSET S, g[s] # 0, \A t \in SUBSET s : t # s => g[t] = 0
               PROVE  FALSE
    <3> DEFINE B == {s \in SUBSET S : g[s] # 0}
    <3>1. B \in SUBSET SUBSET S
      OBVIOUS
    <3>2. ASSUME B # {} PROVE \E s \in B : \A t \in SUBSET s : t # s => t \notin B
      <4> HIDE DEF B
      <4>1. QED
        BY <3>1, <3>2, LeastSubset
    <3>3. QED
      BY <3>2
  <2>1. s # {}
    BY <1>1 DEF Sums
  <2>2. PICK y \in s, t \in SUBSET S : y = First(s) /\ t = Rest(s) /\ t \subseteq s /\ t # s
    BY <2>1, RestIsSmaller
  <2>3. QED
    BY <1>1, <2>1, <2>2 DEF Sums
<1>3. S \in SUBSET S
  OBVIOUS
<1>4. QED
  BY <1>1, <1>2, <1>3

LEMMA SumHolds ==
    ASSUME NEW S, IsFiniteSet(S), NEW f \in [S -> Nat]
    PROVE  SumOf(f, S) \in Nat /\ \A x \in S : f[x] <= SumOf(f, S)
<1>1. ASSUME NEW h \in [S -> Nat] PROVE SumOf(h, S) \in Nat
  <2>1. PICK g \in [SUBSET S -> Nat] : SumOf(h, S) = g[S]
    BY SumIs
  <2>2. S \in SUBSET S
    OBVIOUS
  <2>3. QED
    BY <2>1, <2>2
<1>2. ASSUME NEW x \in S PROVE f[x] <= SumOf(f, S)
  <2>1. PICK h \in [S -> Nat] : h[x] = 0 /\ \A y \in S : y # x => h[y] = f[y]
    <3>1. [f EXCEPT ![x] = 0] \in [S -> Nat] /\ [f EXCEPT ![x] = 0][x] = 0
      OBVIOUS
    <3>2. QED
      BY <3>1
  <2>2. SumOf(h, S) + f[x] = SumOf(f, S) + h[x]
    BY <2>1, SumMoves
  <2>3. QED
    BY <1>1, <2>1, <2>2
<1>3. QED
  BY <1>1, <1>2

-----------------------------------------------------------------------------
(* Recordings                                                               *)
LEMMA TotalIs == ASSUME NEW f PROVE Total(f) = SumOf(f, Speakers)
BY DEF Total, SumOf

(* What of a month was granted and may still be sent, by recording: of      *)
(* everybody, or of one person.                                             *)
Awaiting(recs, m) ==
    [n \in Notes |-> IF recs[n].at = "granted" /\ recs[n].month = m THEN recs[n].charged ELSE 0]
AwaitingOf(recs, m, p) ==
    [n \in Notes |-> IF recs[n].at = "granted" /\ recs[n].month = m /\ recs[n].by = p
                     THEN recs[n].charged ELSE 0]

Ledger == [Months_ -> [Speakers -> Nat]]
NoteRows == {NoNote, Replied} \cup Recordings

VoiceTypes ==
    /\ linked \subseteq Speakers /\ unwilling \subseteq linked
    /\ used \in Ledger /\ strays \in Ledger /\ transcribed \in Ledger
    /\ folded \in [Months_ -> Nat]
    /\ month \in Months_
    /\ note \in [Notes -> NoteRows]
    /\ voiceCounts \in [ticks : Nat, stops : Nat, folds : [Speakers -> Nat]]

(* The events of the limiter are kept oldest first, which is why it may     *)
(* stop at the first that is still in the window.                           *)
AllowanceStands ==
    /\ allowance \in [Speakers -> Seq(Nat)]
    /\ \A p \in Speakers :
          /\ Len(allowance[p]) <= MaxQuestions
          /\ \A i, j \in 1..Len(allowance[p]) : i <= j => allowance[p][j] <= allowance[p][i]
          /\ \A i \in 1..Len(allowance[p]) : allowance[p][i] < LimitWindow

(* Whoever has no row is charged nothing, and nobody more than their cap.   *)
CapsStand ==
    /\ \A m \in Months_, p \in Speakers : /\ used[m][p] <= PersonCap
                                          /\ p \notin linked => used[m][p] = 0
    /\ \A m \in Months_ : Everyone_(m) <= OverallCap

(* What was sent, and what may still be, has been charged.                  *)
ChargesStand ==
    \A m \in Months_ :
       /\ SumOf(transcribed[m], Speakers) + SumOf(Awaiting(note, m), Notes) <= Everyone_(m)
       /\ \A p \in Speakers :
             transcribed[m][p] + SumOf(AwaitingOf(note, m, p), Notes)
                <= PersonCap * voiceCounts.folds[p] + used[m][p] + strays[m][p]

(* Who had opted out when they sent it has, since nobody returns; and whose *)
(* row is being created had not.                                            *)
WillStands ==
    \A n \in Notes : note[n] \in Recordings =>
       /\ note[n].unwillingly => note[n].by \in unwilling
       /\ note[n].at \in {"creating", "granted", "sending"} => ~note[n].unwillingly

VoiceIInv == VoiceTypes /\ AllowanceStands /\ CapsStand /\ ChargesStand /\ WillStands

LEMMA VoiceNumbers ==
    /\ IsFiniteSet(Speakers) /\ IsFiniteSet(Notes)
    /\ PersonCap \in Nat \ {0} /\ OverallCap \in Nat \ {0} /\ MaxSeconds \in Nat \ {0}
    /\ MaxQuestions \in Nat \ {0} /\ LimitWindow \in Nat \ {0} /\ Months \in Nat \ {0}
BY VoiceAssumption

(* The states of a recording tell its kind.                                 *)
LEMMA RecordingsAre ==
    ASSUME NEW n \in NoteRows
    PROVE  /\ n.at \in {"peeked", "reserving", "creating", "granted", "sending"} <=> n \in Recordings
           /\ n \in Recordings => /\ n.by \in Speakers /\ n.unwillingly \in BOOLEAN
                                  /\ n.charged \in 0..MaxSeconds /\ n.month \in Months_
           /\ NoNote \in NoteRows /\ Replied \in NoteRows
           /\ NoNote.at = "none" /\ Replied.at = "done"
           /\ NoNote \notin Recordings /\ Replied \notin Recordings
BY DEF NoteRows, NoNote, Replied, Recordings

LEMMA AwaitingTypes ==
    ASSUME NEW recs \in [Notes -> NoteRows], NEW m, NEW p
    PROVE  Awaiting(recs, m) \in [Notes -> Nat] /\ AwaitingOf(recs, m, p) \in [Notes -> Nat]
<1>1. ASSUME NEW n \in Notes, recs[n].at = "granted" PROVE recs[n].charged \in Nat
  BY <1>1, RecordingsAre, VoiceNumbers
<1>2. QED
  BY <1>1 DEF Awaiting, AwaitingOf

(* One recording moves on: what may be sent changes by what it may.         *)
LEMMA AwaitingMoves ==
    ASSUME NEW recs \in [Notes -> NoteRows], NEW after \in [Notes -> NoteRows], NEW n \in Notes,
           \A k \in Notes : k # n => after[k] = recs[k],
           NEW m, NEW p
    PROVE  /\ SumOf(Awaiting(recs, m), Notes) \in Nat /\ SumOf(Awaiting(after, m), Notes) \in Nat
           /\ SumOf(AwaitingOf(recs, m, p), Notes) \in Nat
           /\ SumOf(AwaitingOf(after, m, p), Notes) \in Nat
           /\ SumOf(Awaiting(after, m), Notes) + Awaiting(recs, m)[n]
                 = SumOf(Awaiting(recs, m), Notes) + Awaiting(after, m)[n]
           /\ SumOf(AwaitingOf(after, m, p), Notes) + AwaitingOf(recs, m, p)[n]
                 = SumOf(AwaitingOf(recs, m, p), Notes) + AwaitingOf(after, m, p)[n]
<1>3. /\ Awaiting(recs, m) \in [Notes -> Nat] /\ AwaitingOf(recs, m, p) \in [Notes -> Nat]
      /\ Awaiting(after, m) \in [Notes -> Nat] /\ AwaitingOf(after, m, p) \in [Notes -> Nat]
  BY AwaitingTypes
<1>4. \A k \in Notes : k # n => /\ Awaiting(after, m)[k] = Awaiting(recs, m)[k]
                                /\ AwaitingOf(after, m, p)[k] = AwaitingOf(recs, m, p)[k]
  BY DEF Awaiting, AwaitingOf
<1>5. SumOf(Awaiting(after, m), Notes) + Awaiting(recs, m)[n]
         = SumOf(Awaiting(recs, m), Notes) + Awaiting(after, m)[n]
  BY <1>3, <1>4, SumMoves, VoiceNumbers
<1>6. SumOf(AwaitingOf(after, m, p), Notes) + AwaitingOf(recs, m, p)[n]
         = SumOf(AwaitingOf(recs, m, p), Notes) + AwaitingOf(after, m, p)[n]
  BY <1>3, <1>4, SumMoves, VoiceNumbers
<1>7. /\ SumOf(Awaiting(recs, m), Notes) \in Nat /\ SumOf(Awaiting(after, m), Notes) \in Nat
      /\ SumOf(AwaitingOf(recs, m, p), Notes) \in Nat
      /\ SumOf(AwaitingOf(after, m, p), Notes) \in Nat
  BY <1>3, SumHolds, VoiceNumbers
<1>8. QED
  BY <1>5, <1>6, <1>7

(* Seconds are added to one person's.                                       *)
LEMMA LedgerAfter ==
    ASSUME NEW F \in Ledger, NEW m \in Months_, NEW p \in Speakers, NEW c \in Nat
    PROVE  \E after \in Ledger :
              /\ after = [F EXCEPT ![m][p] = @ + c]
              /\ after[m][p] = F[m][p] + c
              /\ \A q \in Speakers : q # p => after[m][q] = F[m][q]
              /\ \A k \in Months_ : k # m => after[k] = F[k]
<1>1. PICK row \in [Speakers -> Nat] : row = [F[m] EXCEPT ![p] = @ + c]
  <2>1. PICK old \in [Speakers -> Nat] : old = F[m]
    BY DEF Ledger
  <2>2. [old EXCEPT ![p] = @ + c] \in [Speakers -> Nat]
    OBVIOUS
  <2>3. QED
    BY <2>1, <2>2
<1>2. row[p] = F[m][p] + c /\ \A q \in Speakers : q # p => row[q] = F[m][q]
  BY <1>1 DEF Ledger
<1>3. PICK after \in Ledger : after = [F EXCEPT ![m] = row]
  BY DEF Ledger
<1>4. after[m] = row /\ \A k \in Months_ : k # m => after[k] = F[k]
  BY <1>3 DEF Ledger
<1>5. after = [F EXCEPT ![m][p] = @ + c]
  BY <1>1, <1>3
<1>6. QED
  BY <1>2, <1>4, <1>5

LEMMA LedgerMoves ==
    ASSUME NEW F \in Ledger, NEW after \in Ledger, NEW m \in Months_, NEW p \in Speakers,
           \A q \in Speakers : q # p => after[m][q] = F[m][q]
    PROVE  /\ SumOf(after[m], Speakers) + F[m][p] = SumOf(F[m], Speakers) + after[m][p]
           /\ SumOf(after[m], Speakers) \in Nat /\ SumOf(F[m], Speakers) \in Nat
           /\ F[m][p] \in Nat /\ after[m][p] \in Nat
<1>1. PICK f \in [Speakers -> Nat], h \in [Speakers -> Nat] : f = F[m] /\ h = after[m]
  BY DEF Ledger
<1>2. \A q \in Speakers : q # p => h[q] = f[q]
  BY <1>1
<1>3. SumOf(h, Speakers) + f[p] = SumOf(f, Speakers) + h[p]
  BY <1>2, SumMoves, VoiceNumbers
<1>4. SumOf(h, Speakers) \in Nat /\ SumOf(f, Speakers) \in Nat
  BY SumHolds, VoiceNumbers
<1>5. QED
  BY <1>1, <1>3, <1>4

LEMMA VoiceTotals ==
    ASSUME VoiceTypes, NEW m \in Months_
    PROVE  /\ Everyone_(m) = SumOf(used[m], Speakers) + SumOf(strays[m], Speakers) + folded[m]
           /\ SumOf(used[m], Speakers) \in Nat /\ SumOf(strays[m], Speakers) \in Nat
           /\ SumOf(transcribed[m], Speakers) \in Nat /\ folded[m] \in Nat
           /\ Everyone_(m) \in Nat
           /\ \A p \in Speakers : /\ used[m][p] \in Nat /\ strays[m][p] \in Nat
                                  /\ transcribed[m][p] \in Nat
                                  /\ voiceCounts.folds[p] \in Nat
                                  /\ PersonCap * voiceCounts.folds[p] \in Nat
<1>1. used[m] \in [Speakers -> Nat] /\ strays[m] \in [Speakers -> Nat]
      /\ transcribed[m] \in [Speakers -> Nat] /\ folded[m] \in Nat
  BY DEF VoiceTypes, Ledger
<1>2. SumOf(used[m], Speakers) \in Nat /\ SumOf(strays[m], Speakers) \in Nat
      /\ SumOf(transcribed[m], Speakers) \in Nat
  BY <1>1, SumHolds, VoiceNumbers
<1>3. Everyone_(m) = SumOf(used[m], Speakers) + SumOf(strays[m], Speakers) + folded[m]
  BY TotalIs DEF Everyone_
<1>4. ASSUME NEW p \in Speakers
      PROVE  /\ used[m][p] \in Nat /\ strays[m][p] \in Nat /\ transcribed[m][p] \in Nat
             /\ voiceCounts.folds[p] \in Nat /\ PersonCap * voiceCounts.folds[p] \in Nat
  <2>1. voiceCounts.folds[p] \in Nat
    BY DEF VoiceTypes
  <2>2. QED
    BY <1>1, <2>1, VoiceNumbers
<1>5. QED
  BY <1>1, <1>2, <1>3, <1>4

LEMMA VoiceMeans == VoiceIInv => VoiceTypeOK /\ VoiceInv
<1> SUFFICES ASSUME VoiceIInv PROVE VoiceTypeOK /\ VoiceInv
  OBVIOUS
<1> USE DEF VoiceIInv
<1>1. ASSUME NEW m \in Months_
      PROVE  /\ SumOf(transcribed[m], Speakers) <= Everyone_(m)
             /\ \A p \in Speakers :
                   transcribed[m][p] <= PersonCap * voiceCounts.folds[p] + used[m][p] + strays[m][p]
  <2>1. Awaiting(note, m) \in [Notes -> Nat] /\ \A p : AwaitingOf(note, m, p) \in [Notes -> Nat]
    BY AwaitingTypes DEF VoiceTypes
  <2>2. SumOf(Awaiting(note, m), Notes) \in Nat /\ \A p : SumOf(AwaitingOf(note, m, p), Notes) \in Nat
    BY <2>1, SumHolds, VoiceNumbers
  <2>3. SumOf(transcribed[m], Speakers) <= Everyone_(m)
    BY <2>2, VoiceTotals DEF ChargesStand
  <2>4. ASSUME NEW p \in Speakers
        PROVE  transcribed[m][p] <= PersonCap * voiceCounts.folds[p] + used[m][p] + strays[m][p]
    <3>1. transcribed[m][p] + SumOf(AwaitingOf(note, m, p), Notes)
             <= PersonCap * voiceCounts.folds[p] + used[m][p] + strays[m][p]
      BY DEF ChargesStand
    <3>2. QED
      BY <2>2, <3>1, VoiceTotals
  <2>5. QED
    BY <2>3, <2>4
<1>2. ASSUME NEW m \in Months_
      PROVE  /\ \A p \in Speakers : /\ used[m][p] <= OverallCap /\ strays[m][p] <= OverallCap
                                    /\ transcribed[m][p] <= OverallCap
             /\ folded[m] <= OverallCap /\ SumOf(transcribed[m], Speakers) <= OverallCap
  <2>1. used[m] \in [Speakers -> Nat] /\ strays[m] \in [Speakers -> Nat]
        /\ transcribed[m] \in [Speakers -> Nat]
    BY DEF VoiceTypes, Ledger
  <2>2. \A p \in Speakers : /\ used[m][p] <= SumOf(used[m], Speakers)
                            /\ strays[m][p] <= SumOf(strays[m], Speakers)
                            /\ transcribed[m][p] <= SumOf(transcribed[m], Speakers)
    BY <2>1, SumHolds, VoiceNumbers
  <2>3. Everyone_(m) <= OverallCap
    BY DEF CapsStand
  <2>4. /\ SumOf(used[m], Speakers) <= OverallCap /\ SumOf(strays[m], Speakers) <= OverallCap
        /\ folded[m] <= OverallCap /\ SumOf(transcribed[m], Speakers) <= OverallCap
    BY <1>1, <2>3, VoiceTotals, VoiceNumbers
  <2>5. QED
    BY <2>2, <2>4, VoiceTotals, VoiceNumbers
<1>3. VoiceTypeOK
  <2>1. \A F \in {used, strays, transcribed} : F \in [Months_ -> [Speakers -> Seconds]]
    <3>1. ASSUME NEW F \in Ledger, \A m \in Months_, p \in Speakers : F[m][p] <= OverallCap
          PROVE  F \in [Months_ -> [Speakers -> Seconds]]
      <4>1. ASSUME NEW m \in Months_ PROVE F[m] \in [Speakers -> Seconds]
        <5>1. F[m] \in [Speakers -> Nat] /\ \A p \in Speakers : F[m][p] <= OverallCap
          BY <3>1 DEF Ledger
        <5>2. \A p \in Speakers : F[m][p] \in Seconds
          BY <5>1, VoiceNumbers DEF Seconds
        <5>3. QED
          BY <5>1, <5>2
      <4>2. QED
        BY <4>1 DEF Ledger
    <3>2. QED
      BY <1>2, <3>1 DEF VoiceTypes
  <2>2. folded \in [Months_ -> Seconds]
    BY <1>2, VoiceNumbers DEF VoiceTypes, Seconds
  <2>3. \A n \in Notes : note[n] \in {NoNote, Replied} \cup Recordings
    BY DEF VoiceTypes, NoteRows
  <2>4. \A p \in Speakers : /\ Len(allowance[p]) <= MaxQuestions
                            /\ \A i \in DOMAIN allowance[p] : allowance[p][i] < LimitWindow
    BY DEF AllowanceStands
  <2>5. QED
    BY <2>1, <2>2, <2>3, <2>4 DEF VoiceTypes, VoiceTypeOK
<1>4. CeilingKept /\ SentIsCharged
  BY <1>1, <1>2, TotalIs DEF CeilingKept, SentIsCharged
<1>5. OwnCeilingKept
  <2> SUFFICES ASSUME NEW m \in Months_, NEW p \in Speakers
               PROVE  transcribed[m][p] <= PersonCap * (1 + voiceCounts.folds[p]) + strays[m][p]
    BY DEF OwnCeilingKept
  <2>1. used[m][p] <= PersonCap
    BY DEF CapsStand
  <2>2. PersonCap * (1 + voiceCounts.folds[p]) = PersonCap + PersonCap * voiceCounts.folds[p]
    BY VoiceTotals, VoiceNumbers
  <2>3. QED
    BY <1>1, <2>1, <2>2, VoiceTotals, VoiceNumbers
<1>6. UnwillingUnsent
  BY RecordingsAre DEF VoiceTypes, WillStands, UnwillingUnsent
<1>7. QED
  BY <1>3, <1>4, <1>5, <1>6 DEF VoiceInv

LEMMA VoiceInitially == VoiceInit => VoiceIInv
<1> SUFFICES ASSUME VoiceInit PROVE VoiceIInv
  OBVIOUS
<1> USE VoiceNumbers DEF VoiceInit
<1>1. VoiceTypes
  <2>1. 1 \in Months_
    BY DEF Months_
  <2>2. QED
    BY <2>1 DEF VoiceTypes, Ledger, NoteRows
<1>2. AllowanceStands
  BY DEF AllowanceStands
<1>3. ASSUME NEW m \in Months_
      PROVE  /\ SumOf(used[m], Speakers) = 0 /\ SumOf(strays[m], Speakers) = 0
             /\ SumOf(transcribed[m], Speakers) = 0 /\ folded[m] = 0
  <2>1. used[m] = [p \in Speakers |-> 0] /\ strays[m] = used[m] /\ transcribed[m] = used[m]
        /\ folded[m] = 0
    OBVIOUS
  <2>2. QED
    BY <2>1, SumOfNothing
<1>4. \A m \in Months_ : Everyone_(m) = 0
  BY <1>1, <1>3, VoiceTotals
<1>5. CapsStand
  BY <1>4 DEF CapsStand
<1>6. ChargesStand
  <2>1. ASSUME NEW m, NEW p
        PROVE  SumOf(Awaiting(note, m), Notes) = 0 /\ SumOf(AwaitingOf(note, m, p), Notes) = 0
    <3>1. Awaiting(note, m) = [n \in Notes |-> 0] /\ AwaitingOf(note, m, p) = [n \in Notes |-> 0]
      BY DEF Awaiting, AwaitingOf, NoNote
    <3>2. QED
      BY <3>1, SumOfNothing
  <2>2. ASSUME NEW m \in Months_, NEW p \in Speakers
        PROVE  /\ transcribed[m][p] = 0 /\ used[m][p] = 0 /\ strays[m][p] = 0
               /\ voiceCounts.folds[p] = 0
    OBVIOUS
  <2>3. QED
    BY <1>3, <1>4, <2>1, <2>2 DEF ChargesStand
<1>7. WillStands
  BY DEF WillStands, NoNote, Recordings
<1>8. QED
  BY <1>1, <1>2, <1>5, <1>6, <1>7 DEF VoiceIInv

(* A recording moves on with nothing granted: what was granted to it may no *)
(* longer be sent.                                                          *)
LEMMA NoteMovesOn ==
    ASSUME VoiceIInv, NEW n \in Notes, NEW next \in NoteRows,
           note' = [note EXCEPT ![n] = next], next.at # "granted",
           next \in Recordings => /\ next.unwillingly => next.by \in unwilling
                                  /\ next.at \in {"creating", "sending"} => ~next.unwillingly,
           AllowanceStands',
           UNCHANGED <<ledgerVars, unwilling, month, transcribed, voiceCounts>>
    PROVE  VoiceIInv'
<1> USE DEF VoiceIInv
<1>0. UNCHANGED <<linked, used, strays, folded, unwilling, month, transcribed, voiceCounts>>
  BY DEF ledgerVars
<1>1. /\ note' \in [Notes -> NoteRows] /\ note'[n] = next
      /\ \A k \in Notes : k # n => note'[k] = note[k]
  BY DEF VoiceTypes
<1>2. VoiceTypes'
  BY <1>0, <1>1 DEF VoiceTypes
<1>3. CapsStand'
  BY <1>0 DEF CapsStand, Everyone_
<1>4. ChargesStand'
  <2>1. ASSUME NEW m, NEW p
        PROVE  /\ SumOf(Awaiting(note', m), Notes) <= SumOf(Awaiting(note, m), Notes)
               /\ SumOf(AwaitingOf(note', m, p), Notes) <= SumOf(AwaitingOf(note, m, p), Notes)
               /\ SumOf(Awaiting(note', m), Notes) \in Nat /\ SumOf(Awaiting(note, m), Notes) \in Nat
               /\ SumOf(AwaitingOf(note', m, p), Notes) \in Nat
               /\ SumOf(AwaitingOf(note, m, p), Notes) \in Nat
    <3>1. Awaiting(note', m)[n] = 0 /\ AwaitingOf(note', m, p)[n] = 0
      BY <1>1 DEF Awaiting, AwaitingOf
    <3>2. PICK recs \in [Notes -> NoteRows], after \in [Notes -> NoteRows] :
             recs = note /\ after = note'
      BY <1>1 DEF VoiceTypes
    <3>3. Awaiting(recs, m) \in [Notes -> Nat] /\ AwaitingOf(recs, m, p) \in [Notes -> Nat]
      BY AwaitingTypes
    <3>4. Awaiting(recs, m)[n] \in Nat /\ AwaitingOf(recs, m, p)[n] \in Nat
      BY <3>3
    <3>5. \A k \in Notes : k # n => after[k] = recs[k]
      BY <1>1, <3>2
    <3>6. /\ SumOf(Awaiting(after, m), Notes) + Awaiting(recs, m)[n]
                = SumOf(Awaiting(recs, m), Notes) + Awaiting(after, m)[n]
          /\ SumOf(AwaitingOf(after, m, p), Notes) + AwaitingOf(recs, m, p)[n]
                = SumOf(AwaitingOf(recs, m, p), Notes) + AwaitingOf(after, m, p)[n]
          /\ SumOf(Awaiting(recs, m), Notes) \in Nat /\ SumOf(Awaiting(after, m), Notes) \in Nat
          /\ SumOf(AwaitingOf(recs, m, p), Notes) \in Nat
          /\ SumOf(AwaitingOf(after, m, p), Notes) \in Nat
      BY <3>5, AwaitingMoves
    <3>7. QED
      BY <3>1, <3>2, <3>4, <3>6
  <2>2. ASSUME NEW m \in Months_
        PROVE  /\ SumOf(transcribed[m], Speakers) + SumOf(Awaiting(note', m), Notes) <= Everyone_(m)
               /\ \A p \in Speakers :
                     transcribed[m][p] + SumOf(AwaitingOf(note', m, p), Notes)
                        <= PersonCap * voiceCounts.folds[p] + used[m][p] + strays[m][p]
    <3>1. SumOf(transcribed[m], Speakers) + SumOf(Awaiting(note', m), Notes) <= Everyone_(m)
      <4>1. SumOf(transcribed[m], Speakers) + SumOf(Awaiting(note, m), Notes) <= Everyone_(m)
        BY DEF ChargesStand
      <4>2. /\ SumOf(Awaiting(note', m), Notes) <= SumOf(Awaiting(note, m), Notes)
            /\ SumOf(Awaiting(note', m), Notes) \in Nat /\ SumOf(Awaiting(note, m), Notes) \in Nat
        BY <2>1
      <4>3. SumOf(transcribed[m], Speakers) \in Nat /\ Everyone_(m) \in Nat
        BY VoiceTotals
      <4>4. QED
        BY ONLY <4>1, <4>2, <4>3
    <3>2. ASSUME NEW p \in Speakers
          PROVE  transcribed[m][p] + SumOf(AwaitingOf(note', m, p), Notes)
                    <= PersonCap * voiceCounts.folds[p] + used[m][p] + strays[m][p]
      <4>1. transcribed[m][p] + SumOf(AwaitingOf(note, m, p), Notes)
               <= PersonCap * voiceCounts.folds[p] + used[m][p] + strays[m][p]
        BY DEF ChargesStand
      <4>2. /\ SumOf(AwaitingOf(note', m, p), Notes) <= SumOf(AwaitingOf(note, m, p), Notes)
            /\ SumOf(AwaitingOf(note', m, p), Notes) \in Nat
            /\ SumOf(AwaitingOf(note, m, p), Notes) \in Nat
        BY <2>1
      <4>3. /\ transcribed[m][p] \in Nat /\ PersonCap * voiceCounts.folds[p] \in Nat
            /\ used[m][p] \in Nat /\ strays[m][p] \in Nat
        BY VoiceTotals
      <4>4. QED
        BY ONLY <4>1, <4>2, <4>3
    <3>3. QED
      BY <3>1, <3>2
  <2>3. \A m \in Months_ : Everyone_(m)' = Everyone_(m)
    BY <1>0 DEF Everyone_
  <2>4. QED
    BY <1>0, <2>2, <2>3 DEF ChargesStand
<1>5. WillStands'
  BY <1>0, <1>1 DEF WillStands
<1>6. QED
  BY <1>2, <1>3, <1>4, <1>5

(* A charge, to a row of the person's or to one without an owner, and the   *)
(* leave to send as much; or neither.                                       *)
LEMMA ChargeStands ==
    ASSUME VoiceIInv, NEW n \in Notes, NEW next \in NoteRows, NEW m \in Months_, NEW p \in Speakers,
           NEW c \in Nat,
           note' = [note EXCEPT ![n] = next], note[n].at # "granted",
           \/ next.at = "granted" /\ next.month = m /\ next.by = p /\ next.charged = c
           \/ next.at # "granted" /\ c = 0,
           next \in Recordings => ~next.unwillingly,
           \/ /\ used' = [used EXCEPT ![m][p] = @ + c] /\ UNCHANGED strays
              /\ p \in linked' /\ used[m][p] + c <= PersonCap
           \/ strays' = [strays EXCEPT ![m][p] = @ + c] /\ UNCHANGED used,
           Everyone_(m) + c <= OverallCap,
           linked \subseteq linked', linked' \subseteq Speakers,
           UNCHANGED <<folded, unwilling, month, allowance, transcribed, voiceCounts>>
    PROVE  VoiceIInv'
<1> USE DEF VoiceIInv
<1>1. /\ note' \in [Notes -> NoteRows] /\ note'[n] = next
      /\ \A k \in Notes : k # n => note'[k] = note[k]
  BY DEF VoiceTypes
<1>2. used \in Ledger /\ strays \in Ledger
  BY DEF VoiceTypes
<1>3. /\ used' \in Ledger /\ strays' \in Ledger
      /\ \A k \in Months_, q \in Speakers : k # m \/ q # p =>
            used'[k][q] = used[k][q] /\ strays'[k][q] = strays[k][q]
      /\ \A k \in Months_ : k # m => used'[k] = used[k] /\ strays'[k] = strays[k]
      /\ used'[m][p] + strays'[m][p] = used[m][p] + strays[m][p] + c
      /\ used'[m][p] = used[m][p] \/ (used'[m][p] <= PersonCap /\ p \in linked')
      /\ SumOf(used'[m], Speakers) + SumOf(strays'[m], Speakers)
            = SumOf(used[m], Speakers) + SumOf(strays[m], Speakers) + c
  <2>1. /\ SumOf(used[m], Speakers) \in Nat /\ SumOf(strays[m], Speakers) \in Nat
        /\ used[m][p] \in Nat /\ strays[m][p] \in Nat
    BY VoiceTotals
  <2>2. CASE /\ used' = [used EXCEPT ![m][p] = @ + c] /\ UNCHANGED strays
             /\ p \in linked' /\ used[m][p] + c <= PersonCap
    <3>1. PICK F \in Ledger : F = used
      BY <1>2
    <3>2. PICK after \in Ledger :
             /\ after = [F EXCEPT ![m][p] = @ + c]
             /\ after[m][p] = F[m][p] + c
             /\ \A q \in Speakers : q # p => after[m][q] = F[m][q]
             /\ \A k \in Months_ : k # m => after[k] = F[k]
      BY LedgerAfter
    <3>3. after = used'
      BY <2>2, <3>1, <3>2
    <3>4. /\ SumOf(after[m], Speakers) + F[m][p] = SumOf(F[m], Speakers) + after[m][p]
          /\ SumOf(after[m], Speakers) \in Nat /\ SumOf(F[m], Speakers) \in Nat
          /\ F[m][p] \in Nat /\ after[m][p] \in Nat
      <4>1. \A q \in Speakers : q # p => after[m][q] = F[m][q]
        BY <3>2
      <4>2. QED
        BY <4>1, LedgerMoves
    <3>5. SumOf(after[m], Speakers) = SumOf(F[m], Speakers) + c
      BY ONLY <3>2, <3>4, c \in Nat
    <3>6. /\ used' \in Ledger /\ used'[m][p] = used[m][p] + c
          /\ \A q \in Speakers : q # p => used'[m][q] = used[m][q]
          /\ \A k \in Months_ : k # m => used'[k] = used[k]
          /\ SumOf(used'[m], Speakers) = SumOf(used[m], Speakers) + c
      BY ONLY <3>1, <3>2, <3>3, <3>5
    <3>7. QED
      BY <1>2, <2>1, <2>2, <3>6
  <2>3. CASE strays' = [strays EXCEPT ![m][p] = @ + c] /\ UNCHANGED used
    <3>1. PICK F \in Ledger : F = strays
      BY <1>2
    <3>2. PICK after \in Ledger :
             /\ after = [F EXCEPT ![m][p] = @ + c]
             /\ after[m][p] = F[m][p] + c
             /\ \A q \in Speakers : q # p => after[m][q] = F[m][q]
             /\ \A k \in Months_ : k # m => after[k] = F[k]
      BY LedgerAfter
    <3>3. after = strays'
      BY <2>3, <3>1, <3>2
    <3>4. /\ SumOf(after[m], Speakers) + F[m][p] = SumOf(F[m], Speakers) + after[m][p]
          /\ SumOf(after[m], Speakers) \in Nat /\ SumOf(F[m], Speakers) \in Nat
          /\ F[m][p] \in Nat /\ after[m][p] \in Nat
      <4>1. \A q \in Speakers : q # p => after[m][q] = F[m][q]
        BY <3>2
      <4>2. QED
        BY <4>1, LedgerMoves
    <3>5. SumOf(after[m], Speakers) = SumOf(F[m], Speakers) + c
      BY ONLY <3>2, <3>4, c \in Nat
    <3>6. /\ strays' \in Ledger /\ strays'[m][p] = strays[m][p] + c
          /\ \A q \in Speakers : q # p => strays'[m][q] = strays[m][q]
          /\ \A k \in Months_ : k # m => strays'[k] = strays[k]
          /\ SumOf(strays'[m], Speakers) = SumOf(strays[m], Speakers) + c
      BY ONLY <3>1, <3>2, <3>3, <3>5
    <3>7. QED
      BY <1>2, <2>1, <2>3, <3>6
  <2>4. QED
    BY <2>2, <2>3
<1>4. VoiceTypes'
  BY <1>1, <1>3 DEF VoiceTypes
<1>5. Everyone_(m)' = Everyone_(m) + c /\ \A k \in Months_ : k # m => Everyone_(k)' = Everyone_(k)
  <2>1. \A k \in Months_ : Everyone_(k)' = SumOf(used'[k], Speakers) + SumOf(strays'[k], Speakers)
                                            + folded'[k]
    BY TotalIs DEF Everyone_
  <2>2. /\ SumOf(used'[m], Speakers) \in Nat /\ SumOf(strays'[m], Speakers) \in Nat
    <3>1. used'[m] \in [Speakers -> Nat] /\ strays'[m] \in [Speakers -> Nat]
      BY <1>3 DEF Ledger
    <3>2. QED
      BY <3>1, SumHolds, VoiceNumbers
  <2>3. \A k \in Months_ : Everyone_(k) = SumOf(used[k], Speakers) + SumOf(strays[k], Speakers)
                                          + folded[k]
    BY TotalIs DEF Everyone_
  <2>4. QED
    BY <1>3, <2>1, <2>2, <2>3, VoiceTotals
<1>6. CapsStand'
  <2>1. ASSUME NEW k \in Months_, NEW q \in Speakers
        PROVE  used'[k][q] <= PersonCap /\ (q \notin linked' => used'[k][q] = 0)
    <3>1. used[k][q] <= PersonCap /\ (q \notin linked => used[k][q] = 0)
      BY DEF CapsStand
    <3>2. CASE k = m /\ q = p
      BY <1>3, <3>1, <3>2
    <3>3. CASE k # m \/ q # p
      BY <1>3, <3>1, <3>3
    <3>4. QED
      BY <3>2, <3>3
  <2>2. \A k \in Months_ : Everyone_(k)' <= OverallCap
    BY <1>5 DEF CapsStand
  <2>3. QED
    BY <2>1, <2>2 DEF CapsStand
<1>7. ChargesStand'
  <2> SUFFICES ASSUME NEW k \in Months_, NEW q \in Speakers
               PROVE  /\ SumOf(transcribed[k], Speakers) + SumOf(Awaiting(note', k), Notes) <= Everyone_(k)'
                      /\ transcribed[k][q] + SumOf(AwaitingOf(note', k, q), Notes)
                            <= PersonCap * voiceCounts.folds[q] + used'[k][q] + strays'[k][q]
    <3>1. CASE Speakers # {}
      BY <3>1 DEF ChargesStand
    <3>2. QED
      BY <3>1
  <2>1. /\ SumOf(transcribed[k], Speakers) + SumOf(Awaiting(note, k), Notes) <= Everyone_(k)
        /\ transcribed[k][q] + SumOf(AwaitingOf(note, k, q), Notes)
              <= PersonCap * voiceCounts.folds[q] + used[k][q] + strays[k][q]
    BY DEF ChargesStand
  <2>2. /\ Awaiting(note, k)[n] = 0 /\ AwaitingOf(note, k, q)[n] = 0
        /\ Awaiting(note', k)[n] = IF k = m THEN c ELSE 0
        /\ AwaitingOf(note', k, q)[n] = IF k = m /\ q = p THEN c ELSE 0
    BY <1>1 DEF Awaiting, AwaitingOf
  <2>3. PICK recs \in [Notes -> NoteRows], after \in [Notes -> NoteRows] :
           /\ recs = note /\ after = note'
           /\ \A j \in Notes : j # n => after[j] = recs[j]
    BY <1>1 DEF VoiceTypes
  <2>4. /\ SumOf(Awaiting(note, k), Notes) \in Nat
        /\ SumOf(AwaitingOf(note, k, q), Notes) \in Nat
        /\ SumOf(Awaiting(note', k), Notes)
              = SumOf(Awaiting(note, k), Notes) + (IF k = m THEN c ELSE 0)
        /\ SumOf(AwaitingOf(note', k, q), Notes)
              = SumOf(AwaitingOf(note, k, q), Notes) + (IF k = m /\ q = p THEN c ELSE 0)
    <3>1. /\ SumOf(Awaiting(after, k), Notes) + Awaiting(recs, k)[n]
                = SumOf(Awaiting(recs, k), Notes) + Awaiting(after, k)[n]
          /\ SumOf(AwaitingOf(after, k, q), Notes) + AwaitingOf(recs, k, q)[n]
                = SumOf(AwaitingOf(recs, k, q), Notes) + AwaitingOf(after, k, q)[n]
          /\ SumOf(Awaiting(recs, k), Notes) \in Nat /\ SumOf(Awaiting(after, k), Notes) \in Nat
          /\ SumOf(AwaitingOf(recs, k, q), Notes) \in Nat
          /\ SumOf(AwaitingOf(after, k, q), Notes) \in Nat
      <4>1. \A j \in Notes : j # n => after[j] = recs[j]
        BY <2>3
      <4>2. QED
        BY <4>1, AwaitingMoves
    <3>2. recs = note /\ after = note'
      BY <2>3
    <3>3. QED
      BY ONLY <2>2, <3>1, <3>2, c \in Nat
  <2>5. Everyone_(k)' = Everyone_(k) + (IF k = m THEN c ELSE 0)
    BY <1>5, VoiceTotals
  <2>6. used'[k][q] + strays'[k][q] = used[k][q] + strays[k][q] + (IF k = m /\ q = p THEN c ELSE 0)
    BY <1>3, VoiceTotals
  <2>7. used'[k][q] \in Nat /\ strays'[k][q] \in Nat
    BY <1>3 DEF Ledger
  <2>8. SumOf(transcribed[k], Speakers) + SumOf(Awaiting(note', k), Notes) <= Everyone_(k)'
    BY <2>1, <2>4, <2>5, VoiceTotals
  <2>9. transcribed[k][q] + SumOf(AwaitingOf(note', k, q), Notes)
           <= PersonCap * voiceCounts.folds[q] + used'[k][q] + strays'[k][q]
    BY <2>1, <2>4, <2>6, <2>7, VoiceTotals
  <2>10. QED
    BY <2>8, <2>9
<1>8. WillStands'
  BY <1>1 DEF WillStands
<1>9. AllowanceStands'
  BY DEF AllowanceStands
<1>10. QED
  BY <1>4, <1>6, <1>7, <1>8, <1>9

(* The limiter's window.                                                    *)
LEMMA AgedStands ==
    ASSUME NEW ages \in Seq(Nat),
           \A i, j \in 1..Len(ages) : i <= j => ages[j] <= ages[i]
    PROVE  /\ Aged(ages) \in Seq(Nat) /\ Len(Aged(ages)) <= Len(ages)
           /\ \A i, j \in 1..Len(Aged(ages)) : i <= j => Aged(ages)[j] <= Aged(ages)[i]
           /\ \A i \in 1..Len(Aged(ages)) : Aged(ages)[i] < LimitWindow
<1> DEFINE K == {k \in 0..Len(ages) : k < Len(ages) => ages[k + 1] + 1 < LimitWindow}
           left == Min(K)
<1>1. Len(ages) \in Nat /\ \A i \in 1..Len(ages) : ages[i] \in Nat
  OBVIOUS
<1>2. left \in K
  <2>1. K \in SUBSET Nat /\ Len(ages) \in K
    BY <1>1
  <2> HIDE DEF K
  <2>2. QED
    BY <2>1, LeastStands
<1>3. PICK k \in 0..Len(ages) : k = left /\ (k < Len(ages) => ages[k + 1] + 1 < LimitWindow)
  BY <1>2
<1>4. Aged(ages) = [i \in 1..(Len(ages) - k) |-> ages[k + i] + 1]
  <2>1. Aged(ages) = [i \in 1..(Len(ages) - left) |-> ages[left + i] + 1]
    BY DEF Aged
  <2> HIDE DEF left
  <2>2. QED
    BY <1>3, <2>1
<1> HIDE DEF K, left
<1>5. PICK n \in Nat : n = Len(ages) - k /\ \A i \in 1..n : k + i \in 1..Len(ages)
  <2>1. Len(ages) - k \in Nat /\ \A i \in 1..(Len(ages) - k) : k + i \in 1..Len(ages)
    BY ONLY <1>1, k \in 0..Len(ages)
  <2>2. QED
    BY ONLY <2>1
<1>6. PICK new \in [1..n -> Nat] : new = Aged(ages) /\ \A i \in 1..n : new[i] = ages[k + i] + 1
  <2>1. \A i \in 1..n : ages[k + i] + 1 \in Nat
    BY <1>1, <1>5
  <2>2. Aged(ages) = [i \in 1..n |-> ages[k + i] + 1]
    BY <1>4, <1>5
  <2>3. [i \in 1..n |-> ages[k + i] + 1] \in [1..n -> Nat]
    BY <2>1
  <2>4. QED
    BY <2>2, <2>3
<1>7. new \in Seq(Nat) /\ Len(new) = n
  OBVIOUS
<1>8. ASSUME NEW i \in 1..n, NEW j \in 1..n, i <= j PROVE new[j] <= new[i]
  <2>1. ages[k + j] <= ages[k + i]
    <3>1. PICK a \in 1..Len(ages), b \in 1..Len(ages) : a = k + i /\ b = k + j
      BY <1>5
    <3>2. a <= b
      BY <1>8, <3>1
    <3>3. QED
      BY <3>1, <3>2
  <2>2. ages[k + j] \in Nat /\ ages[k + i] \in Nat
    BY <1>1, <1>5
  <2>3. PICK x \in Nat, y \in Nat : x = ages[k + i] /\ y = ages[k + j]
    BY <2>2
  <2>4. new[i] = x + 1 /\ new[j] = y + 1 /\ y <= x
    BY <1>6, <2>1, <2>3
  <2>5. PICK u \in Nat, v \in Nat : u = new[i] /\ v = new[j]
    OBVIOUS
  <2>6. u = x + 1 /\ v = y + 1 /\ y <= x
    BY <2>4, <2>5
  <2>7. v <= u
    BY ONLY <2>6, x \in Nat, y \in Nat
  <2>8. QED
    BY <2>5, <2>7
<1>9. ASSUME NEW i \in 1..n PROVE new[i] < LimitWindow
  <2>1. 1 \in 1..n /\ 1 <= i /\ k < Len(ages)
    BY <1>1, <1>5
  <2>2. new[i] <= new[1]
    BY <1>8, <2>1
  <2>3. new[1] < LimitWindow
    BY <1>3, <1>6, <2>1
  <2>4. new[1] \in Nat /\ new[i] \in Nat
    BY <2>1
  <2>5. QED
    BY <2>2, <2>3, <2>4, VoiceNumbers
<1>10. n <= Len(ages)
  BY <1>1, <1>5
<1>11. QED
  BY <1>6, <1>7, <1>8, <1>9, <1>10

LEMMA AskedStands ==
    ASSUME AllowanceStands, NEW p \in Speakers, Allowed(p), allowance' = Asked_(p)
    PROVE  AllowanceStands'
<1> USE VoiceNumbers DEF AllowanceStands
<1>1. PICK old \in Seq(Nat) : old = allowance[p] /\ Len(old) < MaxQuestions
  BY DEF Allowed
<1>2. PICK new \in Seq(Nat) : new = Append(old, 0)
  <2>1. Append(old, 0) \in Seq(Nat)
    BY ONLY old \in Seq(Nat)
  <2>2. QED
    BY ONLY <2>1
<1>3. /\ Len(new) = Len(old) + 1 /\ Len(old) \in Nat /\ new[Len(new)] = 0
      /\ \A i \in 1..Len(old) : new[i] = old[i] /\ old[i] \in Nat
  BY <1>2
<1>4. allowance' = [allowance EXCEPT ![p] = new]
  BY <1>1, <1>2 DEF Asked_
<1>5. /\ allowance' \in [Speakers -> Seq(Nat)] /\ allowance'[p] = new
      /\ \A q \in Speakers : q # p => allowance'[q] = allowance[q]
  BY <1>4
<1>6. /\ \A i, j \in 1..Len(old) : i <= j => old[j] <= old[i]
      /\ \A i \in 1..Len(old) : old[i] < LimitWindow
  BY <1>1
<1>7. ASSUME NEW i \in 1..Len(new), NEW j \in 1..Len(new), i <= j PROVE new[j] <= new[i]
  <2>1. CASE j = Len(new)
    <3>1. new[j] = 0 /\ new[i] \in Nat
      BY ONLY <1>3, <2>1, new \in Seq(Nat), i \in 1..Len(new)
    <3>2. QED
      BY <3>1
  <2>2. CASE j # Len(new)
    <3>1. i \in 1..Len(old) /\ j \in 1..Len(old)
      BY <1>3, <1>7, <2>2
    <3>2. QED
      BY <1>3, <1>6, <1>7, <3>1
  <2>3. QED
    BY <2>1, <2>2
<1>8. ASSUME NEW i \in 1..Len(new) PROVE new[i] < LimitWindow
  <2>1. CASE i = Len(new)
    BY <1>3, <2>1
  <2>2. CASE i # Len(new)
    <3>1. i \in 1..Len(old)
      BY <1>3, <2>2
    <3>2. QED
      BY <1>3, <1>6, <3>1
  <2>3. QED
    BY <2>1, <2>2
<1>9. Len(new) <= MaxQuestions
  BY <1>1, <1>3
<1>10. QED
  BY <1>5, <1>7, <1>8, <1>9

LEMMA NoteEnds ==
    ASSUME VoiceIInv, NEW n \in Notes, note' = [note EXCEPT ![n] = Replied], AllowanceStands',
           UNCHANGED <<ledgerVars, unwilling, month, transcribed, voiceCounts>>
    PROVE  VoiceIInv'
<1>1. Replied \in NoteRows /\ Replied.at = "done" /\ Replied \notin Recordings
  BY DEF NoteRows, Replied, Recordings
<1>2. PICK next \in NoteRows : next = Replied
  BY <1>1
<1>3. next.at # "granted" /\ next \notin Recordings
  BY <1>1, <1>2
<1>4. note' = [note EXCEPT ![n] = next]
  BY <1>2
<1>5. QED
  BY <1>3, <1>4, NoteMovesOn

LEMMA RecordingMoves ==
    ASSUME NEW r \in Recordings, NEW a \in {"peeked", "reserving", "creating", "granted", "sending"},
           NEW c \in 0..MaxSeconds, NEW m \in Months_
    PROVE  /\ [r EXCEPT !.at = a] \in Recordings
           /\ [r EXCEPT !.at = a].at = a /\ [r EXCEPT !.at = a].by = r.by
           /\ [r EXCEPT !.at = a].unwillingly = r.unwillingly
           /\ [r EXCEPT !.at = a].charged = r.charged /\ [r EXCEPT !.at = a].month = r.month
           /\ [r EXCEPT !.at = a, !.charged = c, !.month = m] \in Recordings
           /\ [r EXCEPT !.at = a, !.charged = c, !.month = m].at = a
           /\ [r EXCEPT !.at = a, !.charged = c, !.month = m].by = r.by
           /\ [r EXCEPT !.at = a, !.charged = c, !.month = m].unwillingly = r.unwillingly
BY DEF Recordings

LEMMA ArriveStands == ASSUME VoiceIInv, NEW n \in Notes, Arrive(n) PROVE VoiceIInv'
<1> USE DEF VoiceIInv
<1>1. AllowanceStands'
  BY DEF Arrive, AllowanceStands
<1>2. UNCHANGED <<ledgerVars, unwilling, month, transcribed, voiceCounts>>
  BY DEF Arrive
<1>3. PICK p \in Speakers : note' = [note EXCEPT ![n] =
              IF ~Allowed(p) THEN Replied
              ELSE [at |-> "peeked", by |-> p, unwillingly |-> p \in unwilling,
                    charged |-> 0, month |-> 1]]
  BY DEF Arrive
<1>4. CASE ~Allowed(p)
  BY <1>1, <1>2, <1>3, <1>4, NoteEnds
<1>5. CASE Allowed(p)
  <2>1. PICK u \in BOOLEAN : u = (p \in unwilling)
    <3>1. (p \in unwilling) \in BOOLEAN
      OBVIOUS
    <3>2. QED
      BY <3>1, Zenon
  <2>2. [at |-> "peeked", by |-> p, unwillingly |-> u, charged |-> 0, month |-> 1] \in Recordings
    BY VoiceNumbers DEF Recordings, Months_
  <2>3. PICK next \in NoteRows :
           next = [at |-> "peeked", by |-> p, unwillingly |-> u, charged |-> 0, month |-> 1]
    BY <2>2 DEF NoteRows
  <2>4. next.at = "peeked" /\ next.by = p /\ next.unwillingly = u
    BY <2>3
  <2>5. note' = [note EXCEPT ![n] = next]
    BY <1>3, <1>5, <2>1, <2>3
  <2>6. next.unwillingly => next.by \in unwilling
    BY <2>1, <2>4
  <2>7. QED
    BY <1>1, <1>2, <2>4, <2>5, <2>6, NoteMovesOn
<1>6. QED
  BY <1>4, <1>5

LEMMA HearStands == ASSUME VoiceIInv, NEW n \in Notes, Hear(n) PROVE VoiceIInv'
<1> USE DEF VoiceIInv
<1>1. AllowanceStands'
  BY DEF Hear, AllowanceStands
<1>2. UNCHANGED <<ledgerVars, unwilling, month, transcribed, voiceCounts>>
  BY DEF Hear
<1>3. PICK fits \in BOOLEAN, declared \in {Undeclared} \cup Lengths :
         note' = [note EXCEPT ![n] =
              IF ClipRefused(fits, declared) THEN Replied
              ELSE [@ EXCEPT !.at = "reserving", !.charged = Charged(declared), !.month = month]]
  BY DEF Hear
<1>4. PICK r \in Recordings : r = note[n]
  <2>1. note[n] \in NoteRows /\ note[n].at = "peeked"
    BY DEF Hear, VoiceTypes
  <2>2. QED
    BY <2>1, RecordingsAre
<1>5. CASE ClipRefused(fits, declared)
  BY <1>1, <1>2, <1>3, <1>5, NoteEnds
<1>6. CASE ~ClipRefused(fits, declared)
  <2>1. PICK c \in 0..MaxSeconds : c = Charged(declared)
    BY <1>6, VoiceNumbers DEF Charged, ClipRefused, Lengths, Undeclared
  <2>2. PICK m \in Months_ : m = month
    BY DEF VoiceTypes
  <2>3. PICK next \in NoteRows : next = [r EXCEPT !.at = "reserving", !.charged = c, !.month = m]
    BY RecordingMoves DEF NoteRows
  <2>4. next.at = "reserving" /\ next.by = r.by /\ next.unwillingly = r.unwillingly
    BY <2>3 DEF Recordings
  <2>5. note' = [note EXCEPT ![n] = next]
    BY <1>3, <1>4, <1>6, <2>1, <2>2, <2>3 DEF VoiceTypes
  <2>6. next.unwillingly => next.by \in unwilling
    BY <1>4, <2>4 DEF WillStands
  <2>7. QED
    BY <1>1, <1>2, <2>4, <2>5, <2>6, NoteMovesOn
<1>7. QED
  BY <1>5, <1>6

LEMMA ReserveUnseenStands == ASSUME VoiceIInv, NEW n \in Notes, ReserveUnseen(n) PROVE VoiceIInv'
<1> USE DEF VoiceIInv
<1>1. AllowanceStands'
  BY DEF ReserveUnseen, AllowanceStands
<1>2. UNCHANGED <<ledgerVars, unwilling, month, transcribed, voiceCounts>>
  BY DEF ReserveUnseen
<1>3. PICK r \in Recordings : r = note[n]
  <2>1. note[n] \in NoteRows /\ note[n].at = "reserving"
    BY DEF ReserveUnseen, VoiceTypes
  <2>2. QED
    BY <2>1, RecordingsAre
<1>4. PICK next \in NoteRows : next = [r EXCEPT !.at = "creating"]
  <2>1. [r EXCEPT !.at = "creating"] \in Recordings
    BY DEF Recordings
  <2>2. QED
    BY <2>1 DEF NoteRows
<1>5. next.at = "creating" /\ next.by = r.by /\ next.unwillingly = r.unwillingly
  BY <1>4 DEF Recordings
<1>6. note' = [note EXCEPT ![n] = next]
  BY <1>3, <1>4 DEF ReserveUnseen, VoiceTypes
<1>7. ~next.unwillingly
  <2>1. r.unwillingly => r.by \in linked
    BY <1>3 DEF WillStands, VoiceTypes
  <2>2. r.by \notin linked
    BY <1>3 DEF ReserveUnseen
  <2>3. QED
    BY <1>5, <2>1, <2>2
<1>8. QED
  BY <1>1, <1>2, <1>5, <1>6, <1>7, NoteMovesOn

LEMMA EndingStands ==
    ASSUME VoiceIInv, NEW n \in Notes, LedgerFails(n) \/ Ask(n)
    PROVE  VoiceIInv'
<1> USE DEF VoiceIInv
<1>1. CASE LedgerFails(n)
  <2>1. AllowanceStands'
    BY <1>1 DEF LedgerFails, AllowanceStands
  <2>2. QED
    BY <1>1, <2>1, NoteEnds DEF LedgerFails
<1>2. CASE Ask(n)
  <2>1. PICK p : p = note[n].by
    OBVIOUS
  <2>2. note[n] \in Recordings
    <3>1. note[n] \in NoteRows /\ note[n].at = "sending"
      BY <1>2 DEF Ask, VoiceTypes
    <3>2. QED
      BY <3>1, RecordingsAre
  <2>3. p \in Speakers
    BY <2>1, <2>2 DEF Recordings
  <2>4. AllowanceStands'
    <3>1. UNCHANGED allowance \/ (Allowed(p) /\ allowance' = Asked_(p))
      BY <1>2, <2>1 DEF Ask
    <3>2. CASE UNCHANGED allowance
      BY <3>2 DEF AllowanceStands
    <3>3. CASE Allowed(p) /\ allowance' = Asked_(p)
      BY <2>3, <3>3, AskedStands
    <3>4. QED
      BY <3>1, <3>2, <3>3
  <2>5. note' = [note EXCEPT ![n] = Replied]
    BY <1>2 DEF Ask
  <2>6. QED
    BY <1>2, <2>4, <2>5, NoteEnds DEF Ask
<1>3. QED
  BY <1>1, <1>2

LEMMA ReserveStands == ASSUME VoiceIInv, NEW n \in Notes, Reserve(n) PROVE VoiceIInv'
<1> USE DEF VoiceIInv
<1>1. PICK r \in Recordings : r = note[n] /\ r.at = "reserving"
  <2>1. note[n] \in NoteRows /\ note[n].at = "reserving"
    BY DEF Reserve, VoiceTypes
  <2>2. QED
    BY <2>1, RecordingsAre
<1>2. PICK p \in Speakers, m \in Months_, c \in Nat : p = r.by /\ m = r.month /\ c = r.charged
  BY VoiceNumbers DEF Recordings
<1>3. /\ p \in linked
      /\ UNCHANGED <<linked, strays, folded, unwilling, month, allowance, transcribed, voiceCounts>>
      /\ IF p \notin unwilling /\ WithinCaps(r, used[m][p])
         THEN /\ note' = [note EXCEPT ![n].at = "granted"]
              /\ used' = [used EXCEPT ![m][p] = @ + c]
         ELSE note' = [note EXCEPT ![n] = Replied] /\ UNCHANGED used
  BY <1>1, <1>2 DEF Reserve
<1>4. CASE p \notin unwilling /\ WithinCaps(r, used[m][p])
  <2>1. PICK next \in NoteRows : next = [r EXCEPT !.at = "granted"]
    <3>1. [r EXCEPT !.at = "granted"] \in Recordings
      BY DEF Recordings
    <3>2. QED
      BY <3>1 DEF NoteRows
  <2>2. /\ next.at = "granted" /\ next.by = p /\ next.month = m /\ next.charged = c
        /\ next.unwillingly = r.unwillingly
    BY <1>2, <2>1 DEF Recordings
  <2>3. note' = [note EXCEPT ![n] = next]
    BY <1>1, <1>3, <1>4, <2>1 DEF VoiceTypes
  <2>4. ~next.unwillingly
    BY <1>1, <1>2, <1>4, <2>2 DEF WillStands
  <2>5. used[m][p] + c <= PersonCap /\ Everyone_(m) + c <= OverallCap
    BY <1>2, <1>4 DEF WithinCaps
  <2>6. used' = [used EXCEPT ![m][p] = @ + c]
    BY <1>3, <1>4
  <2>7. linked \subseteq linked' /\ linked' \subseteq Speakers /\ p \in linked'
    BY <1>3 DEF VoiceTypes
  <2>8. note[n].at # "granted"
    BY <1>1
  <2>9. UNCHANGED strays /\ UNCHANGED <<folded, unwilling, month, allowance, transcribed, voiceCounts>>
    BY <1>3
  <2>10. QED
    BY <2>2, <2>3, <2>4, <2>5, <2>6, <2>7, <2>8, <2>9, ChargeStands
<1>5. CASE ~(p \notin unwilling /\ WithinCaps(r, used[m][p]))
  <2>1. AllowanceStands'
    BY <1>3 DEF AllowanceStands
  <2>2. note' = [note EXCEPT ![n] = Replied] /\ UNCHANGED <<ledgerVars, unwilling, month, transcribed,
                                                           voiceCounts>>
    BY <1>3, <1>5 DEF ledgerVars
  <2>3. QED
    BY <2>1, <2>2, NoteEnds
<1>6. QED
  BY <1>4, <1>5

LEMMA ReserveCreatedStands ==
    ASSUME VoiceIInv, NEW n \in Notes, ReserveCreated(n)
    PROVE  VoiceIInv'
<1> USE DEF VoiceIInv
<1>1. PICK r \in Recordings : r = note[n] /\ r.at = "creating"
  <2>1. note[n] \in NoteRows /\ note[n].at = "creating"
    BY DEF ReserveCreated, VoiceTypes
  <2>2. QED
    BY <2>1, RecordingsAre
<1>2. PICK p \in Speakers, m \in Months_ : p = r.by /\ m = r.month /\ r.charged \in Nat
  BY VoiceNumbers DEF Recordings
<1>3. PICK c \in Nat : c = IF WithinCaps(r, 0) THEN r.charged ELSE 0
  BY <1>2
<1>4. /\ note' = [note EXCEPT ![n] = IF WithinCaps(r, 0) THEN [@ EXCEPT !.at = "granted"] ELSE Replied]
      /\ linked' = linked \cup {p}
      /\ IF p \in linked
         THEN strays' = [strays EXCEPT ![m][p] = @ + c] /\ UNCHANGED used
         ELSE used' = [used EXCEPT ![m][p] = @ + c] /\ UNCHANGED strays
      /\ UNCHANGED <<folded, unwilling, month, allowance, transcribed, voiceCounts>>
  BY <1>1, <1>2, <1>3 DEF ReserveCreated
<1>5. linked \subseteq linked' /\ linked' \subseteq Speakers /\ p \in linked' /\ note[n].at # "granted"
  BY <1>1, <1>4 DEF VoiceTypes
<1>6. Everyone_(m) + c <= OverallCap /\ c <= PersonCap
  <2>1. CASE WithinCaps(r, 0)
    BY <1>2, <1>3, <2>1 DEF WithinCaps
  <2>2. CASE ~WithinCaps(r, 0)
    <3>1. Everyone_(m) <= OverallCap /\ Everyone_(m) \in Nat
      BY VoiceTotals DEF CapsStand
    <3>2. QED
      BY <1>3, <2>2, <3>1, VoiceNumbers
  <2>3. QED
    BY <2>1, <2>2
<1>7. \/ /\ used' = [used EXCEPT ![m][p] = @ + c] /\ UNCHANGED strays
         /\ p \in linked' /\ used[m][p] + c <= PersonCap
      \/ strays' = [strays EXCEPT ![m][p] = @ + c] /\ UNCHANGED used
  <2>1. p \notin linked => used[m][p] = 0
    BY DEF CapsStand
  <2>2. p \notin linked => used[m][p] + c <= PersonCap
    BY <1>6, <2>1
  <2>3. QED
    BY <1>4, <1>5, <2>2
<1>8. PICK next \in NoteRows : next = IF WithinCaps(r, 0) THEN [r EXCEPT !.at = "granted"] ELSE Replied
  <2>1. [r EXCEPT !.at = "granted"] \in Recordings
    BY DEF Recordings
  <2>2. QED
    BY <2>1 DEF NoteRows
<1>9. note' = [note EXCEPT ![n] = next]
  BY <1>1, <1>4, <1>8 DEF VoiceTypes
<1>10. /\ \/ next.at = "granted" /\ next.month = m /\ next.by = p /\ next.charged = c
          \/ next.at # "granted" /\ c = 0
       /\ next \in Recordings => next.unwillingly = r.unwillingly
  <2>1. CASE WithinCaps(r, 0)
    BY <1>2, <1>3, <1>8, <2>1 DEF Recordings
  <2>2. CASE ~WithinCaps(r, 0)
    BY <1>3, <1>8, <2>2 DEF Recordings, Replied
  <2>3. QED
    BY <2>1, <2>2
<1>11. next \in Recordings => ~next.unwillingly
  BY <1>1, <1>10 DEF WillStands
<1>12. UNCHANGED <<folded, unwilling, month, allowance, transcribed, voiceCounts>>
  BY <1>4
<1>13. QED
  BY <1>5, <1>6, <1>7, <1>9, <1>10, <1>11, <1>12, ChargeStands

(* What is sent is no more than what was charged for it.                    *)
LEMMA SendStands ==
    ASSUME VoiceIInv, NEW n \in Notes, NEW r \in Recordings, r = note[n], r.at = "granted",
           NEW actual \in Nat, actual <= r.charged,
           note' = [note EXCEPT ![n].at = "sending"],
           transcribed' = [transcribed EXCEPT ![r.month][r.by] = @ + actual],
           UNCHANGED <<ledgerVars, unwilling, month, allowance, voiceCounts>>
    PROVE  VoiceIInv'
<1> USE DEF VoiceIInv
<1>0. UNCHANGED <<linked, used, strays, folded, unwilling, month, allowance, voiceCounts>>
  BY DEF ledgerVars
<1>1. PICK p \in Speakers, m \in Months_, c \in Nat : p = r.by /\ m = r.month /\ c = r.charged
  BY VoiceNumbers DEF Recordings
<1>2. PICK next \in NoteRows : next = [r EXCEPT !.at = "sending"]
  <2>1. [r EXCEPT !.at = "sending"] \in Recordings
    BY DEF Recordings
  <2>2. QED
    BY <2>1 DEF NoteRows
<1>3. next.at = "sending" /\ next.unwillingly = r.unwillingly
  BY <1>2 DEF Recordings
<1>4. /\ note' \in [Notes -> NoteRows] /\ note'[n] = next
      /\ \A k \in Notes : k # n => note'[k] = note[k]
  BY <1>2 DEF VoiceTypes
<1>5. PICK F \in Ledger : F = transcribed
  BY DEF VoiceTypes
<1>6. PICK after \in Ledger :
         /\ after = [F EXCEPT ![m][p] = @ + actual]
         /\ after[m][p] = F[m][p] + actual
         /\ \A q \in Speakers : q # p => after[m][q] = F[m][q]
         /\ \A k \in Months_ : k # m => after[k] = F[k]
  BY LedgerAfter
<1>7. after = transcribed'
  BY <1>1, <1>5, <1>6
<1>8. /\ SumOf(after[m], Speakers) = SumOf(F[m], Speakers) + actual
      /\ SumOf(F[m], Speakers) \in Nat
  <2>1. /\ SumOf(after[m], Speakers) + F[m][p] = SumOf(F[m], Speakers) + after[m][p]
        /\ SumOf(after[m], Speakers) \in Nat /\ SumOf(F[m], Speakers) \in Nat
        /\ F[m][p] \in Nat /\ after[m][p] \in Nat
    <3>1. \A q \in Speakers : q # p => after[m][q] = F[m][q]
      BY <1>6
    <3>2. QED
      BY <3>1, LedgerMoves
  <2>2. after[m][p] = F[m][p] + actual
    BY <1>6
  <2>3. QED
    BY ONLY <2>1, <2>2, actual \in Nat
<1>9. VoiceTypes'
  BY <1>0, <1>4, <1>7 DEF VoiceTypes
<1>10. CapsStand'
  BY <1>0 DEF CapsStand, Everyone_
<1>11. \A k \in Months_ : Everyone_(k)' = Everyone_(k)
  BY <1>0 DEF Everyone_
<1>12. ASSUME NEW k \in Months_, NEW q \in Speakers
       PROVE  /\ SumOf(after[k], Speakers) + SumOf(Awaiting(note', k), Notes) <= Everyone_(k)
              /\ after[k][q] + SumOf(AwaitingOf(note', k, q), Notes)
                    <= PersonCap * voiceCounts.folds[q] + used[k][q] + strays[k][q]
  <2>1. /\ SumOf(F[k], Speakers) + SumOf(Awaiting(note, k), Notes) <= Everyone_(k)
        /\ F[k][q] + SumOf(AwaitingOf(note, k, q), Notes)
              <= PersonCap * voiceCounts.folds[q] + used[k][q] + strays[k][q]
    BY <1>5 DEF ChargesStand
  <2>2. /\ Awaiting(note', k)[n] = 0 /\ AwaitingOf(note', k, q)[n] = 0
        /\ Awaiting(note, k)[n] = IF k = m THEN c ELSE 0
        /\ AwaitingOf(note, k, q)[n] = IF k = m /\ q = p THEN c ELSE 0
    BY <1>1, <1>3, <1>4 DEF Awaiting, AwaitingOf
  <2>3. PICK recs \in [Notes -> NoteRows], later \in [Notes -> NoteRows] :
           /\ recs = note /\ later = note'
           /\ \A j \in Notes : j # n => later[j] = recs[j]
    BY <1>4 DEF VoiceTypes
  <2>4. /\ SumOf(Awaiting(note', k), Notes) \in Nat
        /\ SumOf(AwaitingOf(note', k, q), Notes) \in Nat
        /\ SumOf(Awaiting(note, k), Notes)
              = SumOf(Awaiting(note', k), Notes) + (IF k = m THEN c ELSE 0)
        /\ SumOf(AwaitingOf(note, k, q), Notes)
              = SumOf(AwaitingOf(note', k, q), Notes) + (IF k = m /\ q = p THEN c ELSE 0)
    <3>1. /\ SumOf(Awaiting(later, k), Notes) + Awaiting(recs, k)[n]
                = SumOf(Awaiting(recs, k), Notes) + Awaiting(later, k)[n]
          /\ SumOf(AwaitingOf(later, k, q), Notes) + AwaitingOf(recs, k, q)[n]
                = SumOf(AwaitingOf(recs, k, q), Notes) + AwaitingOf(later, k, q)[n]
          /\ SumOf(Awaiting(recs, k), Notes) \in Nat /\ SumOf(Awaiting(later, k), Notes) \in Nat
          /\ SumOf(AwaitingOf(recs, k, q), Notes) \in Nat
          /\ SumOf(AwaitingOf(later, k, q), Notes) \in Nat
      <4>1. \A j \in Notes : j # n => later[j] = recs[j]
        BY <2>3
      <4>2. QED
        BY <4>1, AwaitingMoves
    <3>2. recs = note /\ later = note'
      BY <2>3
    <3>3. QED
      BY ONLY <2>2, <3>1, <3>2, c \in Nat
  <2>5. /\ SumOf(after[k], Speakers) <= SumOf(F[k], Speakers) + (IF k = m THEN c ELSE 0)
        /\ SumOf(after[k], Speakers) \in Nat /\ SumOf(F[k], Speakers) \in Nat
    <3>1. /\ SumOf(F[k], Speakers) \in Nat
      BY <1>5, VoiceTotals
    <3>2. CASE k = m
      BY <1>1, <1>8, <3>2
    <3>3. CASE k # m
      BY <1>6, <3>1, <3>3
    <3>4. QED
      BY <3>2, <3>3
  <2>6. /\ after[k][q] <= F[k][q] + (IF k = m /\ q = p THEN c ELSE 0)
        /\ after[k][q] \in Nat /\ F[k][q] \in Nat
    <3>1. F[k][q] \in Nat
      BY <1>5, VoiceTotals
    <3>2. CASE k = m /\ q = p
      <4>1. after[k][q] = F[k][q] + actual
        BY <1>6, <3>2
      <4>2. actual <= c
        BY <1>1
      <4>3. QED
        BY ONLY <3>1, <3>2, <4>1, <4>2, c \in Nat, actual \in Nat
    <3>3. CASE k # m \/ q # p
      BY <1>6, <3>1, <3>3
    <3>4. QED
      BY <3>2, <3>3
  <2>7. /\ Everyone_(k) \in Nat /\ PersonCap * voiceCounts.folds[q] \in Nat
        /\ used[k][q] \in Nat /\ strays[k][q] \in Nat
    BY VoiceTotals
  <2>8. QED
    BY ONLY <2>1, <2>4, <2>5, <2>6, <2>7, c \in Nat
<1>13. ChargesStand'
  BY <1>0, <1>7, <1>11, <1>12 DEF ChargesStand
<1>14. WillStands'
  BY <1>0, <1>3, <1>4 DEF WillStands
<1>15. AllowanceStands'
  BY <1>0 DEF AllowanceStands
<1>16. QED
  BY <1>9, <1>10, <1>13, <1>14, <1>15

LEMMA DownloadStands == ASSUME VoiceIInv, NEW n \in Notes, Download(n) PROVE VoiceIInv'
<1> USE DEF VoiceIInv
<1>1. PICK r \in Recordings : r = note[n] /\ r.at = "granted"
  <2>1. note[n] \in NoteRows /\ note[n].at = "granted"
    BY DEF Download, VoiceTypes
  <2>2. QED
    BY <2>1, RecordingsAre
<1>2. PICK fetched \in BOOLEAN, actual \in {NotOpus} \cup Lengths :
         IF ~fetched \/ MeasuredRefusal(actual, r.charged)
         THEN note' = [note EXCEPT ![n] = Replied] /\ UNCHANGED transcribed
         ELSE /\ note' = [note EXCEPT ![n].at = "sending"]
              /\ transcribed' = [transcribed EXCEPT ![r.month][r.by] = @ + actual]
  BY <1>1 DEF Download
<1>3. UNCHANGED <<ledgerVars, unwilling, month, allowance, voiceCounts>>
  BY DEF Download
<1>4. CASE ~fetched \/ MeasuredRefusal(actual, r.charged)
  <2>1. AllowanceStands'
    BY <1>3 DEF AllowanceStands
  <2>2. note' = [note EXCEPT ![n] = Replied] /\ UNCHANGED <<ledgerVars, unwilling, month, transcribed,
                                                           voiceCounts>>
    BY <1>2, <1>3, <1>4
  <2>3. QED
    BY <2>1, <2>2, NoteEnds
<1>5. CASE ~(~fetched \/ MeasuredRefusal(actual, r.charged))
  <2>1. actual \in Nat /\ r.charged \in Nat
    BY VoiceNumbers DEF Lengths, NotOpus, Recordings
  <2>2. actual <= r.charged
    BY <1>5, <2>1 DEF MeasuredRefusal
  <2>3. /\ note' = [note EXCEPT ![n].at = "sending"]
        /\ transcribed' = [transcribed EXCEPT ![r.month][r.by] = @ + actual]
    BY <1>2, <1>5
  <2>4. QED
    BY <1>1, <1>3, <2>1, <2>2, <2>3, SendStands
<1>6. QED
  BY <1>4, <1>5

(* An erasure takes the name from the seconds, not the seconds from the     *)
(* month.                                                                   *)
LEMMA FoldVoiceStands == ASSUME VoiceIInv, NEW p \in Speakers, FoldVoice(p) PROVE VoiceIInv'
<1> USE DEF VoiceIInv
<1>0. /\ folded' = [m \in Months_ |-> folded[m] + used[m][p]]
      /\ used' = [m \in Months_ |-> [used[m] EXCEPT ![p] = 0]]
      /\ voiceCounts' = [voiceCounts EXCEPT !.folds[p] = @ + 1]
      /\ UNCHANGED <<linked, strays, unwilling, month, note, allowance, transcribed>>
  BY DEF FoldVoice, FoldInto
<1>1. ASSUME NEW m \in Months_
      PROVE  /\ used'[m] \in [Speakers -> Nat] /\ folded'[m] \in Nat
             /\ used'[m][p] = 0 /\ \A q \in Speakers : q # p => used'[m][q] = used[m][q]
             /\ Everyone_(m)' = Everyone_(m)
  <2>1. PICK old \in [Speakers -> Nat] : old = used[m]
    BY DEF VoiceTypes, Ledger
  <2>2. PICK new \in [Speakers -> Nat] : new = [old EXCEPT ![p] = 0]
    OBVIOUS
  <2>3. used'[m] = new /\ folded'[m] = folded[m] + old[p]
    BY <1>0, <2>1, <2>2
  <2>4. new[p] = 0 /\ \A q \in Speakers : q # p => new[q] = old[q]
    BY <2>2
  <2>5. SumOf(new, Speakers) + old[p] = SumOf(old, Speakers) + new[p]
    BY <2>4, SumMoves, VoiceNumbers
  <2>6. SumOf(new, Speakers) \in Nat /\ SumOf(old, Speakers) \in Nat /\ old[p] \in Nat
    BY SumHolds, VoiceNumbers
  <2>7. /\ Everyone_(m) = SumOf(old, Speakers) + SumOf(strays[m], Speakers) + folded[m]
        /\ SumOf(strays[m], Speakers) \in Nat /\ folded[m] \in Nat
    BY <2>1, VoiceTotals
  <2>8. Everyone_(m)' = SumOf(new, Speakers) + SumOf(strays[m], Speakers) + folded'[m]
    BY <1>0, <2>3, TotalIs DEF Everyone_
  <2>9. Everyone_(m)' = Everyone_(m)
    BY <2>3, <2>4, <2>5, <2>6, <2>7, <2>8
  <2>10. QED
    BY <2>1, <2>3, <2>4, <2>6, <2>7, <2>9
<1>2. /\ voiceCounts' \in [ticks : Nat, stops : Nat, folds : [Speakers -> Nat]]
      /\ voiceCounts'.folds[p] = voiceCounts.folds[p] + 1
      /\ \A q \in Speakers : q # p => voiceCounts'.folds[q] = voiceCounts.folds[q]
  <2>1. voiceCounts \in [ticks : Nat, stops : Nat, folds : [Speakers -> Nat]]
    BY DEF VoiceTypes
  <2>2. PICK f \in [Speakers -> Nat] : f = [voiceCounts.folds EXCEPT ![p] = @ + 1]
    <3>1. PICK g \in [Speakers -> Nat] : g = voiceCounts.folds
      BY <2>1
    <3>2. [g EXCEPT ![p] = @ + 1] \in [Speakers -> Nat]
      OBVIOUS
    <3>3. QED
      BY <3>1, <3>2
  <2>3. f[p] = voiceCounts.folds[p] + 1 /\ \A q \in Speakers : q # p => f[q] = voiceCounts.folds[q]
    BY <2>1, <2>2
  <2>4. voiceCounts' = [voiceCounts EXCEPT !.folds = f]
    BY <1>0, <2>2
  <2>5. voiceCounts'.folds = f /\ voiceCounts' \in [ticks : Nat, stops : Nat, folds : [Speakers -> Nat]]
    BY <2>1, <2>4
  <2>6. QED
    BY <2>3, <2>5
<1>3. VoiceTypes'
  <2>1. used' \in Ledger
    BY <1>0, <1>1 DEF Ledger
  <2>2. folded' \in [Months_ -> Nat]
    BY <1>0, <1>1
  <2>3. QED
    BY <1>0, <1>2, <2>1, <2>2 DEF VoiceTypes
<1>4. CapsStand'
  <2>1. ASSUME NEW m \in Months_, NEW q \in Speakers
        PROVE  used'[m][q] <= PersonCap /\ (q \notin linked => used'[m][q] = 0)
    <3>1. used[m][q] <= PersonCap /\ (q \notin linked => used[m][q] = 0)
      BY DEF CapsStand
    <3>2. QED
      BY <1>1, <3>1, VoiceNumbers
  <2>2. \A m \in Months_ : Everyone_(m)' <= OverallCap
    BY <1>1 DEF CapsStand
  <2>3. QED
    BY <1>0, <2>1, <2>2 DEF CapsStand
<1>5. ChargesStand'
  <2>1. ASSUME NEW m \in Months_, NEW q \in Speakers
        PROVE  transcribed[m][q] + SumOf(AwaitingOf(note, m, q), Notes)
                  <= PersonCap * voiceCounts'.folds[q] + used'[m][q] + strays[m][q]
    <3>1. transcribed[m][q] + SumOf(AwaitingOf(note, m, q), Notes)
             <= PersonCap * voiceCounts.folds[q] + used[m][q] + strays[m][q]
      BY DEF ChargesStand
    <3>2. CASE q # p
      <4>1. used'[m][q] = used[m][q] /\ voiceCounts'.folds[q] = voiceCounts.folds[q]
        BY <1>1, <1>2, <3>2
      <4>2. QED
        BY <3>1, <4>1
    <3>3. CASE q = p
      <4>1. PersonCap * voiceCounts'.folds[p] = PersonCap * voiceCounts.folds[p] + PersonCap
        BY <1>2, VoiceTotals, VoiceNumbers
      <4>2. used[m][p] <= PersonCap /\ used'[m][p] = 0
        BY <1>1 DEF CapsStand
      <4>3. /\ transcribed[m][p] \in Nat /\ PersonCap * voiceCounts.folds[p] \in Nat
            /\ used[m][p] \in Nat /\ strays[m][p] \in Nat
        BY VoiceTotals
      <4>4. SumOf(AwaitingOf(note, m, p), Notes) \in Nat
        <5>1. PICK recs \in [Notes -> NoteRows] : recs = note
          BY DEF VoiceTypes
        <5>2. AwaitingOf(recs, m, p) \in [Notes -> Nat]
          BY AwaitingTypes
        <5>3. QED
          BY <5>1, <5>2, SumHolds, VoiceNumbers
      <4>5. PersonCap \in Nat
        BY VoiceNumbers
      <4>6. QED
        BY ONLY <3>1, <3>3, <4>1, <4>2, <4>3, <4>4, <4>5
    <3>4. QED
      BY <3>2, <3>3
  <2>2. \A m \in Months_ : SumOf(transcribed[m], Speakers) + SumOf(Awaiting(note, m), Notes)
                              <= Everyone_(m)'
    BY <1>1 DEF ChargesStand
  <2>3. QED
    BY <1>0, <2>1, <2>2 DEF ChargesStand
<1>6. AllowanceStands' /\ WillStands'
  BY <1>0 DEF AllowanceStands, WillStands
<1>7. QED
  BY <1>3, <1>4, <1>5, <1>6

LEMMA StopStands == ASSUME VoiceIInv, Stop PROVE VoiceIInv'
<1> USE DEF VoiceIInv
<1>0. UNCHANGED <<linked, used, strays, folded, unwilling, month, transcribed>>
  BY DEF Stop, ledgerVars
<1>1. /\ note' = [n \in Notes |-> IF note[n].at \in {"none", "done"} THEN note[n] ELSE Replied]
      /\ note' \in [Notes -> NoteRows]
  BY RecordingsAre DEF Stop, VoiceTypes, NoteRows
<1>2. voiceCounts' \in [ticks : Nat, stops : Nat, folds : [Speakers -> Nat]]
      /\ voiceCounts'.folds = voiceCounts.folds
  <2>1. PICK k \in Nat : voiceCounts' = [voiceCounts EXCEPT !.stops = k]
    <3>1. voiceCounts.stops + 1 \in Nat
      BY DEF VoiceTypes
    <3>2. QED
      BY <3>1 DEF Stop
  <2>2. QED
    BY <2>1 DEF VoiceTypes
<1>3. VoiceTypes'
  BY <1>0, <1>1, <1>2 DEF VoiceTypes
<1>4. CapsStand'
  BY <1>0 DEF CapsStand, Everyone_
<1>5. ASSUME NEW m, NEW q
      PROVE  /\ SumOf(Awaiting(note', m), Notes) <= SumOf(Awaiting(note, m), Notes)
             /\ SumOf(AwaitingOf(note', m, q), Notes) <= SumOf(AwaitingOf(note, m, q), Notes)
             /\ SumOf(Awaiting(note', m), Notes) \in Nat /\ SumOf(Awaiting(note, m), Notes) \in Nat
             /\ SumOf(AwaitingOf(note', m, q), Notes) \in Nat
             /\ SumOf(AwaitingOf(note, m, q), Notes) \in Nat
  <2>1. PICK recs \in [Notes -> NoteRows], after \in [Notes -> NoteRows] :
           recs = note /\ after = note'
    BY <1>1 DEF VoiceTypes
  <2>2. /\ Awaiting(recs, m) \in [Notes -> Nat] /\ Awaiting(after, m) \in [Notes -> Nat]
        /\ AwaitingOf(recs, m, q) \in [Notes -> Nat] /\ AwaitingOf(after, m, q) \in [Notes -> Nat]
    BY AwaitingTypes
  <2>3. \A n \in Notes : after[n] = recs[n] \/ after[n] = Replied
    BY <1>1, <2>1
  <2>4. ASSUME NEW n \in Notes
        PROVE  /\ Awaiting(after, m)[n] <= Awaiting(recs, m)[n]
               /\ AwaitingOf(after, m, q)[n] <= AwaitingOf(recs, m, q)[n]
    <3>1. CASE after[n] = recs[n]
      <4>1. /\ Awaiting(after, m)[n] = Awaiting(recs, m)[n]
            /\ AwaitingOf(after, m, q)[n] = AwaitingOf(recs, m, q)[n]
        BY <3>1 DEF Awaiting, AwaitingOf
      <4>2. Awaiting(recs, m)[n] \in Nat /\ AwaitingOf(recs, m, q)[n] \in Nat
        BY <2>2
      <4>3. QED
        BY <4>1, <4>2
    <3>2. CASE after[n] = Replied
      <4>1. Awaiting(after, m)[n] = 0 /\ AwaitingOf(after, m, q)[n] = 0
        BY <3>2 DEF Awaiting, AwaitingOf, Replied
      <4>2. Awaiting(recs, m)[n] \in Nat /\ AwaitingOf(recs, m, q)[n] \in Nat
        BY <2>2
      <4>3. QED
        BY <4>1, <4>2
    <3>3. QED
      BY <2>3, <3>1, <3>2
  <2>5. /\ SumOf(Awaiting(after, m), Notes) <= SumOf(Awaiting(recs, m), Notes)
        /\ SumOf(AwaitingOf(after, m, q), Notes) <= SumOf(AwaitingOf(recs, m, q), Notes)
    BY <2>2, <2>4, SumGrows, VoiceNumbers
  <2>6. /\ SumOf(Awaiting(after, m), Notes) \in Nat /\ SumOf(Awaiting(recs, m), Notes) \in Nat
        /\ SumOf(AwaitingOf(after, m, q), Notes) \in Nat
        /\ SumOf(AwaitingOf(recs, m, q), Notes) \in Nat
    BY <2>2, SumHolds, VoiceNumbers
  <2>7. QED
    BY ONLY <2>1, <2>5, <2>6
<1>6. ASSUME NEW m \in Months_
      PROVE  SumOf(transcribed[m], Speakers) + SumOf(Awaiting(note', m), Notes) <= Everyone_(m)
  <2>1. SumOf(transcribed[m], Speakers) + SumOf(Awaiting(note, m), Notes) <= Everyone_(m)
    BY DEF ChargesStand
  <2>2. SumOf(transcribed[m], Speakers) \in Nat /\ Everyone_(m) \in Nat
    BY VoiceTotals
  <2>3. /\ SumOf(Awaiting(note', m), Notes) <= SumOf(Awaiting(note, m), Notes)
        /\ SumOf(Awaiting(note', m), Notes) \in Nat /\ SumOf(Awaiting(note, m), Notes) \in Nat
    BY <1>5
  <2>4. QED
    BY ONLY <2>1, <2>2, <2>3
<1>7. ASSUME NEW m \in Months_, NEW q \in Speakers
      PROVE  transcribed[m][q] + SumOf(AwaitingOf(note', m, q), Notes)
                <= PersonCap * voiceCounts.folds[q] + used[m][q] + strays[m][q]
  <2>1. transcribed[m][q] + SumOf(AwaitingOf(note, m, q), Notes)
           <= PersonCap * voiceCounts.folds[q] + used[m][q] + strays[m][q]
    BY DEF ChargesStand
  <2>2. /\ transcribed[m][q] \in Nat /\ PersonCap * voiceCounts.folds[q] \in Nat
        /\ used[m][q] \in Nat /\ strays[m][q] \in Nat
    BY VoiceTotals
  <2>3. /\ SumOf(AwaitingOf(note', m, q), Notes) <= SumOf(AwaitingOf(note, m, q), Notes)
        /\ SumOf(AwaitingOf(note', m, q), Notes) \in Nat
        /\ SumOf(AwaitingOf(note, m, q), Notes) \in Nat
    BY <1>5
  <2>4. QED
    BY ONLY <2>1, <2>2, <2>3
<1>8. ChargesStand'
  <2>1. \A m \in Months_ : Everyone_(m)' = Everyone_(m)
    BY <1>0 DEF Everyone_
  <2>2. QED
    BY <1>0, <1>2, <1>6, <1>7, <2>1 DEF ChargesStand
<1>9. WillStands'
  BY <1>0, <1>1 DEF WillStands, Replied, Recordings
<1>10. AllowanceStands'
  BY VoiceNumbers DEF Stop, AllowanceStands
<1>11. QED
  BY <1>3, <1>4, <1>8, <1>9, <1>10

LEMMA AroundStands ==
    ASSUME VoiceIInv,
           \/ \E p \in Speakers : Type(p) \/ Spoken(p) \/ OptsOut(p)
           \/ Tick \/ MonthTurns
    PROVE  VoiceIInv'
<1> USE DEF VoiceIInv
<1>1. /\ UNCHANGED <<used, strays, folded, note, transcribed>>
      /\ linked \subseteq linked' /\ unwilling \subseteq unwilling'
  BY DEF Type, Spoken, OptsOut, Tick, MonthTurns, ledgerVars
<1>2. VoiceTypes'
  <2>1. linked' \subseteq Speakers /\ unwilling' \subseteq linked'
    BY DEF Type, Spoken, OptsOut, Tick, MonthTurns, ledgerVars, VoiceTypes
  <2>2. month' \in Months_
    BY VoiceNumbers DEF Type, Spoken, OptsOut, Tick, MonthTurns, VoiceTypes, Months_
  <2>3. voiceCounts' \in [ticks : Nat, stops : Nat, folds : [Speakers -> Nat]]
    <3>1. CASE UNCHANGED voiceCounts
      BY <3>1 DEF VoiceTypes
    <3>2. CASE Tick
      <4>1. PICK k \in Nat : voiceCounts' = [voiceCounts EXCEPT !.ticks = k]
        <5>1. voiceCounts.ticks + 1 \in Nat
          BY DEF VoiceTypes
        <5>2. QED
          BY <3>2, <5>1 DEF Tick
      <4>2. QED
        BY <4>1 DEF VoiceTypes
    <3>3. QED
      BY <3>1, <3>2 DEF Type, Spoken, OptsOut, MonthTurns
  <2>4. QED
    BY <1>1, <2>1, <2>2, <2>3 DEF VoiceTypes
<1>3. CapsStand'
  BY <1>1 DEF CapsStand, Everyone_
<1>4. ChargesStand'
  <2>1. voiceCounts'.folds = voiceCounts.folds
    BY DEF Type, Spoken, OptsOut, Tick, MonthTurns, VoiceTypes
  <2>2. \A m \in Months_ : Everyone_(m)' = Everyone_(m)
    BY <1>1 DEF Everyone_
  <2>3. QED
    BY <1>1, <2>1, <2>2 DEF ChargesStand
<1>5. WillStands'
  BY <1>1 DEF WillStands
<1>6. AllowanceStands'
  <2>1. CASE UNCHANGED allowance
    BY <2>1 DEF AllowanceStands
  <2>2. ASSUME NEW p \in Speakers, Type(p) PROVE AllowanceStands'
    BY <2>2, AskedStands DEF Type
  <2>3. CASE Tick
    <3>1. allowance' = [p \in Speakers |-> Aged(allowance[p])]
      BY <2>3 DEF Tick
    <3>2. ASSUME NEW p \in Speakers
          PROVE  /\ allowance'[p] \in Seq(Nat) /\ Len(allowance'[p]) <= MaxQuestions
                 /\ \A i, j \in 1..Len(allowance'[p]) : i <= j => allowance'[p][j] <= allowance'[p][i]
                 /\ \A i \in 1..Len(allowance'[p]) : allowance'[p][i] < LimitWindow
      <4>1. PICK ages \in Seq(Nat) : ages = allowance[p]
        BY DEF AllowanceStands
      <4>2. /\ Len(ages) <= MaxQuestions
            /\ \A i, j \in 1..Len(ages) : i <= j => ages[j] <= ages[i]
        BY <4>1 DEF AllowanceStands
      <4>3. PICK new : new = Aged(ages)
        OBVIOUS
      <4>4. /\ new \in Seq(Nat) /\ Len(new) <= Len(ages)
            /\ \A i, j \in 1..Len(new) : i <= j => new[j] <= new[i]
            /\ \A i \in 1..Len(new) : new[i] < LimitWindow
        BY <4>2, <4>3, AgedStands
      <4>5. Len(new) <= MaxQuestions
        BY <4>2, <4>4, VoiceNumbers
      <4>6. allowance'[p] = new
        BY <3>1, <4>1, <4>3
      <4>7. QED
        BY <4>4, <4>5, <4>6
    <3>3. allowance' \in [Speakers -> Seq(Nat)]
      BY <3>1, <3>2
    <3>4. QED
      BY <3>2, <3>3 DEF AllowanceStands
  <2>4. QED
    BY <2>1, <2>2, <2>3 DEF Spoken, OptsOut, MonthTurns
<1>7. QED
  BY <1>2, <1>3, <1>4, <1>5, <1>6

LEMMA VoiceStep == VoiceIInv /\ [VoiceNext]_voiceVars => VoiceIInv'
<1> SUFFICES ASSUME VoiceIInv, [VoiceNext]_voiceVars PROVE VoiceIInv'
  OBVIOUS
<1>1. ASSUME NEW n \in Notes, Arrive(n) \/ HearOn(n) PROVE VoiceIInv'
  BY <1>1, ArriveStands, HearStands, ReserveStands, ReserveUnseenStands, ReserveCreatedStands,
     EndingStands, DownloadStands DEF HearOn
<1>2. ASSUME NEW p \in Speakers, FoldVoice(p) PROVE VoiceIInv'
  BY <1>2, FoldVoiceStands
<1>3. CASE \/ \E p \in Speakers : Type(p) \/ Spoken(p) \/ OptsOut(p)
           \/ Tick \/ MonthTurns
  BY <1>3, AroundStands
<1>4. CASE Stop
  BY <1>4, StopStands
<1>5. CASE UNCHANGED voiceVars
  <2>1. UNCHANGED <<linked, unwilling, used, strays, folded, month, note, allowance, transcribed,
                    voiceCounts>>
    BY <1>5 DEF voiceVars
  <2>2. VoiceTypes' /\ AllowanceStands' /\ CapsStand' /\ WillStands'
    BY <2>1 DEF VoiceIInv, VoiceTypes, AllowanceStands, CapsStand, WillStands, Everyone_
  <2>3. ChargesStand'
    BY <2>1 DEF VoiceIInv, ChargesStand, Everyone_
  <2>4. QED
    BY <2>2, <2>3 DEF VoiceIInv
<1>6. QED
  BY <1>1, <1>2, <1>3, <1>4, <1>5 DEF VoiceNext

(* However many recordings arrive together, whatever lengths they declare,  *)
(* and though people are erased, archived for the first time or opt out in  *)
(* between (src/src/chatmemory/app/voice and its usage ledger): no month's  *)
(* seconds sent pass the deployment's ceiling, nor one person's their own   *)
(* but for what an erasure forgot and what was charged to a row without an  *)
(* owner; all that was sent was charged; and the voice of whoever had opted *)
(* out when they sent it stays here.                                        *)
THEOREM CeilingsAreKept == VoiceSpec => [](VoiceTypeOK /\ VoiceInv)
<1>1. VoiceSpec => []VoiceIInv
  BY VoiceInitially, VoiceStep, PTL DEF VoiceSpec
<1>2. QED
  BY <1>1, VoiceMeans, PTL

-----------------------------------------------------------------------------
(* Together                                                                 *)
LEMMA AnswersTakeTurns ==
    /\ AnswersInit => MemoryInit /\ AudienceInit /\ ReasoningInit /\ VoiceInit
    /\ [AnswersNext]_<<memoryVars, audienceVars, reasoningVars, voiceVars, turn>> =>
          /\ [MemoryNext]_memoryVars /\ [AudienceNext]_audienceVars
          /\ [ReasoningNext]_reasoningVars /\ [VoiceNext]_voiceVars
<1>1. AnswersInit => MemoryInit /\ AudienceInit /\ ReasoningInit /\ VoiceInit
  BY DEF AnswersInit
<1>2. AnswersNext => /\ [MemoryNext]_memoryVars /\ [AudienceNext]_audienceVars
                     /\ [ReasoningNext]_reasoningVars /\ [VoiceNext]_voiceVars
  BY DEF AnswersNext, RememberingTurn, AdmittingTurn, ReasoningTurn, HearingTurn
<1>3. QED
  BY <1>1, <1>2

(* Of the four together, what the theorems above say of each.               *)
THEOREM AnswersKeepTheirWord ==
    AnswersSpec => [](AnswersTypeOK /\ MemoryInv /\ AudienceInv /\ ReasoningInv /\ VoiceInv)
<1>1. AnswersSpec => [](MemoryIInv /\ AudienceIInv /\ ReasoningIInv /\ VoiceIInv)
  BY AnswersTakeTurns, MemoryInitially, MemoryStep, AudienceInitially, AudienceStep,
     ReasoningInitially, ReasoningStep, VoiceInitially, VoiceStep, PTL DEF AnswersSpec
<1>2. MemoryIInv /\ AudienceIInv /\ ReasoningIInv /\ VoiceIInv =>
         AnswersTypeOK /\ MemoryInv /\ AudienceInv /\ ReasoningInv /\ VoiceInv
  BY MemoryMeans, AudienceMeans, ReasoningMeans, VoiceMeans DEF AnswersTypeOK
<1>3. QED
  BY <1>1, <1>2, PTL
=============================================================================
