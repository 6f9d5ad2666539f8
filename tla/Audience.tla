------------------------------ MODULE Audience ------------------------------
(***************************************************************************)
(* What a cached permission may still admit.  Two processes answer: the    *)
(* bot caches, for a destination, the channels that everyone who reads it  *)
(* may read; the MCP server caches, for a person, the channels they may    *)
(* read.  Each follows the guild over a connection of its own, drops       *)
(* entries when a listener's task runs, and compares the indexing scope an *)
(* entry was computed under.  A gap of the connection ends in a resume,    *)
(* which replays what was missed, or in a new session, which does not.     *)
(* One process is followed, chosen in the initial state.                   *)
(***************************************************************************)
EXTENDS Integers, FiniteSets

CONSTANTS
    People,          \* members of the guild, bots aside
    Sources,         \* its text channels
    Destinations,    \* those of them in which the bot is asked
    Ttl,             \* cache_ttl_seconds, in ticks
    MaxMoves,        \* bound on the changes of permissions
    MaxGaps,         \* bound on the gaps of the connection
    MaxScopes        \* bound on the changes of the indexing scope

ASSUME AudienceAssumption ==
    /\ Destinations \subseteq Sources /\ People \cap Sources = {}
    /\ Ttl \in Nat \ {0} /\ {MaxMoves, MaxGaps, MaxScopes} \subseteq Nat

VARIABLES
    process,        \* whose cache this is
    grants,         \* <<person, channel>>: who sees a channel and its history
    guild,          \* the same, as the process last heard of it
    online,         \* the connection is up
    unheard,        \* the events of a gap
    listeners,      \* invalidations whose tasks have not run
    indexed,        \* the indexing scope in force
    entries,        \* _cache: [age, scope, value] under a key
    missedAge,      \* time since the guild moved without an invalidation
    offlineAge,     \* time since the connection was up
    audienceCounts  \* [moves, gaps, scopes] so far

audienceVars == <<process, grants, guild, online, unheard, listeners, indexed, entries, missedAge,
                  offlineAge, audienceCounts>>

NoEntry == [age |-> Ttl, scope |-> {}, value |-> {}]
Keys == IF process = "bot" THEN Destinations ELSE People

(* A move of roles or membership concerns one person; one of a role or a    *)
(* channel's overwrites everybody; one of the guild's owner nobody listens  *)
(* to.                                                                      *)
Everyone == "everyone"
Silent == "silent"
-----------------------------------------------------------------------------
Readable(m) == {c \in indexed : <<m, c>> \in guild}

(* Containment: what every receiver may read, and nothing without one.      *)
Receivers(d) == {m \in People : <<m, d>> \in guild}
Contained(d) == {c \in indexed : \A m \in Receivers(d) : <<m, c>> \in guild}

(* The MCP server refuses the guild of a connection that is down; the bot   *)
(* reads it as it was.                                                      *)
Computed(k) ==
    IF process = "mcp" THEN IF online THEN Readable(k) ELSE {}
    ELSE IF Receivers(k) = {} THEN {} ELSE Contained(k)

(* A mutant: an entry outlives the scope it was computed under.             *)
ServableUnscoped(k) == entries[k].age < Ttl

Servable(k) == entries[k].age < Ttl /\ entries[k].scope = indexed

Answer(k) == IF Servable(k) THEN entries[k].value ELSE Computed(k)

(* A question that finds nothing to serve; one that does changes nothing.   *)
Resolve(k) ==
    /\ ~Servable(k)
    /\ entries' = [entries EXCEPT ![k] = [age |-> 0, scope |-> indexed, value |-> Computed(k)]]
    /\ UNCHANGED <<process, grants, guild, online, unheard, listeners, indexed, missedAge,
                   offlineAge, audienceCounts>>

(* An audience is dropped by anybody's move, a person's entry by their own. *)
Dropped(e) == IF process = "bot" \/ e = Everyone THEN Keys ELSE {e}

ListenerRuns(e) ==
    /\ e \in listeners
    /\ listeners' = listeners \ {e}
    /\ entries' = [k \in Keys |-> IF k \in Dropped(e) THEN NoEntry ELSE entries[k]]
    /\ UNCHANGED <<process, grants, guild, online, unheard, indexed, missedAge, offlineAge,
                   audienceCounts>>
-----------------------------------------------------------------------------
(* The guild.  discord.py updates it before the listeners' tasks run.       *)
Heard(g, E) ==
    /\ guild' = g
    /\ listeners' = listeners \cup (E \ {Silent})
    /\ missedAge' = IF Silent \in E THEN 0 ELSE missedAge

Moves(g, e) ==
    /\ g # grants /\ grants' = g
    /\ audienceCounts.moves < MaxMoves
    /\ audienceCounts' = [audienceCounts EXCEPT !.moves = @ + 1]
    /\ IF online THEN Heard(g, {e}) /\ UNCHANGED unheard
       ELSE unheard' = unheard \cup {e} /\ UNCHANGED <<guild, listeners, missedAge>>
    /\ UNCHANGED <<process, online, indexed, entries, offlineAge>>

PersonMoves(m, e) ==
    \E C \in SUBSET Sources : Moves({g \in grants : g[1] # m} \cup ({m} \X C), e)
ChannelMoves(c) ==
    \E P \in SUBSET People : Moves({g \in grants : g[2] # c} \cup (P \X {c}), Everyone)

Disconnect ==
    /\ online /\ online' = FALSE
    /\ audienceCounts.gaps < MaxGaps
    /\ audienceCounts' = [audienceCounts EXCEPT !.gaps = @ + 1]
    /\ UNCHANGED <<process, grants, guild, unheard, listeners, indexed, entries, missedAge,
                   offlineAge>>

Reconnect(E) ==
    /\ ~online /\ online' = TRUE /\ unheard' = {} /\ offlineAge' = 0
    /\ Heard(grants, E)
    /\ UNCHANGED <<process, grants, indexed, entries, audienceCounts>>

(* A resume replays the gap; a new session brings the guild as it is.       *)
Resume == Reconnect(unheard)
NewSession == Reconnect(IF unheard = {} THEN {} ELSE {Silent})

(* A refresh of the runtime configuration moves the scope; no event says so.*)
ScopeMoves(S) ==
    /\ S # indexed /\ indexed' = S
    /\ audienceCounts.scopes < MaxScopes
    /\ audienceCounts' = [audienceCounts EXCEPT !.scopes = @ + 1]
    /\ UNCHANGED <<process, grants, guild, online, unheard, listeners, entries, missedAge,
                   offlineAge>>

Older(n) == IF n < Ttl THEN n + 1 ELSE n
Passes ==
    /\ entries' = [k \in Keys |-> [entries[k] EXCEPT !.age = Older(@)]]
    /\ missedAge' = Older(missedAge)
    /\ offlineAge' = IF online THEN 0 ELSE Older(offlineAge)
    /\ UNCHANGED <<process, grants, guild, online, unheard, listeners, indexed, audienceCounts>>
-----------------------------------------------------------------------------
AudienceInit ==
    /\ process \in {"bot", "mcp"}
    /\ grants = People \X Sources /\ guild = grants /\ indexed = Sources
    /\ online = TRUE /\ unheard = {} /\ listeners = {}
    /\ entries = [k \in Keys |-> NoEntry]
    /\ missedAge = Ttl /\ offlineAge = 0
    /\ audienceCounts = [moves |-> 0, gaps |-> 0, scopes |-> 0]

AudienceNext ==
    \/ \E k \in Keys : Resolve(k)
    \/ \E e \in People \cup {Everyone} : ListenerRuns(e)
    \/ \E m \in People : \E e \in {m, Silent} : PersonMoves(m, e)
    \/ \E c \in Sources : ChannelMoves(c)
    \/ Disconnect \/ Resume \/ NewSession
    \/ \E S \in SUBSET Sources : ScopeMoves(S)
    \/ Passes

AudienceSpec == AudienceInit /\ [][AudienceNext]_audienceVars
-----------------------------------------------------------------------------
Entry == [age : 0..Ttl, scope : SUBSET Sources, value : SUBSET Sources]

AudienceTypeOK ==
    /\ process \in {"bot", "mcp"} /\ entries \in [Keys -> Entry]
    /\ grants \subseteq People \X Sources /\ guild \subseteq People \X Sources
    /\ listeners \subseteq People \cup {Everyone}
    /\ unheard \subseteq People \cup {Everyone, Silent}
    /\ {missedAge, offlineAge} \subseteq 0..Ttl

(* A permission taken back is not served on from the cache: whatever is     *)
(* served is granted by the guild as the process knows it, unless the task  *)
(* that drops the entry has yet to run, or the move came without one less   *)
(* than the time to live ago.                                               *)
Awaited(k) == IF process = "bot" THEN listeners # {} ELSE listeners \cap {k, Everyone} # {}

NoStaleGrant ==
    \A k \in Keys : (online /\ ~Awaited(k) /\ missedAge = Ttl) => Answer(k) \subseteq Computed(k)

(* The MCP server, cut off, answers nothing once its entries are too old,   *)
(* for it cannot hear of what is revoked.                                   *)
CutOffAnswersNothing ==
    (process = "mcp" /\ ~online /\ offlineAge = Ttl) => \A k \in Keys : Answer(k) = {}

AudienceInv == NoStaleGrant /\ CutOffAnswersNothing
=============================================================================
