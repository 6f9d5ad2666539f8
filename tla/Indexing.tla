------------------------------ MODULE Indexing ------------------------------
(***************************************************************************)
(* Consent to be archived: /index and /unindex in the bot, the same list   *)
(* of channels edited in the console, and the ingest process, which        *)
(* applies the list when it next reads it and meanwhile goes on capturing, *)
(* importing history and building windows.  A removal deletes what is      *)
(* archived at once, and once more after two refresh periods, by when      *)
(* every process is to have applied it.                                    *)
(*                                                                         *)
(* Abstractions.  Who may ask is read from live guild state before         *)
(* anything here changes; only requests that may proceed are made.  A      *)
(* message is its place in its channel; its row and the windows that quote *)
(* it are what a purge deletes, and its attachments go the same way.  A    *)
(* write of the list and the refresh that follows it are one step.         *)
(***************************************************************************)
EXTENDS Integers, FiniteSets

CONSTANTS
    Channels,
    OldMsgs,       \* messages of a channel from before it was indexed
    IndexRequests, \* commands given in the bot
    PageOf,        \* messages in a page of history
    MaxPosts,      \* messages posted live
    MaxConsole,    \* edits of the console
    MaxTroubles,   \* reads, writes, notices and purges that fail
    MaxStops       \* restarts of either process

ASSUME IndexingAssumption ==
    /\ Channels # {}
    /\ OldMsgs \in Nat
    /\ PageOf \in Nat \ {0}
    /\ MaxPosts \in Nat /\ MaxConsole \in Nat
    /\ MaxTroubles \in Nat /\ MaxStops \in Nat

VARIABLES
    scope,      \* app_setting, indexed_channel_ids
    here,       \* the bot's snapshot of it
    there,      \* ingest's
    request,    \* IndexingService.handle, one per command
    followUp,   \* the task a removal has scheduled
    console,    \* add_channel or remove_channel
    crossed,    \* has read the list, and another process has written it since (auxiliary)
    posted,     \* the platform's history
    archived,   \* table message
    quoted,     \* messages that live windows quote
    cursorAt,   \* ingest_cursor.oldest_message_id
    live,       \* live messages published and not yet captured
    writing,    \* capture, backfill_page and the window loop at work
    forsaken,   \* out of scope, and nobody is to delete what is left (auxiliary)
    overtaken,  \* purged while a page of it was being imported (auxiliary)
    indexCounts

listVars == <<scope, here, request, followUp, console, crossed, forsaken>>
archiveVars == <<posted, archived, quoted, cursorAt, live, writing, overtaken>>
indexingVars == <<listVars, archiveVars, there, indexCounts>>

NoCursor == 0
Acts == {"index", "unindex"}
Jobs == {"capture", "page", "window"}
Idle == [at |-> "idle", ch |-> CHOOSE c \in Channels : TRUE, msgs |-> {}]
AtRest == [open |-> FALSE, act |-> "index", ch |-> Idle.ch, before |-> {}]

IndexingInit ==
    /\ scope \in SUBSET Channels /\ here = scope /\ there = scope
    /\ request \in [IndexRequests ->
          [at : {"unasked"}, act : Acts, ch : Channels, before : {{}}]]
    /\ followUp = [r \in IndexRequests |-> "none"]
    /\ console = AtRest
    /\ posted = [c \in Channels |-> OldMsgs]
    /\ archived = [c \in Channels |-> {}] /\ quoted = archived
    /\ cursorAt = [c \in Channels |-> NoCursor]
    /\ live = {}
    /\ writing = [w \in Jobs |-> Idle]
    /\ crossed = {} /\ forsaken = {} /\ overtaken = {}
    /\ indexCounts = [posts |-> 0, console |-> 0, troubles |-> 0, stops |-> 0]

Counted(what) == indexCounts' = [indexCounts EXCEPT ![what] = @ + 1]
Trouble == indexCounts.troubles < MaxTroubles /\ Counted("troubles")

-----------------------------------------------------------------------------
(* What writes and purges do *)

Moves(r, at) == [request EXCEPT ![r].at = at]
Ended(r) == [request[r] EXCEPT !.at = "done", !.before = {}]
Ends(r) == [request EXCEPT ![r] = Ended(r)]

\* The list that was read, with a channel added or taken out.
Edited(edit) ==
    IF edit.act = "index" THEN edit.before \cup {edit.ch} ELSE edit.before \ {edit.ch}

\* A channel that leaves the list with no purge to come keeps its archive.
Dropped(list, purged) == (forsaken \cup ((scope \ list) \ purged)) \ list

\* Some writer of ingest holds content of the channel.
AtWork(c) == \E w \in Jobs : writing[w].at # "idle" /\ writing[w].ch = c

\* A mutant: the cursor outlives the purge.
PurgeKeepingCursor(c) ==
    /\ archived' = [archived EXCEPT ![c] = {}]
    /\ quoted' = [quoted EXCEPT ![c] = {}]
    /\ overtaken' = IF writing["page"].at # "idle" /\ writing["page"].ch = c
                    THEN overtaken \cup {c} ELSE overtaken \ {c}
    /\ UNCHANGED <<posted, cursorAt, live, writing>>

\* PURGE_CHANNEL: messages, windows, deletion ledger and cursor.
Purge(c) ==
    /\ archived' = [archived EXCEPT ![c] = {}]
    /\ quoted' = [quoted EXCEPT ![c] = {}]
    /\ cursorAt' = [cursorAt EXCEPT ![c] = NoCursor]
    /\ overtaken' = IF writing["page"].at # "idle" /\ writing["page"].ch = c
                    THEN overtaken \cup {c} ELSE overtaken \ {c}
    /\ UNCHANGED <<posted, live, writing>>

\* What a purge leaves to nobody: what ingest can still write.
Unfollowed(c) == IF c \in there \/ AtWork(c) THEN forsaken \cup {c} ELSE forsaken \ {c}

-----------------------------------------------------------------------------
(* A command in the bot *)

Ask(r) ==
    /\ request[r].at = "unasked"
    /\ request' = Moves(r, "waiting")
    /\ UNCHANGED <<scope, here, followUp, console, crossed, forsaken, archiveVars, there,
                   indexCounts>>

\* The lock of the IndexingService.
Unlocked ==
    \A r \in IndexRequests :
        request[r].at \notin {"writing", "announcing", "reverting", "purging", "undoing"}

\* Where a command goes on from what it has read: a channel that is indexed
\* already is left alone, and one that is not is purged all the same.
Read(r) ==
    CASE request[r].act = "index" /\ request[r].ch \in scope -> Ended(r)
      [] request[r].act = "unindex" /\ request[r].ch \notin scope ->
            [request[r] EXCEPT !.at = "purging"]
      [] OTHER -> [request[r] EXCEPT !.at = "writing", !.before = scope]

\* _apply: the list is read under the lock; a read that fails changes nothing.
ReadList(r) ==
    /\ request[r].at = "waiting" /\ Unlocked
    /\ \/ /\ here' = scope
          /\ request' = [request EXCEPT ![r] = Read(r)]
          /\ UNCHANGED indexCounts
       \/ Trouble /\ request' = Ends(r) /\ UNCHANGED here
    /\ UNCHANGED <<scope, followUp, console, crossed, forsaken, archiveVars, there>>

\* The editor's put, and the refresh, which may fail and then keeps the
\* snapshot; a put that fails ends the command.
Put(r, list, next) ==
    /\ \/ /\ scope' = list
          /\ forsaken' = Dropped(list, {request[r].ch})
          /\ crossed' = IF console.open THEN crossed \cup {"console"} ELSE crossed
          /\ request' = Moves(r, next)
          /\ \/ here' = scope' /\ UNCHANGED indexCounts
             \/ Trouble /\ UNCHANGED here
       \/ Trouble /\ request' = Ends(r) /\ UNCHANGED <<scope, here, forsaken, crossed>>
    /\ UNCHANGED <<followUp, console, archiveVars, there>>

WriteList(r) ==
    /\ request[r].at = "writing"
    /\ Put(r, Edited(request[r]), IF request[r].act = "index" THEN "announcing" ELSE "purging")

\* announce: the notice is posted, or refused, or its failure ends the command.
Announce(r) ==
    /\ request[r].at = "announcing"
    /\ \/ request' = Ends(r) /\ UNCHANGED indexCounts
       \/ Trouble /\ request' \in {Moves(r, "reverting"), Ends(r)}
    /\ UNCHANGED <<scope, here, followUp, console, crossed, forsaken, archiveVars, there>>

\* The change is undone: the list that was read is written back ...
Revert(r) ==
    /\ request[r].at = "reverting"
    /\ Put(r, request[r].before, "undoing")

\* ... and the channel purged, once.
Undo(r) ==
    /\ request[r].at = "undoing"
    /\ request' = Ends(r)
    /\ \/ /\ Purge(request[r].ch)
          /\ forsaken' = Unfollowed(request[r].ch) \ scope
          /\ UNCHANGED indexCounts
       \/ /\ Trouble
          /\ forsaken' = (forsaken \cup {request[r].ch}) \ scope
          /\ UNCHANGED archiveVars
    /\ UNCHANGED <<scope, here, followUp, console, crossed, there>>

\* _unindex schedules the second purge whether or not the channel was indexed.
PurgesAgain(r) == TRUE

\* The purge of a removal, which may fail and is then not followed up.
Withdraw(r) ==
    /\ request[r].at = "purging"
    /\ request' = Ends(r)
    /\ \/ /\ Purge(request[r].ch)
          /\ followUp' = [followUp EXCEPT ![r] = IF PurgesAgain(r) THEN "asleep" ELSE "none"]
          /\ forsaken' = forsaken \ {request[r].ch}
          /\ UNCHANGED indexCounts
       \/ /\ Trouble
          /\ forsaken' = (forsaken \cup {request[r].ch}) \ scope
          /\ UNCHANGED <<followUp, archiveVars>>
    /\ UNCHANGED <<scope, here, console, crossed, there>>

-----------------------------------------------------------------------------
(* The follow-up *)

\* A mutant: the follow-up does not wait for ingest.
HasSleptLittle(r) == followUp[r] \in {"asleep", "due"}

\* Two periods hold a refresh of ingest, and outlast what it was writing.
HasSlept(r) == followUp[r] = "due" /\ ~AtWork(request[r].ch)

\* _follow_up: skipped if the channel is indexed again.
WakeUp(r) ==
    /\ HasSlept(r)
    /\ \/ here' = scope /\ UNCHANGED indexCounts
       \/ Trouble /\ UNCHANGED here
    /\ followUp' = [followUp EXCEPT ![r] = IF request[r].ch \in here' THEN "none" ELSE "purging"]
    /\ forsaken' = IF request[r].ch \in here' \ scope THEN forsaken \cup {request[r].ch}
                                                    ELSE forsaken
    /\ UNCHANGED <<scope, request, console, crossed, archiveVars, there>>

\* Windows that are being written when the last purge runs are left to nobody.
PurgeAgain(r) ==
    /\ followUp[r] = "purging"
    /\ followUp' = [followUp EXCEPT ![r] = "none"]
    /\ \/ /\ Purge(request[r].ch)
          /\ forsaken' = (IF AtWork(request[r].ch) THEN forsaken \cup {request[r].ch}
                          ELSE forsaken \ ({request[r].ch} \ there)) \ scope
          /\ UNCHANGED indexCounts
       \/ /\ Trouble
          /\ forsaken' = (forsaken \cup {request[r].ch}) \ scope
          /\ UNCHANGED archiveVars
    /\ UNCHANGED <<scope, here, request, console, crossed, there>>

\* Commands and follow-ups are tasks in memory.
BotStops ==
    /\ indexCounts.stops < MaxStops /\ Counted("stops")
    /\ request' = [r \in IndexRequests |->
          IF request[r].at = "unasked" THEN request[r] ELSE Ended(r)]
    /\ followUp' = [r \in IndexRequests |-> "none"]
    /\ forsaken' = (forsaken \cup {request[r].ch : r \in
          {q \in IndexRequests : followUp[q] # "none" \/ request[q].at \in {"purging", "undoing"}}})
                   \ scope
    /\ crossed' = crossed \ IndexRequests
    /\ here' = scope
    /\ UNCHANGED <<scope, console, archiveVars, there>>

-----------------------------------------------------------------------------
(* The console, another process with a lock of its own *)

OpenConsole(c) ==
    /\ ~console.open
    /\ indexCounts.console < MaxConsole /\ Counted("console")
    /\ console' = [open |-> TRUE, act |-> IF c \in scope THEN "unindex" ELSE "index",
                   ch |-> c, before |-> scope]
    /\ UNCHANGED <<scope, here, request, followUp, crossed, forsaken, archiveVars, there>>

\* Commands that hold the list they have read.
HoldingList == {r \in IndexRequests : request[r].at \in {"writing", "announcing", "reverting"}}

\* What is archived stays: the console purges nothing.
StoreFromConsole ==
    /\ console.open
    /\ console' = AtRest
    /\ scope' = Edited(console)
    /\ forsaken' = Dropped(scope', {})
    /\ crossed' = (crossed \ {"console"}) \cup HoldingList
    /\ UNCHANGED <<here, request, followUp, archiveVars, there, indexCounts>>

-----------------------------------------------------------------------------
(* The ingest process *)

PostIn(c) ==
    /\ indexCounts.posts < MaxPosts /\ Counted("posts")
    /\ posted' = [posted EXCEPT ![c] = @ + 1]
    /\ live' = IF c \in there THEN live \cup {<<c, posted'[c]>>} ELSE live
    /\ UNCHANGED <<listVars, archived, quoted, cursorAt, writing, overtaken, there>>

\* scope_loop.  A refresh that fails keeps the list in force.
IngestRefresh ==
    /\ there # scope \/ \E r \in IndexRequests : followUp[r] = "asleep"
    /\ \/ there' = scope /\ UNCHANGED indexCounts
       \/ Trouble /\ UNCHANGED there
    /\ followUp' = [r \in IndexRequests |-> IF followUp[r] = "asleep" THEN "due" ELSE followUp[r]]
    /\ forsaken' = forsaken \cup
          {c \in there' \ scope : \E r \in IndexRequests : request[r].ch = c /\ followUp[r] = "asleep"}
    /\ UNCHANGED <<scope, here, request, console, crossed, archiveVars>>

Begins(w, c, S) == writing' = [writing EXCEPT ![w] = [at |-> "writing", ch |-> c, msgs |-> S]]

\* capture asks again.
StillIndexed(c) == c \in there

CaptureNext ==
    /\ writing["capture"].at = "idle"
    /\ \E x \in live :
          /\ \A y \in live : x[2] <= y[2]
          /\ live' = live \ {x}
          /\ IF StillIndexed(x[1]) THEN Begins("capture", x[1], {x[2]}) ELSE UNCHANGED writing
    /\ UNCHANGED <<listVars, posted, archived, quoted, cursorAt, overtaken, there, indexCounts>>

\* The newest messages of the channel before its cursor.
NextPage(c) ==
    {m \in 1..posted[c] :
        /\ cursorAt[c] # NoCursor => m < cursorAt[c]
        /\ Cardinality({n \in m..posted[c] : cursorAt[c] # NoCursor => n < cursorAt[c]}) <= PageOf}

FetchPage(c) ==
    /\ writing["page"].at = "idle" /\ c \in there
    /\ NextPage(c) # {}
    /\ Begins("page", c, NextPage(c))
    /\ UNCHANGED <<listVars, posted, archived, quoted, cursorAt, live, overtaken, there, indexCounts>>

ReadForWindows(c) ==
    /\ writing["window"].at = "idle"
    /\ ~(archived[c] \subseteq quoted[c])
    /\ Begins("window", c, archived[c])
    /\ UNCHANGED <<listVars, posted, archived, quoted, cursorAt, live, overtaken, there, indexCounts>>

\* upsert_messages
Upsert(w) ==
    /\ w \in {"capture", "page"} /\ writing[w].at = "writing"
    /\ archived' = [archived EXCEPT ![writing[w].ch] = @ \cup writing[w].msgs]
    /\ writing' = [writing EXCEPT ![w] = IF w = "page" THEN [@ EXCEPT !.at = "cursor"] ELSE Idle]
    /\ UNCHANGED <<listVars, posted, quoted, cursorAt, live, overtaken, there, indexCounts>>

Oldest(S) == CHOOSE m \in S : \A n \in S : m <= n

\* set_cursor: LEAST, which ignores NULL.
SetCursor ==
    /\ writing["page"].at = "cursor"
    /\ LET c == writing["page"].ch
           m == Oldest(writing["page"].msgs)
       IN cursorAt' = [cursorAt EXCEPT ![c] = IF @ = NoCursor \/ m < @ THEN m ELSE @]
    /\ writing' = [writing EXCEPT !["page"] = Idle]
    /\ UNCHANGED <<listVars, posted, archived, quoted, live, overtaken, there, indexCounts>>

\* replace_windows: nothing ties a window to the rows it was read from.
WriteWindows ==
    /\ writing["window"].at = "writing"
    /\ quoted' = [quoted EXCEPT ![writing["window"].ch] = @ \cup writing["window"].msgs]
    /\ writing' = [writing EXCEPT !["window"] = Idle]
    /\ UNCHANGED <<listVars, posted, archived, cursorAt, live, overtaken, there, indexCounts>>

\* The list is read before anything is captured.
IngestStops ==
    /\ indexCounts.stops < MaxStops /\ Counted("stops")
    /\ there' = scope
    /\ live' = {} /\ writing' = [w \in Jobs |-> Idle]
    /\ UNCHANGED <<listVars, posted, archived, quoted, cursorAt, overtaken>>

-----------------------------------------------------------------------------

CommandStep(r) ==
    ReadList(r) \/ WriteList(r) \/ Announce(r) \/ Revert(r) \/ Undo(r) \/ Withdraw(r)

FollowUpStep(r) == WakeUp(r) \/ PurgeAgain(r)

IngestStep == CaptureNext \/ SetCursor \/ WriteWindows \/ \E w \in Jobs : Upsert(w)

ImportStep(c) == FetchPage(c) \/ ReadForWindows(c)

IndexingNext ==
    \/ \E r \in IndexRequests : Ask(r) \/ CommandStep(r) \/ FollowUpStep(r)
    \/ \E c \in Channels : OpenConsole(c) \/ PostIn(c) \/ ImportStep(c)
    \/ StoreFromConsole \/ IngestRefresh \/ IngestStep
    \/ BotStops \/ IngestStops

IndexingSpec == IndexingInit /\ [][IndexingNext]_indexingVars

-----------------------------------------------------------------------------
(* Type invariant *)

IndexingTypeOK ==
    /\ {scope, here, there, forsaken, overtaken} \subseteq SUBSET Channels
    /\ request \in [IndexRequests ->
          [at : {"unasked", "waiting", "writing", "announcing", "reverting", "undoing",
                 "purging", "done"}, act : Acts, ch : Channels, before : SUBSET Channels]]
    /\ followUp \in [IndexRequests -> {"none", "asleep", "due", "purging"}]
    /\ crossed \subseteq IndexRequests \cup {"console"}
    /\ \A c \in Channels : /\ archived[c] \cup quoted[c] \subseteq 1..posted[c]
                           /\ cursorAt[c] \in 0..posted[c]

(* Safety *)

\* What a command read under the lock is still stored when it writes, unless
\* the console wrote in between: no command drops a channel that another one
\* of the bot has added, not even one that takes back its own write after
\* the seconds a notice may need.
ReadIsCurrent ==
    \A r \in HoldingList \ crossed :
        scope = IF request[r].at = "writing" THEN request[r].before ELSE Edited(request[r])

\* The channel is nobody's concern any more.
AtPeace(c) ==
    /\ c \notin scope \cup there /\ ~AtWork(c)
    /\ \A r \in IndexRequests : request[r].ch = c =>
          followUp[r] = "none" /\ request[r].at \in {"unasked", "waiting", "done"}

\* A channel that was taken out of scope and purged has nothing archived once
\* its follow-up is through, whatever ingest captured, imported or windowed
\* after the first purge.
WithdrawnIsGone ==
    \A c \in Channels \ forsaken : AtPeace(c) => archived[c] \cup quoted[c] = {}

\* Everything from the cursor on was imported and is stored: a purge takes the
\* cursor with the rows, so that a channel which returns is imported again.
\* (A page in flight across the purge sets it afresh: see NothingSkipped.)
CursorIsStored ==
    \A c \in Channels \ overtaken :
        cursorAt[c] # NoCursor => cursorAt[c]..OldMsgs \subseteq archived[c]

IndexingInv == IndexingTypeOK /\ ReadIsCurrent /\ WithdrawnIsGone /\ CursorIsStored

(* Liveness *)

\* A channel that stays in scope has all of its history archived, and one that
\* stays out of it none.
ArchiveFollowsScope ==
    \A c \in Channels :
        /\ <>[](c \in scope) => <>[](c \in overtaken \/ 1..OldMsgs \subseteq archived[c])
        /\ <>[](c \notin scope) => <>[](c \in forsaken \/ archived[c] \cup quoted[c] = {})

(* What the documentation promises and the code does not keep *)

\* "A channel returning to scope would resume from there, find nothing older,
\* report itself complete, and never re-import the history just deleted": no
\* cursor stands for history that is not stored, once nobody is at work on a
\* channel that is in scope.
Settled(c) ==
    /\ c \in scope \cap there /\ ~AtWork(c)
    /\ \A r \in IndexRequests : request[r].ch = c =>
          followUp[r] = "none" /\ request[r].at \in {"unasked", "done"}

NothingSkipped ==
    \A c \in Channels :
        Settled(c) /\ cursorAt[c] # NoCursor => cursorAt[c]..OldMsgs \subseteq archived[c]
=============================================================================
