---------------------------- MODULE Configuration ----------------------------
(***************************************************************************)
(* Settings an operator changes without a redeploy.  Each process holds a  *)
(* snapshot of every setting and replaces it at a refresh, which its loop  *)
(* runs on a cadence and a request of the console runs after its write.  A *)
(* refresh waits for the database, so several of one process overlap.  A   *)
(* stored value beats the environment; a row that cannot be parsed keeps   *)
(* the value in force, a refresh that fails keeps all of them.             *)
(*                                                                         *)
(* "scalar" is any setting with a parser, edited as text or by hand in the *)
(* table.  "servers" and "tools" are the lists of federation, which the    *)
(* console checks against each other before it writes either: a tool must  *)
(* name a configured server, and be offered by it, which takes a probe.    *)
(* They are lists of words, which any text parses as.  Whether somebody    *)
(* holds a credential is an input.                                         *)
(*                                                                         *)
(* Bounds: MaxEdits (writes), MaxSlips (loads that fail, restarts).        *)
(***************************************************************************)
EXTENDS Naturals, FiniteSets

CONSTANTS
    Processes,      \* with a configuration of their own, "console" among them
    Edits,          \* requests of the console
    Servers, Tools, \* entries of the lists
    Mutates,        \* the tools that are enabled for mutation
    ServerOf,       \* [Tools -> Servers]
    Scalars,        \* values that parse
    Environment,    \* [Settings -> value]: what every process starts with
    MaxEdits, MaxSlips

Settings == {"scalar", "servers", "tools"}
ValueOf(s) == CASE s = "scalar" -> {{v} : v \in Scalars}
                [] s = "servers" -> SUBSET Servers
                [] OTHER -> SUBSET Tools

ASSUME ConfigurationAssumption ==
    /\ "console" \in Processes /\ Mutates \subseteq Tools
    /\ ServerOf \in [Tools -> Servers]
    /\ \A s \in Settings : Environment[s] \in ValueOf(s)
    /\ MaxEdits \in Nat /\ MaxSlips \in Nat

Absent == [kind |-> "absent", value |-> {}]
Malformed == [kind |-> "malformed", value |-> {}]
Row(v) == [kind |-> "stored", value |-> v]
RowsOf(s) == {Absent, Malformed} \cup {Row(v) : v \in ValueOf(s)}

VARIABLES
    rows,       \* [Settings -> row]: app_setting
    snap,       \* [Processes -> [Settings -> [value, source]]]
    loading,    \* [Refreshers -> what a refresh waits for, or the rows it has read]
    edit,       \* [Edits -> a request of the console]
    escalated,  \* tools whose enabling is on record as an escalation
    kept,       \* [Processes -> settings whose row was there in every load since it was taken]
    stale,      \* a list was written after a check against other lists
    unrecorded, \* the console stopped between a write and its escalation
    edits, slips

configurationVars == <<rows, snap, loading, edit, escalated, kept, stale, unrecorded,
                       edits, slips>>

Refreshers == Processes \cup Edits
ProcessOf(f) == IF f \in Processes THEN f ELSE "console"
Idling == [at |-> "idle", rows |-> [s \in Settings |-> Absent]]
NoEdit == [at |-> "none", op |-> "none", what |-> {}, seen |-> <<{}, {}>>, list |-> {}]

FromEnvironment == [s \in Settings |-> [value |-> Environment[s], source |-> "environment"]]
-----------------------------------------------------------------------------
(* What a refresh makes of the rows: the environment, and over it every row *)
(* that parses; one that does not keeps what is in force.                   *)
Applied(row, inForce, baseline) ==
    CASE row.kind = "absent" -> baseline
      [] row.kind = "malformed" -> inForce
      [] OTHER -> [value |-> row.value, source |-> "database"]

Resolve(read, current) ==
    [s \in Settings |-> Applied(read[s], current[s], FromEnvironment[s])]

(* A mutant: what is in force is the baseline, so nothing is handed back.   *)
ResolveOnTop(read, current) ==
    [s \in Settings |-> Applied(read[s], current[s], current[s])]

InForce(s) == snap["console"][s].value

(* What FederationConfig accepts at a start.                                *)
Honoured(servers, tools) == \A t \in tools : ServerOf[t] \in servers

Value(s) == IF rows[s].kind = "stored" THEN rows[s].value ELSE Environment[s]

ConfigurationInit ==
    /\ rows = [s \in Settings |-> Absent]
    /\ snap = [p \in Processes |-> FromEnvironment]
    /\ loading = [f \in Refreshers |-> Idling]
    /\ edit = [e \in Edits |-> NoEdit]
    /\ escalated = {} /\ stale = FALSE /\ unrecorded = FALSE
    /\ kept = [p \in Processes |-> {}]
    /\ edits = 0 /\ slips = 0
-----------------------------------------------------------------------------
(* RuntimeConfiguration.refresh: the load is awaited, all else is one step. *)
RefreshAsk(p) ==
    /\ loading[p].at = "idle"
    /\ loading' = [loading EXCEPT ![p].at = "asked"]
    /\ UNCHANGED <<rows, snap, edit, escalated, kept, stale, unrecorded, edits, slips>>

RefreshRead(f) ==
    /\ loading[f].at = "asked"
    /\ loading' = [loading EXCEPT ![f] = [at |-> "read", rows |-> rows]]
    /\ UNCHANGED <<rows, snap, edit, escalated, kept, stale, unrecorded, edits, slips>>

(* The request answers when its refresh has returned, whatever it returned. *)
Returned(f) ==
    /\ loading' = [loading EXCEPT ![f] = Idling]
    /\ IF f \in Edits /\ edit[f].op = "add tool" /\ edit[f].what \subseteq Mutates
         THEN edit' = [edit EXCEPT ![f].at = "recording"]
         ELSE edit' = IF f \in Edits THEN [edit EXCEPT ![f] = NoEdit] ELSE edit

(* What is in force after a load that raised: what was in force before.     *)
KeptAfterFailure(p) == snap[p]

(* A mutant: a load that fails hands everything back to the environment.    *)
KeptAfterFailureNothing(p) == FromEnvironment

RefreshFails(f) ==
    /\ loading[f].at \in {"asked", "read"} /\ slips < MaxSlips
    /\ snap' = [snap EXCEPT ![ProcessOf(f)] = KeptAfterFailure(ProcessOf(f))]
    /\ Returned(f) /\ slips' = slips + 1
    /\ UNCHANGED <<rows, escalated, kept, stale, unrecorded, edits>>

RefreshDone(f) ==
    /\ loading[f].at = "read"
    /\ LET p == ProcessOf(f)
           read == loading[f].rows
       IN /\ snap' = [snap EXCEPT ![p] = Resolve(read, snap[p])]
          /\ kept' = [kept EXCEPT ![p] =
                        {s \in Settings : \/ read[s].kind = "stored"
                                          \/ s \in @ /\ read[s].kind = "malformed"}]
    /\ Returned(f)
    /\ UNCHANGED <<rows, escalated, stale, unrecorded, edits, slips>>

(* A process starts from the environment, and its requests go with it.      *)
Restart(p) ==
    /\ slips < MaxSlips
    /\ snap' = [snap EXCEPT ![p] = FromEnvironment]
    /\ kept' = [kept EXCEPT ![p] = {}]
    /\ loading' = [f \in Refreshers |-> IF ProcessOf(f) = p THEN Idling ELSE loading[f]]
    /\ IF p = "console"
         THEN /\ edit' = [e \in Edits |-> NoEdit]
              /\ unrecorded' = (unrecorded \/ \E e \in Edits :
                    edit[e].at \in {"refreshing", "recording"} /\ edit[e].op = "add tool")
         ELSE UNCHANGED <<edit, unrecorded>>
    /\ slips' = slips + 1
    /\ UNCHANGED <<rows, escalated, stale, edits>>
-----------------------------------------------------------------------------
(* UPSERT_SETTING and CLEAR_SETTING, each with its record in one statement. *)
Stored(s, row) ==
    /\ edits < MaxEdits /\ edits' = edits + 1
    /\ rows' = [rows EXCEPT ![s] = row]

(* A request writes, and then re-reads what is stored.                      *)
Wrote(e) ==
    /\ edit' = [edit EXCEPT ![e].at = "refreshing"]
    /\ loading' = [loading EXCEPT ![e].at = "asked"]

(* ConfigurationEditor.set refuses text that does not parse; clear is its   *)
(* other operation.                                                         *)
PutSetting(e, v) ==
    /\ edit[e].at = "none"
    /\ Stored("scalar", Row(v)) /\ Wrote(e)
    /\ UNCHANGED <<snap, escalated, kept, stale, unrecorded, slips>>

ClearSetting(e) ==
    /\ edit[e].at = "none" /\ rows["scalar"].kind # "absent"
    /\ Stored("scalar", Absent) /\ Wrote(e)
    /\ UNCHANGED <<snap, escalated, kept, stale, unrecorded, slips>>

(* Somebody writes into the table what the editor would have refused.       *)
WriteByHand ==
    /\ Stored("scalar", Malformed)
    /\ UNCHANGED <<snap, loading, edit, escalated, kept, stale, unrecorded, slips>>
-----------------------------------------------------------------------------
ListOf(op) == IF op \in {"add server", "remove server"} THEN "servers" ELSE "tools"
Adds(op) == op \in {"add server", "add tool"}

(* A list with an entry more or less.                                       *)
Changed(list, op, what) == IF Adds(op) THEN list \cup what ELSE list \ what

(* A request that changes a list checks the lists in force.  To add it then *)
(* waits for the server's answer, and reads the list again after it; to     *)
(* remove it begins to write at once.                                       *)
Checks(e, op, what) ==
    edit' = [edit EXCEPT ![e] = [at |-> IF Adds(op) THEN "probing" ELSE "writing",
                                 op |-> op, what |-> what,
                                 seen |-> <<InForce("servers"), InForce("tools")>>,
                                 list |-> Changed(InForce(ListOf(op)), op, what)]]

AddServer(e, s) ==
    /\ edit[e].at = "none" /\ s \notin InForce("servers")
    /\ Checks(e, "add server", {s})
    /\ UNCHANGED <<rows, snap, loading, escalated, kept, stale, unrecorded, edits, slips>>

(* A mutant: the tools that name the server are not looked at.              *)
MayRemoveServerAlways(s) == s \in InForce("servers")

MayRemoveServer(s) ==
    s \in InForce("servers") /\ \A t \in InForce("tools") : ServerOf[t] # s

RemoveServer(e, s) ==
    /\ edit[e].at = "none" /\ MayRemoveServer(s)
    /\ Checks(e, "remove server", {s})
    /\ UNCHANGED <<rows, snap, loading, escalated, kept, stale, unrecorded, edits, slips>>

AddTool(e, t) ==
    /\ edit[e].at = "none" /\ t \notin InForce("tools")
    /\ ServerOf[t] \in InForce("servers")
    /\ Checks(e, "add tool", {t})
    /\ UNCHANGED <<rows, snap, loading, escalated, kept, stale, unrecorded, edits, slips>>

RemoveTool(e, t) ==
    /\ edit[e].at = "none" /\ t \in InForce("tools")
    /\ Checks(e, "remove tool", {t})
    /\ UNCHANGED <<rows, snap, loading, escalated, kept, stale, unrecorded, edits, slips>>

(* The server answers, and with the tool; nobody holds a credential; the    *)
(* confirmation is wrong: in all but the first case the request is refused. *)
Probed(e) ==
    /\ edit[e].at = "probing"
    /\ \/ edit' = [edit EXCEPT ![e] = NoEdit]
       \/ edit' = [edit EXCEPT ![e].at = "writing",
                ![e].list = Changed(InForce(ListOf(edit[e].op)), edit[e].op, edit[e].what)]
    /\ UNCHANGED <<rows, snap, loading, escalated, kept, stale, unrecorded, edits, slips>>

(* The list is stored whole, as it was when the write began.                *)
StoreList(e) ==
    /\ edit[e].at = "writing"
    /\ LET op == edit[e].op IN
       /\ Stored(ListOf(op), Row(edit[e].list))
       /\ stale' = (\/ stale
                    \/ edit[e].seen # <<Value("servers"), Value("tools")>>
                    \/ edit[e].list # Changed(Value(ListOf(op)), op, edit[e].what))
    /\ Wrote(e)
    /\ UNCHANGED <<snap, escalated, kept, unrecorded, slips>>

(* _record_escalation, in a transaction of its own.                         *)
RecordEscalation(e) ==
    /\ edit[e].at = "recording"
    /\ escalated' = escalated \cup edit[e].what
    /\ edit' = [edit EXCEPT ![e] = NoEdit]
    /\ UNCHANGED <<rows, snap, loading, kept, stale, unrecorded, edits, slips>>
-----------------------------------------------------------------------------
RefreshStep(f) == (f \in Processes /\ RefreshAsk(f)) \/ RefreshRead(f) \/ RefreshDone(f)
EditStep(e) == RefreshStep(e) \/ Probed(e) \/ StoreList(e) \/ RecordEscalation(e)

ConfigurationNext ==
    \/ \E f \in Refreshers : RefreshStep(f) \/ RefreshFails(f)
    \/ \E p \in Processes : Restart(p)
    \/ \E e \in Edits :
         \/ \E v \in ValueOf("scalar") : PutSetting(e, v)
         \/ ClearSetting(e) \/ Probed(e) \/ StoreList(e) \/ RecordEscalation(e)
         \/ \E s \in Servers : AddServer(e, s) \/ RemoveServer(e, s)
         \/ \E t \in Tools : AddTool(e, t) \/ RemoveTool(e, t)
    \/ WriteByHand
-----------------------------------------------------------------------------
(* Rows hold what their settings may hold, and processes what they resolve. *)
ConfigurationTypeOK ==
    /\ \A s \in Settings : rows[s] \in RowsOf(s)
    /\ \A p \in Processes : \A s \in Settings :
         /\ snap[p][s].value \in ValueOf(s)
         /\ snap[p][s].source \in {"environment", "database"}
    /\ \A f \in Refreshers : loading[f].at \in {"idle", "asked", "read"}
    /\ \A e \in Edits : edit[e].at \in {"none", "probing", "writing", "refreshing", "recording"}
    /\ escalated \subseteq Tools

(* A value that was taken from the database gives way to the environment's  *)
(* only when a load finds its row gone or the process starts again: not     *)
(* when a load fails, nor when the row becomes unreadable.                  *)
NarrowingKept ==
    \A p \in Processes : \A s \in kept[p] : snap[p][s].source = "database"

(* A list that was checked against what is stored leaves the lists in such  *)
(* a state that an agent would accept them at its start: no tool names a    *)
(* server that is not configured.                                           *)
ListsAgree == stale \/ Honoured(Value("servers"), Value("tools"))

(* Whatever may change state and is stored is on record as an escalation,   *)
(* unless the console stopped between the two transactions.                 *)
EscalationsRecorded ==
    \A t \in Value("tools") \cap Mutates :
        \/ t \in escalated \/ unrecorded \/ t \in Environment["tools"]
        \/ \E e \in Edits : edit[e].what = {t} /\ edit[e].at \in {"refreshing", "recording"}

ConfigurationInv == NarrowingKept /\ ListsAgree /\ EscalationsRecorded

(* When operators stop, every process comes to have in force what is stored *)
(* and readable, and the environment's value where nothing is.              *)
EditsTakeHold ==
    <>[](\A p \in Processes : \A s \in Settings :
            rows[s].kind = "malformed" \/ snap[p][s].value = Value(s))
=============================================================================
