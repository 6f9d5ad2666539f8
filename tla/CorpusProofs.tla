---------------------------- MODULE CorpusProofs ----------------------------
(***************************************************************************)
(* Theorems about Corpus, for every number of messages, every creation     *)
(* times, every bound and every number of faults; about Indexing, for any  *)
(* channels, commands, pages and history; and about the two together.      *)
(***************************************************************************)
EXTENDS MCArchive, FiniteSetTheorems, WellFoundedInduction, TLAPS

-----------------------------------------------------------------------------
(* Typing of the helpers *)

LEMMA EarliestType ==
    ASSUME TypeOK, NEW at \in Nat
    PROVE  Earliest(at) \in Nat
BY DEF TypeOK, Earliest

LEMMA CreatedType == ASSUME NEW m \in Msg PROVE CreatedAt[m] \in Nat
BY CorpusAssumption

LEMMA QuoteType ==
    ASSUME NEW text \in Text, NEW S
    PROVE  Quote(text, S) \in Text
BY DEF Quote, Text

LEMMA BuildType ==
    ASSUME NEW text \in Text
    PROVE  BuildWindows(text) \subseteq Text
BY QuoteType DEF BuildWindows

LEMMA LiveTextType ==
    ASSUME TypeOK, NEW S
    PROVE  LiveText(S) \in Text
BY DEF LiveText, TypeOK, Text, Row

LEMMA IdleTypes ==
    /\ IdleLoop \in Loop
    /\ NoWriter \in Writer
    /\ NoDeleter \in Deleter
<1>1. [m \in Msg |-> Absent] \in Text
  BY DEF Text
<1>2. IdleLoop \in Loop
  BY <1>1 DEF IdleLoop, Loop
<1>3. 0 \in Rev
  BY CorpusAssumption DEF Rev
<1>4. NoWriter \in Writer
  BY <1>3 DEF NoWriter, Writer, Via
<1>5. NoDeleter \in Deleter
  BY DEF NoDeleter, Deleter
<1>6. QED
  BY <1>2, <1>4, <1>5

-----------------------------------------------------------------------------
(* Type correctness *)

LEMMA TypeInit == Init => TypeOK
<1> SUFFICES ASSUME Init PROVE TypeOK
  OBVIOUS
<1>1. 0 \in Rev /\ 0 \in 0..Deliveries /\ 0 \in 0..MaxFaults
  BY CorpusAssumption DEF Rev
<1>2. plat \in [Msg -> PlatMessage] /\ rows \in [Msg -> Row]
  BY <1>1 DEF Init, PlatMessage, Row
<1>3. writer \in [Msg -> Writer] /\ deleter \in [Msg -> Deleter] /\ loop \in Loop
  BY IdleTypes DEF Init
<1>4. QED
  BY <1>1, <1>2, <1>3 DEF Init, TypeOK, NotDirty

LEMMA TypeStep == TypeOK /\ [Next]_vars => TypeOK'
<1> SUFFICES ASSUME TypeOK, [Next]_vars PROVE TypeOK'
  OBVIOUS
<1> USE DEF TypeOK
<1>1. ASSUME NEW m \in Msg, Post(m) PROVE TypeOK'
  BY <1>1, CorpusAssumption DEF Post, PlatMessage, Object, Rev, Via
<1>2. ASSUME NEW m \in Msg, Edit(m) PROVE TypeOK'
  BY <1>2, CorpusAssumption DEF Edit, PlatMessage, Object, Rev, Via
<1>3. ASSUME NEW m \in Msg, Delete(m) PROVE TypeOK'
  BY <1>3, CorpusAssumption DEF Delete, PlatMessage
<1>4. ASSUME NEW m \in Msg, ReconcileEdit(m) PROVE TypeOK'
  BY <1>4 DEF ReconcileEdit, PlatMessage, Object, Via
<1>5. ASSUME NEW m \in Msg, ReconcileDelete(m) PROVE TypeOK'
  BY <1>5, CorpusAssumption DEF ReconcileDelete
<1>6. ASSUME NEW m \in Msg, BackfillRead(m) PROVE TypeOK'
  BY <1>6 DEF BackfillRead, PlatMessage, Object, Via
<1>7. ASSUME NEW m \in Msg, UpsertBegin(m) PROVE TypeOK'
  BY <1>7 DEF UpsertBegin, Object, Writer
<1>8. ASSUME NEW m \in Msg, UpsertCommit(m) PROVE TypeOK'
  <2>1. Upserted(m) \in Row
    BY DEF Upserted, Row, Writer
  <2>2. [msg |-> m, via |-> writer[m].via] \in Mark
    BY DEF Mark, Writer
  <2>3. QED
    BY <1>8, <2>1, <2>2, IdleTypes DEF UpsertCommit
<1>9. ASSUME NEW m \in Msg, MarkDirty(m) PROVE TypeOK'
  BY <1>9, EarliestType, CreatedType DEF MarkDirty
<1>10. ASSUME NEW m \in Msg, DeleteBegin(m) PROVE TypeOK'
  <2>1. [open |-> TRUE, targets |-> {w \in windows : m \in Members(w)}] \in Deleter
    BY DEF Deleter
  <2>2. delq' \in [Msg -> 0..Deliveries]
    BY <1>10, CorpusAssumption DEF DeleteBegin
  <2>3. QED
    BY <1>10, <2>1, <2>2 DEF DeleteBegin
<1>11. ASSUME NEW m \in Msg, DeleteCommit(m) PROVE TypeOK'
  <2>1. rows' \in [Msg -> Row]
    BY <1>11 DEF DeleteCommit, Row
  <2>2. dirty' \in Nat
    BY <1>11, EarliestType, CreatedType DEF DeleteCommit
  <2>3. QED
    BY <1>11, <2>1, <2>2, IdleTypes DEF DeleteCommit
<1>12. CASE LoopWake
  <2>1. dirty - Lookback \in Int
    BY CorpusAssumption
  <2>2. loop' \in Loop
    BY <1>12, <2>1 DEF LoopWake, Loop
  <2>3. QED
    BY <1>12, <2>2 DEF LoopWake
<1>13. CASE RewindowRead
  BY <1>13, LiveTextType DEF RewindowRead, Loop
<1>14. CASE NetRead
  BY <1>14, LiveTextType, IdleTypes DEF NetRead, Loop
<1>15. CASE WindowsDelete
  BY <1>15 DEF WindowsDelete, Loop
<1>16. CASE WindowsCommit
  <2>1. windows' \subseteq Text
    BY <1>16, BuildType DEF WindowsCommit, Published, Loop
  <2>2. deleter' \in [Msg -> Deleter]
    BY <1>16 DEF WindowsCommit, Deleter
  <2>3. [IdleLoop EXCEPT !.pc = "clear", !.net = Members(loop.read) = {}] \in Loop
    BY IdleTypes DEF Loop
  <2>4. loop' \in Loop
    BY <1>16, <2>3, IdleTypes DEF WindowsCommit
  <2>5. QED
    BY <1>16, <2>1, <2>2, <2>4 DEF WindowsCommit
<1>17. CASE ClearDirty
  <2>1. [IdleLoop EXCEPT !.pc = "net"] \in Loop
    BY IdleTypes DEF Loop
  <2>2. QED
    BY <1>17, <2>1, IdleTypes DEF ClearDirty, NotDirty
<1>18. ASSUME NEW m \in Msg, WriteFails(m) PROVE TypeOK'
  BY <1>18, IdleTypes, CorpusAssumption DEF WriteFails
<1>19. ASSUME NEW m \in Msg, DeleteFails(m) PROVE TypeOK'
  BY <1>19, IdleTypes, CorpusAssumption DEF DeleteFails
<1>20. CASE RebuildFails
  BY <1>20, IdleTypes, CorpusAssumption DEF RebuildFails
<1>21. CASE Crash
  BY <1>21, IdleTypes, CorpusAssumption DEF Crash
<1>22. CASE UNCHANGED vars
  BY <1>22 DEF vars
<1>23. QED
  BY <1>1, <1>2, <1>3, <1>4, <1>5, <1>6, <1>7, <1>8, <1>9, <1>10, <1>11,
     <1>12, <1>13, <1>14, <1>15, <1>16, <1>17, <1>18, <1>19, <1>20, <1>21,
     <1>22
     DEF Next, People, History, Writers, Deleters, WindowLoop, Faults

\* Every reachable state is well typed, the state of the window loop and of
\* the open transactions included.
THEOREM TypeCorrect == Spec => []TypeOK
BY TypeInit, TypeStep, PTL DEF Spec

-----------------------------------------------------------------------------
(* Deletions stick *)

\* With the lock held from the read of the ledger to the commit, no upsert can
\* commit a live row for a message whose deletion is recorded.
LEMMA NoResurrectionStep ==
    TypeOK /\ LockInv /\ NoResurrection /\ [Next]_vars
      => LockInv' /\ NoResurrection'
<1> SUFFICES ASSUME TypeOK, LockInv, NoResurrection, [Next]_vars
             PROVE  LockInv' /\ NoResurrection'
  OBVIOUS
<1> USE DEF TypeOK, LockInv, NoResurrection
<1>1. ASSUME NEW m \in Msg, UpsertBegin(m) PROVE LockInv' /\ NoResurrection'
  <2>1. PICK o \in inflight :
            /\ LockFree(m)
            /\ writer' = [writer EXCEPT ![m] =
                  [open |-> TRUE, rev |-> o.rev, via |-> o.via, dead |-> m \in ledger]]
            /\ UNCHANGED <<rows, ledger, deleter>>
    BY <1>1 DEF UpsertBegin
  <2>2. writer'[m].dead = (m \in ledger) /\ ~deleter'[m].open
    BY <2>1 DEF LockFree
  <2>3. \A n \in Msg \ {m} : writer'[n] = writer[n]
    BY <2>1
  <2>4. ASSUME NEW n \in Msg
        PROVE  /\ ~(writer'[n].open /\ deleter'[n].open)
               /\ writer'[n].open => (writer'[n].dead <=> n \in ledger')
    <3>1. CASE n = m
      BY <2>1, <2>2, <3>1, Zenon
    <3>2. CASE n # m
      BY <2>1, <2>3, <3>2, Zenon
    <3>3. QED
      BY <3>1, <3>2
  <2>5. QED
    BY <2>1, <2>4
<1>2. ASSUME NEW m \in Msg, UpsertCommit(m) PROVE LockInv' /\ NoResurrection'
  <2>1. m \in ledger => Upserted(m).st # "live"
    BY <1>2 DEF UpsertCommit, Upserted, Row
  <2>2. NoResurrection'
    BY <1>2, <2>1 DEF UpsertCommit
  <2>3. LockInv'
    BY <1>2 DEF UpsertCommit, NoWriter
  <2>4. QED
    BY <2>2, <2>3
<1>3. ASSUME NEW m \in Msg, DeleteBegin(m) PROVE LockInv' /\ NoResurrection'
  BY <1>3 DEF DeleteBegin, LockFree
<1>4. ASSUME NEW m \in Msg, DeleteCommit(m) PROVE LockInv' /\ NoResurrection'
  <2>1. rows'[m].st # "live" /\ \A n \in Msg \ {m} : rows'[n] = rows[n]
    BY <1>4 DEF DeleteCommit, Row
  <2>2. NoResurrection'
    BY <1>4, <2>1 DEF DeleteCommit
  <2>3. ~writer[m].open
    BY <1>4 DEF DeleteCommit
  <2>4. LockInv'
    BY <1>4, <2>3 DEF DeleteCommit, NoDeleter
  <2>5. QED
    BY <2>2, <2>4
<1>5. CASE WindowsCommit
  <2>1. \A m \in Msg : deleter'[m].open = deleter[m].open
    BY <1>5 DEF WindowsCommit, Deleter
  <2>2. QED
    BY <1>5, <2>1 DEF WindowsCommit
<1>6. ASSUME NEW m \in Msg, WriteFails(m) PROVE LockInv' /\ NoResurrection'
  BY <1>6 DEF WriteFails, NoWriter
<1>7. ASSUME NEW m \in Msg, DeleteFails(m) PROVE LockInv' /\ NoResurrection'
  BY <1>7 DEF DeleteFails, NoDeleter
<1>8. CASE Crash
  BY <1>8 DEF Crash, NoWriter, NoDeleter
<1>9. CASE UNCHANGED <<rows, ledger, writer, deleter>>
  BY <1>9
<1>10. QED
  BY <1>1, <1>2, <1>3, <1>4, <1>5, <1>6, <1>7, <1>8, <1>9
     DEF Next, People, History, Writers, Deleters, WindowLoop, Faults, vars,
         Post, Edit, Delete, ReconcileEdit, ReconcileDelete, BackfillRead,
         MarkDirty, LoopWake, RewindowRead, NetRead, WindowsDelete,
         ClearDirty, RebuildFails

\* A message whose deletion was recorded is never a live row, for any number
\* of messages, in any order and overlap of captures and deletions.
THEOREM DeletionsWin == Spec => []NoResurrection
<1>1. Init => LockInv /\ NoResurrection
  BY DEF Init, LockInv, NoResurrection, NoWriter, NoDeleter
<1>2. QED
  BY <1>1, TypeInit, TypeStep, NoResurrectionStep, PTL DEF Spec

\* No step brings a withdrawn row back or forgets a recorded deletion.
THEOREM WithdrawalIsFinal == Spec => TombstonesStick
<1>1. TypeOK /\ [Next]_vars =>
        [/\ ledger \subseteq ledger'
         /\ \A m \in Msg : rows[m].st = "dead" => rows'[m].st = "dead"]_<<rows, ledger>>
  <2> SUFFICES ASSUME TypeOK, [Next]_vars
               PROVE  /\ ledger \subseteq ledger'
                      /\ \A m \in Msg : rows[m].st = "dead" => rows'[m].st = "dead"
    OBVIOUS
  <2>1. ASSUME NEW m \in Msg, UpsertCommit(m)
        PROVE  \A n \in Msg : rows[n].st = "dead" => rows'[n].st = "dead"
    <3>1. rows[m].st = "dead" => Upserted(m).st = "dead"
      BY DEF Upserted, TypeOK, Row
    <3>2. QED
      BY <2>1, <3>1 DEF UpsertCommit, TypeOK
  <2>2. ASSUME NEW m \in Msg, DeleteCommit(m)
        PROVE  /\ ledger \subseteq ledger'
               /\ \A n \in Msg : rows[n].st = "dead" => rows'[n].st = "dead"
    BY <2>2 DEF DeleteCommit, TypeOK, Row
  <2>3. CASE UNCHANGED <<rows, ledger>>
    BY <2>3
  <2>4. QED
    BY <2>1, <2>2, <2>3
       DEF Next, People, History, Writers, Deleters, WindowLoop, Faults, vars,
           Post, Edit, Delete, ReconcileEdit, ReconcileDelete, BackfillRead,
           UpsertBegin, UpsertCommit, MarkDirty, DeleteBegin, LoopWake,
           RewindowRead, NetRead, WindowsDelete, WindowsCommit, ClearDirty,
           RebuildFails, WriteFails, DeleteFails, Crash
<1>2. QED
  BY <1>1, TypeInit, TypeStep, PTL DEF Spec, TombstonesStick

-----------------------------------------------------------------------------
(* Windows *)

LEMMA TogetherEquivalence ==
    ASSUME NEW S \in SUBSET Msg, NEW i \in Msg, NEW j \in Msg, NEW k \in Msg,
           Together(S, i, k), Together(S, j, k)
    PROVE  \A n \in Msg : Together(S, i, n) <=> Together(S, j, n)
<1>1. ASSUME NEW c \in Msg, NEW n \in Msg, Together(S, c, k)
      PROVE  Together(S, c, n) <=> (SameRun(S, k, n)
               /\ Rank(S, k) \div MaxMessages = Rank(S, n) \div MaxMessages)
  <2>1. SameRun(S, c, k)
    BY <1>1 DEF Together
  <2>2. SameRun(S, c, n) <=> SameRun(S, k, n)
    BY <2>1 DEF SameRun
  <2>3. QED
    BY <1>1, <2>2 DEF Together
<1>2. QED
  BY <1>1

\* WindowBuilder puts no message into two windows, and invents none.
LEMMA BuildPartition ==
    ASSUME NEW text \in Text
    PROVE  /\ \A w \in BuildWindows(text), m \in Msg :
                  m \in Members(w) => w[m] = text[m] /\ m \in Members(text)
           /\ \A v, w \in BuildWindows(text) :
                  v # w => Members(v) \cap Members(w) = {}
<1> DEFINE S == Members(text)
           Group(i) == {n \in S : Together(S, i, n)}
<1>1. S \subseteq Msg
  BY DEF Members
<1>2. \A i : Members(Quote(text, Group(i))) = Group(i)
  BY DEF Members, Quote
<1>3. BuildWindows(text) = {Quote(text, Group(i)) : i \in S}
  BY DEF BuildWindows
<1>4. ASSUME NEW w \in BuildWindows(text), NEW m \in Msg, m \in Members(w)
      PROVE  w[m] = text[m] /\ m \in Members(text)
  <2>1. PICK i \in S : w = Quote(text, Group(i))
    BY <1>3
  <2>2. m \in Group(i)
    BY <1>2, <1>4, <2>1
  <2>3. QED
    BY <2>1, <2>2 DEF Quote
<1>5. ASSUME NEW v \in BuildWindows(text), NEW w \in BuildWindows(text),
             NEW k \in Members(v) \cap Members(w)
      PROVE  v = w
  <2>1. PICK i \in S : v = Quote(text, Group(i))
    BY <1>3
  <2>2. PICK j \in S : w = Quote(text, Group(j))
    BY <1>3
  <2>3. Together(S, i, k) /\ Together(S, j, k) /\ k \in Msg
    BY <1>1, <1>2, <1>5, <2>1, <2>2
  <2>4. \A n \in Msg : Together(S, i, n) <=> Together(S, j, n)
    BY <1>1, <2>3, TogetherEquivalence
  <2>5. Group(i) = Group(j)
    BY <1>1, <2>4
  <2>6. QED
    BY <2>1, <2>2, <2>5
<1>6. QED
  BY <1>4, <1>5

LEMMA LoopStep ==
    TypeOK /\ LoopInv /\ OneLiveWindow /\ [Next]_vars
      => LoopInv' /\ OneLiveWindow'
<1> SUFFICES ASSUME TypeOK, LoopInv, OneLiveWindow, [Next]_vars
             PROVE  LoopInv' /\ OneLiveWindow'
  OBVIOUS
<1>1. ASSUME loop' = loop, windows' \subseteq windows
      PROVE  LoopInv' /\ OneLiveWindow'
  BY <1>1 DEF LoopInv, OneLiveWindow, Replaced
<1>2. ASSUME loop'.pc \notin {"delete", "commit"}, windows' = windows
      PROVE  LoopInv' /\ OneLiveWindow'
  BY <1>2 DEF LoopInv, OneLiveWindow
<1>3. CASE RewindowRead
  <2>1. loop'.pc = "delete" /\ loop'.since = loop.since
        /\ loop'.read = LiveText(FirstOf({m \in Msg : rows[m].st = "live" /\ CreatedAt[m] >= loop.since},
                                  RewindowLimit))
    BY <1>3 DEF RewindowRead, TypeOK, Loop
  <2>2. \A m \in Members(loop'.read) : CreatedAt[m] >= loop.since
    BY <2>1 DEF Members, LiveText, FirstOf
  <2>3. QED
    BY <1>3, <2>1, <2>2 DEF LoopInv, OneLiveWindow, RewindowRead
<1>4. CASE NetRead
  <2>1. loop'.pc # "commit" /\ (loop'.pc = "delete" => loop'.net)
    BY <1>4 DEF NetRead, TypeOK, Loop, IdleLoop
  <2>2. QED
    BY <1>4, <2>1 DEF LoopInv, OneLiveWindow, NetRead
<1>5. CASE WindowsDelete
  <2>1. /\ loop.pc = "delete" /\ loop'.pc = "commit"
        /\ loop'.since = loop.since /\ loop'.read = loop.read
        /\ loop'.net = loop.net
        /\ loop'.gone = {w \in windows : Replaced(w)}
    BY <1>5 DEF WindowsDelete, TypeOK, Loop
  <2>2. \A w \in windows \ loop'.gone : ~Replaced(w)'
    BY <2>1 DEF Replaced
  <2>3. QED
    BY <1>5, <2>1, <2>2 DEF LoopInv, OneLiveWindow, WindowsDelete
<1>6. CASE WindowsCommit
  <2>1. loop.pc = "commit" /\ loop'.pc \notin {"delete", "commit"}
    BY <1>6 DEF WindowsCommit, IdleLoop
  <2>2. LoopInv'
    BY <2>1 DEF LoopInv
  <2>3. windows' \subseteq (windows \ loop.gone) \cup BuildWindows(loop.read)
    BY <1>6 DEF WindowsCommit, Published
  <2>4. loop.read \in Text
    BY DEF TypeOK, Loop
  <2>5. ASSUME NEW v \in windows \ loop.gone, NEW w \in BuildWindows(loop.read)
        PROVE  Members(v) \cap Members(w) = {}
    <3> SUFFICES ASSUME NEW m \in Members(v) \cap Members(w) PROVE FALSE
      OBVIOUS
    <3>1. m \in Msg /\ m \in Members(loop.read)
      BY <2>4, BuildPartition DEF Members
    <3>2. Replaced(v)
      BY <2>1, <3>1 DEF LoopInv, Replaced
    <3>3. QED
      BY <2>1, <3>2 DEF LoopInv
  <2>6. ASSUME NEW v \in windows', NEW w \in windows', v # w
        PROVE  Members(v) \cap Members(w) = {}
    <3>1. CASE v \in windows /\ w \in windows
      BY <2>6, <3>1 DEF OneLiveWindow
    <3>2. CASE v \in BuildWindows(loop.read) /\ w \in BuildWindows(loop.read)
      BY <2>4, <2>6, <3>2, BuildPartition
    <3>3. QED
      BY <2>3, <2>5, <2>6, <3>1, <3>2
  <2>7. OneLiveWindow'
    BY <2>6 DEF OneLiveWindow, Members
  <2>8. QED
    BY <2>2, <2>7
<1>7. CASE People \/ History
  BY <1>1, <1>7
     DEF People, History, Post, Edit, Delete, ReconcileEdit, ReconcileDelete,
         BackfillRead
<1>8. ASSUME NEW m \in Msg, Writers(m) \/ Deleters(m)
      PROVE  LoopInv' /\ OneLiveWindow'
  BY <1>1, <1>8
     DEF Writers, Deleters, UpsertBegin, UpsertCommit, MarkDirty, DeleteBegin,
         DeleteCommit
<1>9. CASE LoopWake
  <2>1. loop'.pc \in {"net", "read"} /\ windows' = windows
    BY <1>9 DEF LoopWake, TypeOK, Loop
  <2>2. QED
    BY <1>2, <2>1
<1>10. CASE ClearDirty
  <2>1. loop'.pc \in {"net", "idle"} /\ windows' = windows
    BY <1>10 DEF ClearDirty, IdleLoop
  <2>2. QED
    BY <1>2, <2>1
<1>11. CASE RebuildFails \/ Crash
  <2>1. loop'.pc = "idle" /\ windows' = windows
    BY <1>11 DEF RebuildFails, Crash, IdleLoop
  <2>2. QED
    BY <1>2, <2>1
<1>12. ASSUME NEW m \in Msg, WriteFails(m) \/ DeleteFails(m)
       PROVE  LoopInv' /\ OneLiveWindow'
  BY <1>1, <1>12 DEF WriteFails, DeleteFails
<1>13. CASE UNCHANGED vars
  BY <1>1, <1>13 DEF vars
<1>14. QED
  BY <1>3, <1>4, <1>5, <1>6, <1>7, <1>8, <1>9, <1>10, <1>11, <1>12, <1>13
     DEF Next, WindowLoop, Faults

\* No message is ever quoted by two live windows, whatever the spacing of the
\* messages, the window bounds, the lookback and the order of arrival.
THEOREM WindowsArePartition == Spec => []OneLiveWindow
<1>1. Init => LoopInv /\ OneLiveWindow
  BY DEF Init, LoopInv, OneLiveWindow, IdleLoop
<1>2. QED
  BY <1>1, TypeInit, TypeStep, LoopStep, PTL DEF Spec

\* A rebuild publishes no window quoting a message already withdrawn.
THEOREM NoRebuildPublishesDead == Spec => NoDeadPublished
<1>1. [Next]_vars => [\A w \in windows' \ windows : ~HasDead(w)]_windows
  <2> SUFFICES ASSUME [Next]_vars, windows' # windows
               PROVE  \A w \in windows' \ windows : ~HasDead(w)
    OBVIOUS
  <2>1. CASE WindowsCommit
    BY <2>1 DEF WindowsCommit, Published
  <2>2. ASSUME NEW m \in Msg, DeleteCommit(m)
        PROVE  windows' \subseteq windows
    BY <2>2 DEF DeleteCommit
  <2>3. QED
    BY <2>1, <2>2
       DEF Next, People, History, Writers, Deleters, WindowLoop, Faults, vars,
           Post, Edit, Delete, ReconcileEdit, ReconcileDelete, BackfillRead,
           UpsertBegin, UpsertCommit, MarkDirty, DeleteBegin, LoopWake,
           RewindowRead, NetRead, WindowsDelete, ClearDirty, RebuildFails,
           WriteFails, DeleteFails, Crash
<1>2. QED
  BY <1>1, PTL DEF Spec, NoDeadPublished

-----------------------------------------------------------------------------
(* Superseded text is always due for a rebuild *)

LEMMA AllMarkedStep ==
    ASSUME Backfill = FALSE
    PROVE  TypeOK /\ AllMarked /\ [Next]_vars => AllMarked'
<1> SUFFICES ASSUME TypeOK, AllMarked, [Next]_vars PROVE AllMarked'
  OBVIOUS
<1> USE DEF AllMarked, TypeOK
<1>1. ASSUME NEW m \in Msg, Post(m) \/ Edit(m) \/ Delete(m) PROVE AllMarked'
  BY <1>1 DEF Post, Edit, Delete
<1>2. ASSUME NEW m \in Msg, ReconcileEdit(m) \/ ReconcileDelete(m) \/ BackfillRead(m)
      PROVE  AllMarked'
  BY <1>2 DEF ReconcileEdit, ReconcileDelete, BackfillRead
<1>3. ASSUME NEW m \in Msg, UpsertBegin(m) PROVE AllMarked'
  BY <1>3 DEF UpsertBegin
<1>4. ASSUME NEW m \in Msg, UpsertCommit(m) \/ WriteFails(m) PROVE AllMarked'
  BY <1>4 DEF UpsertCommit, WriteFails, NoWriter
<1>5. CASE Crash
  BY <1>5 DEF Crash, NoWriter
<1>6. CASE UNCHANGED <<inflight, writer>>
  BY <1>6
<1>7. QED
  BY <1>1, <1>2, <1>3, <1>4, <1>5, <1>6
     DEF Next, People, History, Writers, Deleters, WindowLoop, Faults, vars,
         MarkDirty, DeleteBegin, DeleteCommit, LoopWake, RewindowRead, NetRead,
         WindowsDelete, WindowsCommit, ClearDirty, RebuildFails, DeleteFails

\* A watermark is only ever moved to an earlier time, except by the clear.
LEMMA EarliestCovers ==
    ASSUME TypeOK, NEW at \in Nat \ {0}
    PROVE  /\ Earliest(at) # NotDirty /\ Earliest(at) <= at
           /\ dirty # NotDirty => Earliest(at) <= dirty
BY DEF TypeOK, Earliest, NotDirty

FreshInv == FreshOrDue /\ RebuildInv

LEMMA FreshStep ==
    ASSUME Backfill = FALSE, MaxFaults = 0
    PROVE  TypeOK /\ LoopInv /\ AllMarked /\ FreshInv /\ [Next]_vars => FreshInv'
<1> SUFFICES ASSUME TypeOK, LoopInv, AllMarked, FreshInv, [Next]_vars
             PROVE  FreshInv'
  OBVIOUS
<1> USE DEF FreshInv, FreshOrDue, RebuildInv
<1>created. \A m \in Msg : CreatedAt[m] \in Nat \ {0}
  BY CorpusAssumption
<1>text. windows \subseteq Text /\ loop.read \in Text
  BY DEF TypeOK, Loop
<1>1. ASSUME UNCHANGED <<rows, windows, dirty, seq, marks, loop>>
      PROVE  FreshInv'
  BY <1>1
<1>2. CASE People \/ History
  BY <1>1, <1>2
     DEF People, History, Post, Edit, Delete, ReconcileEdit, ReconcileDelete,
         BackfillRead
<1>3. ASSUME NEW m \in Msg, UpsertBegin(m) \/ DeleteBegin(m) PROVE FreshInv'
  BY <1>1, <1>3 DEF UpsertBegin, DeleteBegin
<1>4. ASSUME NEW m \in Msg, UpsertCommit(m) PROVE FreshInv'
  <2>1. /\ marks' = marks \cup {[msg |-> m, via |-> writer[m].via]}
        /\ UNCHANGED <<windows, dirty, seq, loop>>
        /\ \A n \in Msg \ {m} : rows'[n] = rows[n]
    BY <1>4 DEF UpsertCommit, AllMarked, TypeOK
  <2>2. Marked(marks', m) /\ \A n \in Msg : Marked(marks, n) => Marked(marks', n)
    <3>1. [msg |-> m, via |-> writer[m].via].msg = m
      OBVIOUS
    <3>2. Marked(marks', m)
      BY <2>1, <3>1, Zenon DEF Marked
    <3>3. \A n \in Msg : Marked(marks, n) => Marked(marks', n)
      BY <2>1, Zenon DEF Marked
    <3>4. QED
      BY <3>2, <3>3
  <2>3. \A text : \A n \in Msg \ {m} : Stale(text, rows', n) => Stale(text, rows, n)
    BY <2>1 DEF Stale
  <2>4. QED
    BY <2>1, <2>2, <2>3
<1>5. ASSUME NEW m \in Msg, MarkDirty(m) PROVE FreshInv'
  <2>1. \A n \in Msg : Covered(dirty, n) => Covered(dirty', n)
    <3>1. dirty' = Earliest(CreatedAt[m]) /\ CreatedAt[m] \in Nat \ {0}
      BY <1>5, <1>created DEF MarkDirty
    <3>2. dirty # NotDirty => dirty' # NotDirty /\ dirty' <= dirty /\ dirty' \in Nat
      BY <3>1, EarliestCovers DEF TypeOK, Earliest
    <3>3. QED
      BY <3>2, <1>created DEF Covered, TypeOK
  <2>2. Covered(dirty', m)
    BY <1>5, <1>created, EarliestCovers DEF MarkDirty, Covered
  <2>3. \A n \in Msg \ {m} : Marked(marks, n) => Marked(marks', n)
    BY <1>5 DEF MarkDirty, Marked
  <2>4. loop.pc # "idle" => seq'
    BY <1>5 DEF MarkDirty
  <2>5. UNCHANGED <<rows, windows, loop>>
    BY <1>5 DEF MarkDirty
  <2>6. QED
    BY <2>1, <2>2, <2>3, <2>4, <2>5
<1>6. ASSUME NEW m \in Msg, DeleteCommit(m) PROVE FreshInv'
  <2>1. \A n \in Msg : Covered(dirty, n) => Covered(dirty', n)
    <3>1. dirty' \in {dirty, Earliest(CreatedAt[m])} /\ CreatedAt[m] \in Nat \ {0}
      BY <1>6, <1>created DEF DeleteCommit
    <3>2. dirty # NotDirty => dirty' # NotDirty /\ dirty' <= dirty /\ dirty' \in Nat
      BY <3>1, EarliestCovers DEF TypeOK, Earliest
    <3>3. QED
      BY <3>2, <1>created DEF Covered, TypeOK
  <2>2. \A text : \A n \in Msg : Stale(text, rows', n) => Stale(text, rows, n)
    BY <1>6 DEF DeleteCommit, Stale, TypeOK, Row
  <2>3. windows' \subseteq windows /\ UNCHANGED <<seq, marks, loop>>
    BY <1>6 DEF DeleteCommit
  <2>4. QED
    BY <2>1, <2>2, <2>3
<1>7. CASE LoopWake
  <2>1. /\ loop'.pc \in {"net", "read"} /\ UNCHANGED <<rows, marks, dirty, windows>>
        /\ loop'.pc = "read" => dirty # NotDirty /\ loop'.since = dirty - Lookback
    BY <1>7 DEF LoopWake, TypeOK, Loop
  <2>2. \A n \in Msg : loop'.pc = "read" /\ Covered(dirty, n) => CreatedAt[n] >= loop'.since
    BY <2>1, <1>created, CorpusAssumption DEF Covered, TypeOK
  <2>3. QED
    BY <2>1, <2>2
<1>8. ASSUME NEW S, NEW n \in Msg PROVE ~Stale(LiveText(S), rows, n)
  BY DEF Stale, LiveText
<1>9. CASE RewindowRead
  <2>1. /\ loop.pc = "read" /\ loop'.pc = "delete"
        /\ loop'.since = loop.since /\ loop'.net = loop.net
        /\ loop'.read = LiveText(FirstOf({m \in Msg : rows[m].st = "live" /\ CreatedAt[m] >= loop.since},
                                  RewindowLimit))
        /\ UNCHANGED <<rows, marks, dirty, windows, seq>>
    BY <1>9 DEF RewindowRead, TypeOK, Loop
  <2>2. \A n \in Msg : ~Stale(loop'.read, rows, n)
    BY <2>1, <1>8
  <2>3. QED
    BY <2>1, <2>2
<1>10. CASE NetRead
  <2>1. /\ loop'.pc # "delete" => loop'.pc = "idle"
        /\ loop'.pc = "delete" => loop'.net /\ loop'.read = LiveText(FirstOf(Orphans, NetLimit))
        /\ UNCHANGED <<rows, marks, dirty, windows, seq>>
    BY <1>10 DEF NetRead, IdleLoop, TypeOK, Loop
  <2>2. loop'.pc = "delete" => \A n \in Msg : ~Stale(loop'.read, rows, n)
    BY <2>1, <1>8
  <2>3. QED
    BY <2>1, <2>2
<1>11. CASE WindowsDelete
  <2>1. /\ loop.pc = "delete" /\ loop'.pc = "commit"
        /\ loop'.since = loop.since /\ loop'.net = loop.net
        /\ loop'.read = loop.read
        /\ UNCHANGED <<rows, marks, dirty, windows, seq>>
    BY <1>11 DEF WindowsDelete, TypeOK, Loop
  <2>2. QED
    BY <2>1
<1>12. CASE WindowsCommit
  <2>1. /\ loop.pc = "commit"
        /\ loop'.pc = "clear" => ~loop.net
        /\ loop'.pc \in {"idle", "clear"}
        /\ UNCHANGED <<rows, marks, dirty, seq>>
        /\ windows' \subseteq (windows \ loop.gone) \cup BuildWindows(loop.read)
    BY <1>12 DEF WindowsCommit, IdleLoop, Published
  <2>2. ASSUME NEW w \in BuildWindows(loop.read), NEW n \in Msg, Stale(w, rows, n)
        PROVE  Stale(loop.read, rows, n)
    <3>1. n \in Members(w)
      BY <2>2 DEF Stale, Members
    <3>2. w[n] = loop.read[n]
      BY <3>1, <1>text, BuildPartition
    <3>3. QED
      BY <2>2, <3>2 DEF Stale
  <2>3. FreshOrDue'
    BY <2>1, <2>2
  <2>4. ASSUME NEW w \in windows \ loop.gone, NEW n \in Msg,
               Stale(w, rows, n), ~loop.net, ~seq
        PROVE  Marked(marks, n)
    <3>1. n \in Members(w)
      BY <2>4 DEF Stale, Members
    <3>2. ~(CreatedAt[n] >= loop.since)
      BY <2>1, <2>4, <3>1 DEF LoopInv, Replaced
    <3>3. QED
      BY <2>1, <2>4, <3>2
  <2>5. RebuildInv'
    BY <2>1, <2>2, <2>4
  <2>6. QED
    BY <2>3, <2>5
<1>13. CASE ClearDirty
  <2>1. /\ loop.pc = "clear" /\ loop'.pc \in {"net", "idle"}
        /\ seq => dirty' = dirty
        /\ UNCHANGED <<rows, marks, windows>>
    BY <1>13 DEF ClearDirty, IdleLoop
  <2>2. QED
    BY <2>1
<1>14. ~Faults
  BY DEF Faults, Crash, RebuildFails, WriteFails, DeleteFails, TypeOK
<1>15. CASE UNCHANGED vars
  BY <1>1, <1>15 DEF vars
<1>16. QED
  BY <1>2, <1>3, <1>4, <1>5, <1>6, <1>7, <1>9, <1>10, <1>11, <1>12, <1>13,
     <1>14, <1>15
     DEF Next, Writers, Deleters, WindowLoop

\* Unless a transaction fails, the process restarts or history is being
\* imported, no window keeps superseded text that no rebuild is due to remove.
THEOREM SupersededTextIsDue ==
    ASSUME Backfill = FALSE, MaxFaults = 0
    PROVE  Spec => []FreshOrDue
<1>1. Init => LoopInv /\ OneLiveWindow /\ AllMarked /\ FreshInv
  BY DEF Init, LoopInv, OneLiveWindow, AllMarked, FreshInv, FreshOrDue,
         RebuildInv, IdleLoop, NoWriter
<1>2. FreshInv => FreshOrDue
  BY DEF FreshInv
<1>3. QED
  BY <1>1, <1>2, TypeInit, TypeStep, LoopStep, AllMarkedStep, FreshStep, PTL
     DEF Spec

-----------------------------------------------------------------------------
(* Indexing: who let it be archived *)

RequestRows == [at : {"unasked", "waiting", "writing", "announcing", "reverting", "undoing",
                      "purging", "done"}, act : Acts, ch : Channels, before : SUBSET Channels]
JobRows == [at : {"idle", "writing", "cursor"}, ch : Channels, msgs : SUBSET Nat]

\* The list, its snapshots, and what is written of it.
ListTypes ==
    /\ scope \subseteq Channels /\ here \subseteq Channels /\ there \subseteq Channels
    /\ forsaken \subseteq Channels /\ overtaken \subseteq Channels
    /\ request \in [IndexRequests -> RequestRows]
    /\ followUp \in [IndexRequests -> {"none", "asleep", "due", "purging"}]
    /\ console \in [open : BOOLEAN, act : Acts, ch : Channels, before : SUBSET Channels]
    /\ crossed \subseteq IndexRequests \cup {"console"}

\* What is archived was posted, and what is at work holds what was.
ArchiveTypes ==
    /\ posted \in [Channels -> Nat]
    /\ archived \in [Channels -> SUBSET Nat] /\ quoted \in [Channels -> SUBSET Nat]
    /\ cursorAt \in [Channels -> Nat]
    /\ writing \in [Jobs -> JobRows]
    /\ \A c \in Channels : /\ OldMsgs <= posted[c]
                           /\ archived[c] \cup quoted[c] \subseteq 1..posted[c]
                           /\ cursorAt[c] <= posted[c]
    /\ \A x \in live : x[1] \in Channels /\ x[2] \in 1..posted[x[1]]
    /\ \A w \in Jobs : writing[w].msgs \subseteq 1..posted[writing[w].ch]
    /\ \A w \in Jobs : writing[w].at = "cursor" => w = "page"

\* One command at a time has the lock, and what it has read is the list it
\* goes by, unless the console came between.
LockedBy(r) == request[r].at \in {"writing", "announcing", "reverting", "purging", "undoing"}

CommandsStand ==
    /\ \A q, r \in IndexRequests : LockedBy(q) /\ LockedBy(r) => q = r
    /\ ReadIsCurrent

\* Somebody is to purge the channel: a command that is at it or has been; or a
\* follow-up for which ingest has read the list.
Promised(c) ==
    \E r \in IndexRequests :
        request[r].ch = c /\ (request[r].at \in {"purging", "undoing"} \/ followUp[r] = "asleep")
Pending(c) == \E r \in IndexRequests : request[r].ch = c /\ followUp[r] \in {"due", "purging"}

\* Nothing of it is stored, and nobody has any of it in hand.
Clear(c) == ~AtWork(c) /\ archived[c] \cup quoted[c] = {}

\* A channel out of scope is forsaken, or a purge is promised, or ingest has
\* let go of it and what is left is nothing or is pending.
Followed(c) ==
    \/ c \in forsaken \cup scope
    \/ Promised(c)
    \/ c \notin there /\ (Clear(c) \/ Pending(c))

FollowUpsStand == \A c \in Channels : Followed(c)

\* A page reaches, without a gap, to the cursor it was read before.
PageStands ==
    LET page == writing["page"] IN
    /\ page.at # "idle" => page.msgs # {}
    /\ (page.at # "idle" /\ page.ch \notin overtaken) =>
          /\ \A m \in page.msgs, n \in Nat :
                m <= n /\ n <= OldMsgs /\ (cursorAt[page.ch] # NoCursor => n < cursorAt[page.ch])
                   => n \in page.msgs
          /\ page.at = "cursor" => page.msgs \subseteq archived[page.ch]

IndexingIInv ==
    ListTypes /\ ArchiveTypes /\ CommandsStand /\ FollowUpsStand /\ PageStands /\ CursorIsStored

LEMMA IdleRows == Idle \in JobRows /\ Idle.at = "idle" /\ Idle.msgs = {} /\ Idle.ch \in Channels
<1>1. (CHOOSE c \in Channels : TRUE) \in Channels
  BY IndexingAssumption
<1>2. QED
  BY <1>1 DEF Idle, JobRows

LEMMA IndexingIInvInit == IndexingInit => IndexingIInv
<1> SUFFICES ASSUME IndexingInit PROVE IndexingIInv
  OBVIOUS
<1> USE IdleRows, IndexingAssumption DEF IndexingInit, Jobs, NoCursor
<1>1. ListTypes
  BY DEF ListTypes, RequestRows, AtRest, Acts
<1>2. ArchiveTypes
  BY DEF ArchiveTypes
<1>3. CommandsStand
  BY DEF CommandsStand, LockedBy, ReadIsCurrent, HoldingList
<1>4. FollowUpsStand
  BY DEF FollowUpsStand, Followed, Clear, AtWork
<1>5. PageStands /\ CursorIsStored
  BY DEF PageStands, CursorIsStored
<1>6. QED
  BY <1>1, <1>2, <1>3, <1>4, <1>5 DEF IndexingIInv

\* What the archive is by itself, whoever purges it.
ArchiveStands == ArchiveTypes /\ PageStands /\ CursorIsStored

LEMMA ArchiveRests ==
    ASSUME ArchiveStands, UNCHANGED archiveVars
    PROVE  ArchiveStands'
BY DEF archiveVars, ArchiveStands, ArchiveTypes, PageStands, CursorIsStored

\* A purge takes the cursor with the rows; a page in flight is overtaken.
LEMMA PurgeKeepsArchive ==
    ASSUME ArchiveStands, NEW c \in Channels, Purge(c)
    PROVE  /\ ArchiveStands' /\ archived'[c] = {} /\ quoted'[c] = {}
           /\ \A d \in Channels : d # c => archived'[d] = archived[d] /\ quoted'[d] = quoted[d]
           /\ overtaken' \subseteq overtaken \cup {c} /\ UNCHANGED writing
<1> USE DEF ArchiveStands, ArchiveTypes
<1>1. /\ archived' = [archived EXCEPT ![c] = {}] /\ quoted' = [quoted EXCEPT ![c] = {}]
      /\ cursorAt' = [cursorAt EXCEPT ![c] = 0]
      /\ overtaken' = IF writing["page"].at # "idle" /\ writing["page"].ch = c
                      THEN overtaken \cup {c} ELSE overtaken \ {c}
      /\ UNCHANGED <<posted, live, writing>>
  BY DEF Purge, NoCursor
<1>2. /\ archived'[c] = {} /\ quoted'[c] = {} /\ cursorAt'[c] = 0
      /\ \A d \in Channels : d # c => /\ archived'[d] = archived[d] /\ quoted'[d] = quoted[d]
                                      /\ cursorAt'[d] = cursorAt[d]
      /\ archived' \in [Channels -> SUBSET Nat] /\ quoted' \in [Channels -> SUBSET Nat]
      /\ cursorAt' \in [Channels -> Nat]
  BY <1>1
<1>3. ArchiveTypes'
  BY <1>1, <1>2
<1>4. PageStands'
  <2>1. CASE writing["page"].ch = c
    BY <1>1, <2>1 DEF PageStands
  <2>2. CASE writing["page"].ch # c
    <3>1. writing["page"] \in JobRows
      BY DEF Jobs
    <3>2. /\ writing["page"].ch \in Channels
          /\ overtaken' = overtaken \ {c}
      BY <1>1, <2>2, <3>1 DEF JobRows
    <3>3. QED
      BY <1>1, <1>2, <2>2, <3>2 DEF PageStands
  <2>3. QED
    BY <2>1, <2>2
<1>5. CursorIsStored'
  BY <1>1, <1>2 DEF CursorIsStored, NoCursor
<1>6. QED
  BY <1>1, <1>2, <1>3, <1>4, <1>5

\* Finite sets of messages have an oldest one.
LEMMA OldestStands ==
    ASSUME NEW S \in SUBSET Nat, S # {}
    PROVE  Oldest(S) \in S /\ \A n \in S : Oldest(S) <= n
<1> DEFINE R == OpToRel(<, Nat)
<1>1. IsWellFoundedOn(R, Nat)
  BY NatLessThanWellFounded
<1>2. R = {p \in Nat \X Nat : p[1] < p[2]}
  BY DEF OpToRel
<1> HIDE DEF R
<1>3. PICK x \in S : \A y \in S : ~ (<<y, x>> \in R)
  BY <1>1, WFMin
<1>4. \A y \in S : ~ (y < x)
  BY <1>2, <1>3
<1>5. \A y \in S : x <= y
  BY <1>4
<1>6. QED
  BY <1>5 DEF Oldest

\* What is posted after a page's oldest message and before the cursor is on it.
LEMMA NextPageReaches ==
    ASSUME ArchiveTypes, NEW c \in Channels,
           NEW m \in NextPage(c), NEW n \in Nat, m <= n, n <= OldMsgs,
           cursorAt[c] # NoCursor => n < cursorAt[c]
    PROVE  n \in NextPage(c)
<1> DEFINE From(i) == {k \in i..posted[c] : cursorAt[c] # NoCursor => k < cursorAt[c]}
<1>1. posted[c] \in Nat /\ m \in 1..posted[c] /\ n \in 1..posted[c] /\ OldMsgs <= posted[c]
  BY IndexingAssumption DEF ArchiveTypes, NextPage
<1>2. From(n) \subseteq From(m) /\ From(m) \subseteq m..posted[c]
  BY <1>1
<1>3. IsFiniteSet(From(m))
  <2>1. IsFiniteSet(m..posted[c])
    BY <1>1, FS_Interval
  <2>2. QED
    BY <1>2, <2>1, FS_Subset
<1>4. Cardinality(From(n)) <= Cardinality(From(m)) /\ Cardinality(From(n)) \in Nat
      /\ Cardinality(From(m)) \in Nat
  BY <1>2, <1>3, FS_Subset, FS_CardinalityType
<1>5. Cardinality(From(m)) <= PageOf
  BY DEF NextPage
<1>6. Cardinality(From(n)) <= PageOf
  BY <1>4, <1>5, IndexingAssumption
<1>7. QED
  BY <1>1, <1>6 DEF NextPage

\* Ingest captures, imports and windows.
LEMMA PostingKeepsArchive ==
    ASSUME ArchiveStands, NEW c \in Channels, PostIn(c)
    PROVE  ArchiveStands'
<1> USE DEF ArchiveStands, ArchiveTypes
<1>1. /\ posted' = [posted EXCEPT ![c] = @ + 1]
      /\ live' \subseteq live \cup {<<c, posted'[c]>>}
      /\ UNCHANGED <<archived, quoted, cursorAt, writing, overtaken>>
  BY DEF PostIn
<1>2. /\ posted' \in [Channels -> Nat] /\ posted'[c] = posted[c] + 1
      /\ \A d \in Channels : posted'[d] >= posted[d]
  BY <1>1
<1>3. \A d \in Channels : 1..posted[d] \subseteq 1..posted'[d]
  BY <1>2
<1>4. \A w \in Jobs : writing[w].ch \in Channels
  BY DEF JobRows
<1>5. ArchiveTypes'
  <2>1. \A x \in live' : x[1] \in Channels /\ x[2] \in 1..posted'[x[1]]
    <3>1. ASSUME NEW x \in live PROVE x[1] \in Channels /\ x[2] \in 1..posted'[x[1]]
      BY <1>3
    <3>2. <<c, posted'[c]>>[1] = c /\ <<c, posted'[c]>>[2] \in 1..posted'[c]
      BY <1>2
    <3>3. QED
      BY <1>1, <3>1, <3>2
  <2>2. \A d \in Channels : /\ OldMsgs <= posted'[d]
                            /\ archived[d] \cup quoted[d] \subseteq 1..posted'[d]
                            /\ cursorAt[d] <= posted'[d]
    BY <1>2, <1>3, IndexingAssumption
  <2>3. \A w \in Jobs : writing[w].msgs \subseteq 1..posted'[writing[w].ch]
    BY <1>3, <1>4
  <2>4. QED
    BY <1>1, <1>2, <2>1, <2>2, <2>3
<1>6. PageStands' /\ CursorIsStored'
  BY <1>1 DEF PageStands, CursorIsStored
<1>7. QED
  BY <1>5, <1>6

LEMMA BeginningKeepsArchive ==
    ASSUME ArchiveStands, NEW w \in Jobs, NEW c \in Channels, NEW S \in SUBSET (1..posted[c]),
           Begins(w, c, S), live' \subseteq live,
           UNCHANGED <<posted, archived, quoted, cursorAt, overtaken>>,
           w = "page" => S = NextPage(c) /\ S # {}
    PROVE  ArchiveStands'
<1> USE DEF ArchiveStands, ArchiveTypes
<1>1. /\ writing'[w] = [at |-> "writing", ch |-> c, msgs |-> S]
      /\ \A v \in Jobs : v # w => writing'[v] = writing[v]
      /\ writing' = [v \in Jobs |-> writing'[v]]
  BY DEF Begins
<1>2. [at |-> "writing", ch |-> c, msgs |-> S] \in JobRows
  BY DEF JobRows
<1>3. writing' \in [Jobs -> JobRows]
  BY <1>1, <1>2
<1>4. ArchiveTypes'
  <2>1. \A v \in Jobs : writing'[v].msgs \subseteq 1..posted[writing'[v].ch]
    BY <1>1
  <2>2. \A v \in Jobs : writing'[v].at = "cursor" => v = "page"
    BY <1>1
  <2>3. \A x \in live' : x[1] \in Channels /\ x[2] \in 1..posted[x[1]]
    OBVIOUS
  <2>4. QED
    BY <1>3, <2>1, <2>2, <2>3
<1>5. PageStands'
  <2>1. CASE w = "page"
    <3>1. writing'["page"].ch = c /\ writing'["page"].msgs = NextPage(c)
          /\ writing'["page"].at = "writing"
      BY <1>1, <2>1
    <3>2. QED
      BY <2>1, <3>1, NextPageReaches DEF PageStands
  <2>2. CASE w # "page"
    BY <1>1, <2>2 DEF PageStands, Jobs
  <2>3. QED
    BY <2>1, <2>2
<1>6. CursorIsStored'
  BY DEF CursorIsStored
<1>7. QED
  BY <1>4, <1>5, <1>6

LEMMA UpsertKeepsArchive ==
    ASSUME ArchiveStands, NEW w \in Jobs, Upsert(w)
    PROVE  ArchiveStands'
<1> USE DEF ArchiveStands, ArchiveTypes
<1>0. PICK c \in Channels : c = writing[w].ch
  BY DEF JobRows
<1>1. PICK S \in SUBSET (1..posted[c]) : S = writing[w].msgs
  BY <1>0
<1>2. /\ w \in {"capture", "page"} /\ writing[w].at = "writing"
      /\ archived' = [archived EXCEPT ![c] = @ \cup S]
      /\ writing' = [writing EXCEPT ![w] = IF w = "page" THEN [@ EXCEPT !.at = "cursor"] ELSE Idle]
      /\ UNCHANGED <<posted, quoted, cursorAt, live, overtaken>>
  BY <1>0, <1>1 DEF Upsert
<1>3. /\ archived' \in [Channels -> SUBSET Nat] /\ archived'[c] = archived[c] \cup S
      /\ \A d \in Channels : d # c => archived'[d] = archived[d]
      /\ \A d \in Channels : archived[d] \subseteq archived'[d] /\ archived'[d] \subseteq 1..posted[d]
  <2>1. posted[c] \in Nat /\ S \subseteq Nat
    BY <1>1
  <2>2. QED
    BY <1>2, <2>1
<1>4. /\ writing' \in [Jobs -> JobRows] /\ \A v \in Jobs : v # w => writing'[v] = writing[v]
      /\ w = "page" => /\ writing'[w].ch = c /\ writing'[w].msgs = S
                       /\ writing'[w].at = "cursor"
      /\ w # "page" => writing'[w] = Idle
  <2>1. writing[w] \in JobRows
    OBVIOUS
  <2>2. [writing[w] EXCEPT !.at = "cursor"] \in JobRows
        /\ [writing[w] EXCEPT !.at = "cursor"].ch = c /\ [writing[w] EXCEPT !.at = "cursor"].msgs = S
        /\ [writing[w] EXCEPT !.at = "cursor"].at = "cursor"
    BY <1>0, <1>1, <2>1 DEF JobRows
  <2>3. /\ w = "page" => writing'[w] = [writing[w] EXCEPT !.at = "cursor"]
        /\ w # "page" => writing'[w] = Idle
        /\ \A v \in Jobs : v # w => writing'[v] = writing[v]
        /\ writing' = [v \in Jobs |-> writing'[v]]
    BY <1>2
  <2>4. writing' \in [Jobs -> JobRows]
    BY <2>2, <2>3, IdleRows
  <2>5. QED
    BY <2>2, <2>3, <2>4
<1>5. ArchiveTypes'
  <2>1. \A v \in Jobs : writing'[v].msgs \subseteq 1..posted[writing'[v].ch]
    BY <1>0, <1>1, <1>4, IdleRows
  <2>2. \A v \in Jobs : writing'[v].at = "cursor" => v = "page"
    BY <1>4, IdleRows
  <2>3. \A d \in Channels : archived'[d] \cup quoted[d] \subseteq 1..posted[d]
    BY <1>3
  <2>4. QED
    BY <1>2, <1>3, <1>4, <2>1, <2>2, <2>3
<1>6. PageStands'
  <2>1. CASE w = "page"
    BY <1>0, <1>1, <1>2, <1>3, <1>4, <2>1 DEF PageStands
  <2>2. CASE w # "page"
    <3>1. writing'["page"] = writing["page"] /\ writing["page"].ch \in Channels
      BY <1>4, <2>2 DEF Jobs, JobRows
    <3>2. archived[writing["page"].ch] \subseteq archived'[writing["page"].ch]
      BY <1>3, <3>1
    <3>3. UNCHANGED <<overtaken, cursorAt>>
      BY <1>2
    <3>4. QED
      BY ONLY PageStands, <3>1, <3>2, <3>3 DEF PageStands
  <2>3. QED
    BY <2>1, <2>2
<1>7. CursorIsStored'
  BY <1>2, <1>3 DEF CursorIsStored
<1>8. QED
  BY <1>5, <1>6, <1>7

\* The cursor moves to a page that is stored, and that reached to it.
LEMMA SetCursorKeepsArchive ==
    ASSUME ArchiveStands, SetCursor
    PROVE  ArchiveStands'
<1> USE DEF ArchiveStands, ArchiveTypes
<1>0. PICK c \in Channels : c = writing["page"].ch
  BY DEF JobRows, Jobs
<1>1. PICK S \in SUBSET (1..posted[c]) : S = writing["page"].msgs
  BY <1>0 DEF Jobs
<1>2. PICK m : m = Oldest(S)
  OBVIOUS
<1>3. /\ writing["page"].at = "cursor" /\ writing' = [writing EXCEPT !["page"] = Idle]
      /\ cursorAt' = [cursorAt EXCEPT ![c] = IF @ = 0 \/ m < @ THEN m ELSE @]
      /\ UNCHANGED <<posted, archived, quoted, live, overtaken>>
  BY <1>0, <1>1, <1>2 DEF SetCursor, NoCursor
<1>4. S # {} /\ S \subseteq Nat /\ m \in S /\ \A n \in S : m <= n
  <2>1. S # {}
    BY <1>1, <1>3 DEF PageStands
  <2>2. QED
    BY <1>1, <1>2, <2>1, OldestStands
<1>5. writing' \in [Jobs -> JobRows] /\ writing'["page"] = Idle
      /\ \A v \in Jobs : v # "page" => writing'[v] = writing[v]
  BY <1>3, IdleRows DEF Jobs
<1>6. /\ cursorAt' \in [Channels -> Nat]
      /\ cursorAt'[c] = IF cursorAt[c] = 0 \/ m < cursorAt[c] THEN m ELSE cursorAt[c]
      /\ \A d \in Channels : d # c => cursorAt'[d] = cursorAt[d]
  BY <1>3, <1>4
<1>7. ArchiveTypes'
  <2>1. m <= posted[c]
    BY <1>1, <1>4
  <2>2. \A d \in Channels : cursorAt'[d] <= posted[d]
    BY <1>6, <2>1
  <2>3. \A v \in Jobs : writing'[v].msgs \subseteq 1..posted[writing'[v].ch]
    BY <1>5, IdleRows
  <2>4. \A v \in Jobs : writing'[v].at = "cursor" => v = "page"
    BY <1>5, IdleRows
  <2>5. QED
    BY <1>3, <1>5, <1>6, <2>2, <2>3, <2>4
<1>8. PageStands'
  BY <1>5, IdleRows DEF PageStands
<1>9. CursorIsStored'
  <2>1. ASSUME NEW d \in Channels \ overtaken, cursorAt'[d] # 0,
               NEW n \in cursorAt'[d]..OldMsgs
        PROVE  n \in archived[d]
    <3>1. CASE d # c
      BY <1>6, <2>1, <3>1 DEF CursorIsStored, NoCursor
    <3>2. CASE d = c
      <4>1. S \subseteq archived[c]
            /\ (n \in Nat /\ m <= n /\ n <= OldMsgs /\ (cursorAt[c] # 0 => n < cursorAt[c]) => n \in S)
        BY <1>0, <1>1, <1>3, <1>4, <2>1, <3>2 DEF PageStands, NoCursor
      <4>2. cursorAt[c] \in Nat /\ m \in Nat /\ cursorAt'[c] \in Nat /\ OldMsgs \in Nat /\ n \in Nat
            /\ cursorAt'[c] <= n /\ n <= OldMsgs
        BY <1>4, <1>6, <2>1, <3>2, IndexingAssumption
      <4>3. CASE cursorAt[c] # 0 /\ n >= cursorAt[c]
        BY <2>1, <3>2, <4>2, <4>3 DEF CursorIsStored, NoCursor
      <4>4. CASE cursorAt[c] = 0 \/ n < cursorAt[c]
        BY <1>6, <3>2, <4>1, <4>2, <4>4
      <4>5. QED
        BY <4>2, <4>3, <4>4
    <3>3. QED
      BY <3>1, <3>2
  <2>2. QED
    BY <1>3, <2>1 DEF CursorIsStored, NoCursor
<1>10. QED
  BY <1>7, <1>8, <1>9

\* Windows quote what was archived; a restart drops what is in hand.
LEMMA WindowsKeepArchive ==
    ASSUME ArchiveStands, WriteWindows
    PROVE  ArchiveStands'
<1> USE DEF ArchiveStands, ArchiveTypes
<1>0. PICK c \in Channels : c = writing["window"].ch
  BY DEF JobRows, Jobs
<1>1. PICK S \in SUBSET (1..posted[c]) : S = writing["window"].msgs
  BY <1>0 DEF Jobs
<1>2. /\ quoted' = [quoted EXCEPT ![c] = @ \cup S]
      /\ writing' = [writing EXCEPT !["window"] = Idle]
      /\ UNCHANGED <<posted, archived, cursorAt, live, overtaken>>
  BY <1>0, <1>1 DEF WriteWindows
<1>3. writing' \in [Jobs -> JobRows] /\ writing'["window"] = Idle
      /\ \A v \in Jobs : v # "window" => writing'[v] = writing[v]
  BY <1>2, IdleRows DEF Jobs
<1>4. /\ quoted' \in [Channels -> SUBSET Nat]
      /\ \A d \in Channels : quoted'[d] \subseteq 1..posted[d]
  <2>1. S \subseteq Nat /\ S \subseteq 1..posted[c]
    BY <1>1
  <2>2. QED
    BY <1>2, <2>1
<1>5. ArchiveTypes'
  <2>1. \A v \in Jobs : writing'[v].msgs \subseteq 1..posted[writing'[v].ch]
    BY <1>3, IdleRows
  <2>2. \A v \in Jobs : writing'[v].at = "cursor" => v = "page"
    BY <1>3, IdleRows
  <2>3. \A d \in Channels : archived[d] \cup quoted'[d] \subseteq 1..posted[d]
    BY <1>4
  <2>4. QED
    BY <1>2, <1>3, <1>4, <2>1, <2>2, <2>3
<1>6. PageStands' /\ CursorIsStored'
  BY <1>2, <1>3 DEF PageStands, CursorIsStored, Jobs
<1>7. QED
  BY <1>5, <1>6

LEMMA StoppingKeepsArchive ==
    ASSUME ArchiveStands, IngestStops
    PROVE  ArchiveStands'
<1> USE DEF ArchiveStands, ArchiveTypes
<1>1. /\ live' = {} /\ writing' = [v \in Jobs |-> Idle]
      /\ UNCHANGED <<posted, archived, quoted, cursorAt, overtaken>>
  BY DEF IngestStops
<1>2. writing' \in [Jobs -> JobRows] /\ \A v \in Jobs : writing'[v] = Idle
  BY <1>1, IdleRows
<1>3. ArchiveTypes'
  BY <1>1, <1>2, IdleRows
<1>4. PageStands' /\ CursorIsStored'
  BY <1>1, <1>2, IdleRows DEF PageStands, CursorIsStored, Jobs
<1>5. QED
  BY <1>3, <1>4

LEMMA ArchiveStep ==
    ASSUME ArchiveStands, ListTypes, IndexingNext
    PROVE  ArchiveStands'
<1>1. ASSUME NEW r \in IndexRequests, Undo(r) \/ Withdraw(r) \/ PurgeAgain(r)
      PROVE  ArchiveStands'
  <2>1. request[r].ch \in Channels
    BY DEF ListTypes, RequestRows
  <2>2. Purge(request[r].ch) \/ UNCHANGED archiveVars
    BY <1>1 DEF Undo, Withdraw, PurgeAgain
  <2>3. QED
    BY <2>1, <2>2, PurgeKeepsArchive, ArchiveRests
<1>2. ASSUME NEW r \in IndexRequests,
             Ask(r) \/ ReadList(r) \/ WriteList(r) \/ Announce(r) \/ Revert(r) \/ WakeUp(r)
      PROVE  ArchiveStands'
  <2>1. UNCHANGED archiveVars
    BY <1>2 DEF Ask, ReadList, WriteList, Announce, Revert, WakeUp, Put
  <2>2. QED
    BY <2>1, ArchiveRests
<1>3. ASSUME NEW c \in Channels, OpenConsole(c) \/ StoreFromConsole \/ IngestRefresh \/ BotStops
      PROVE  ArchiveStands'
  <2>1. UNCHANGED archiveVars
    BY <1>3 DEF OpenConsole, StoreFromConsole, IngestRefresh, BotStops
  <2>2. QED
    BY <2>1, ArchiveRests
<1>4. CASE CaptureNext
  <2>1. PICK x \in live : /\ live' = live \ {x}
                          /\ Begins("capture", x[1], {x[2]}) \/ UNCHANGED writing
                          /\ UNCHANGED <<posted, archived, quoted, cursorAt, overtaken>>
    BY <1>4 DEF CaptureNext
  <2>2. x[1] \in Channels /\ {x[2]} \in SUBSET (1..posted[x[1]])
    BY DEF ArchiveStands, ArchiveTypes
  <2>3. CASE Begins("capture", x[1], {x[2]})
    <3>1. "capture" \in Jobs /\ "capture" # "page" /\ live' \subseteq live
      BY <2>1 DEF Jobs
    <3>2. QED
      BY <2>1, <2>2, <2>3, <3>1, BeginningKeepsArchive
  <2>4. CASE UNCHANGED writing
    <3>1. live' \subseteq live
      BY <2>1
    <3>2. QED
      BY <2>1, <2>4, <3>1 DEF ArchiveStands, ArchiveTypes, PageStands, CursorIsStored
  <2>5. QED
    BY <2>1, <2>3, <2>4
<1>5. ASSUME NEW c \in Channels, FetchPage(c) PROVE ArchiveStands'
  <2>1. NextPage(c) \in SUBSET (1..posted[c]) /\ "page" \in Jobs
    BY DEF NextPage, Jobs
  <2>2. /\ Begins("page", c, NextPage(c)) /\ NextPage(c) # {} /\ live' \subseteq live
        /\ UNCHANGED <<posted, archived, quoted, cursorAt, overtaken>>
    BY <1>5 DEF FetchPage
  <2>3. QED
    BY <2>1, <2>2, BeginningKeepsArchive
<1>6. ASSUME NEW c \in Channels, ReadForWindows(c) PROVE ArchiveStands'
  <2>1. archived[c] \in SUBSET (1..posted[c]) /\ "window" \in Jobs /\ "window" # "page"
    BY DEF ArchiveStands, ArchiveTypes, Jobs
  <2>2. /\ Begins("window", c, archived[c]) /\ live' \subseteq live
        /\ UNCHANGED <<posted, archived, quoted, cursorAt, overtaken>>
    BY <1>6 DEF ReadForWindows
  <2>3. QED
    BY <2>1, <2>2, BeginningKeepsArchive
<1>7. QED
  BY <1>1, <1>2, <1>3, <1>4, <1>5, <1>6, PostingKeepsArchive, UpsertKeepsArchive,
     SetCursorKeepsArchive, WindowsKeepArchive, StoppingKeepsArchive, IndexingAssumption
     DEF IndexingNext, CommandStep, FollowUpStep, ImportStep, IngestStep

\* A command's steps change its own row, and never what was asked.
LEMMA RequestMoves ==
    ASSUME ListTypes, NEW r \in IndexRequests
    PROVE  /\ \A at \in {"waiting", "announcing", "reverting", "undoing", "purging"} :
                 /\ Moves(r, at) \in [IndexRequests -> RequestRows]
                 /\ Moves(r, at)[r].at = at /\ Moves(r, at)[r].ch = request[r].ch
                 /\ Moves(r, at)[r].act = request[r].act
                 /\ Moves(r, at)[r].before = request[r].before
                 /\ \A q \in IndexRequests : q # r => Moves(r, at)[q] = request[q]
           /\ /\ Ends(r) \in [IndexRequests -> RequestRows]
              /\ Ends(r)[r].at = "done" /\ Ends(r)[r].ch = request[r].ch
              /\ \A q \in IndexRequests : q # r => Ends(r)[q] = request[q]
           /\ LET after == [request EXCEPT ![r] = Read(r)] IN
              /\ after \in [IndexRequests -> RequestRows]
              /\ after[r].at \in {"done", "purging", "writing"} /\ after[r].ch = request[r].ch
              /\ after[r].at = "writing" => after[r].before = scope
              /\ \A q \in IndexRequests : q # r => after[q] = request[q]
<1>1. PICK row \in RequestRows : row = request[r]
  BY DEF ListTypes
<1>2. ASSUME NEW at \in {"waiting", "announcing", "reverting", "undoing", "purging"}
      PROVE  /\ [row EXCEPT !.at = at] \in RequestRows
             /\ [row EXCEPT !.at = at].at = at /\ [row EXCEPT !.at = at].ch = row.ch
             /\ [row EXCEPT !.at = at].act = row.act
             /\ [row EXCEPT !.at = at].before = row.before
  BY DEF RequestRows
<1>3. /\ [row EXCEPT !.at = "done", !.before = {}] \in RequestRows
      /\ [row EXCEPT !.at = "done", !.before = {}].at = "done"
      /\ [row EXCEPT !.at = "done", !.before = {}].ch = row.ch
  BY DEF RequestRows
<1>4. scope \in SUBSET Channels
  BY DEF ListTypes
<1>5. /\ [row EXCEPT !.at = "writing", !.before = scope] \in RequestRows
      /\ [row EXCEPT !.at = "writing", !.before = scope].at = "writing"
      /\ [row EXCEPT !.at = "writing", !.before = scope].before = scope
      /\ [row EXCEPT !.at = "writing", !.before = scope].ch = row.ch
  BY <1>4 DEF RequestRows
<1>6. /\ Read(r) \in RequestRows /\ Read(r).ch = row.ch
      /\ Read(r).at \in {"done", "purging", "writing"}
      /\ Read(r).at = "writing" => Read(r).before = scope
  BY <1>1, <1>2, <1>3, <1>5 DEF Read, Ended
<1>7. \A e \in RequestRows : /\ [request EXCEPT ![r] = e] \in [IndexRequests -> RequestRows]
                             /\ [request EXCEPT ![r] = e][r] = e
                             /\ \A q \in IndexRequests : q # r => [request EXCEPT ![r] = e][q] = request[q]
  BY DEF ListTypes
<1>8. ASSUME NEW at \in {"waiting", "announcing", "reverting", "undoing", "purging"}
      PROVE  Moves(r, at) = [request EXCEPT ![r] = [row EXCEPT !.at = at]]
  BY <1>1 DEF Moves, ListTypes
<1>9. Ends(r) = [request EXCEPT ![r] = [row EXCEPT !.at = "done", !.before = {}]]
  BY <1>1 DEF Ends, Ended
<1>10. /\ Ends(r) \in [IndexRequests -> RequestRows]
       /\ Ends(r)[r].at = "done" /\ Ends(r)[r].ch = request[r].ch
       /\ \A q \in IndexRequests : q # r => Ends(r)[q] = request[q]
  BY <1>1, <1>3, <1>7, <1>9
<1>11. ASSUME NEW at \in {"waiting", "announcing", "reverting", "undoing", "purging"}
       PROVE  /\ Moves(r, at) \in [IndexRequests -> RequestRows]
              /\ Moves(r, at)[r].at = at /\ Moves(r, at)[r].ch = request[r].ch
              /\ Moves(r, at)[r].act = request[r].act
              /\ Moves(r, at)[r].before = request[r].before
              /\ \A q \in IndexRequests : q # r => Moves(r, at)[q] = request[q]
  <2>1. PICK e : e = [row EXCEPT !.at = at]
    OBVIOUS
  <2>2. /\ e \in RequestRows /\ e.at = at /\ e.ch = request[r].ch
        /\ e.act = request[r].act /\ e.before = request[r].before
    BY <1>1, <1>2, <1>11, <2>1
  <2>3. Moves(r, at) = [request EXCEPT ![r] = e]
    BY <1>8, <1>11, <2>1
  <2>4. QED
    BY <1>7, <2>2, <2>3
<1>12. QED
  BY <1>1, <1>6, <1>7, <1>10, <1>11

LEMMA ListTypesStep ==
    ASSUME ListTypes, IndexingNext
    PROVE  ListTypes'
<1> USE DEF ListTypes
<1>1. ASSUME NEW r \in IndexRequests, NEW list \in SUBSET Channels,
             NEW next \in {"announcing", "purging", "undoing"}, Put(r, list, next)
      PROVE  ListTypes'
  <2>1. request' = Moves(r, next) \/ request' = Ends(r)
    BY <1>1 DEF Put
  <2>2. request' \in [IndexRequests -> RequestRows]
    BY <2>1, RequestMoves
  <2>3. scope' \in {list, scope} /\ here' \in {list, scope, here}
        /\ (forsaken' = Dropped(list, {request[r].ch}) \/ forsaken' = forsaken)
        /\ crossed' \in {crossed, crossed \cup {"console"}}
        /\ UNCHANGED <<there, followUp, console, overtaken>>
    BY <1>1 DEF Put, archiveVars
  <2>4. Dropped(list, {request[r].ch}) \subseteq Channels
    BY DEF Dropped
  <2>5. QED
    BY <2>2, <2>3, <2>4
<1>2. ASSUME NEW r \in IndexRequests, Ask(r) \/ Announce(r) \/ ReadList(r)
      PROVE  ListTypes'
  <2>1. request' \in [IndexRequests -> RequestRows]
    <3>1. \/ request' = Moves(r, "waiting") \/ request' = Moves(r, "reverting")
          \/ request' = Ends(r) \/ request' = [request EXCEPT ![r] = Read(r)]
      BY <1>2 DEF Ask, Announce, ReadList
    <3>2. /\ Moves(r, "waiting") \in [IndexRequests -> RequestRows]
          /\ Moves(r, "reverting") \in [IndexRequests -> RequestRows]
          /\ Ends(r) \in [IndexRequests -> RequestRows]
          /\ [request EXCEPT ![r] = Read(r)] \in [IndexRequests -> RequestRows]
      BY RequestMoves
    <3>3. QED
      BY ONLY <3>1, <3>2
  <2>2. here' \in {here, scope}
        /\ UNCHANGED <<scope, there, followUp, console, forsaken, crossed, overtaken>>
    BY <1>2 DEF Ask, Announce, ReadList, archiveVars
  <2>3. QED
    BY <2>1, <2>2
<1>3. ASSUME NEW r \in IndexRequests, WriteList(r) \/ Revert(r) PROVE ListTypes'
  <2>1. Edited(request[r]) \subseteq Channels /\ request[r].before \subseteq Channels
    BY DEF Edited, RequestRows
  <2>2. QED
    BY <1>1, <1>3, <2>1 DEF WriteList, Revert
<1>4. ASSUME NEW r \in IndexRequests, Undo(r) \/ Withdraw(r) \/ PurgeAgain(r) \/ WakeUp(r)
      PROVE  ListTypes'
  <2>1. PICK c \in Channels : c = request[r].ch
    BY DEF RequestRows
  <2>2. request' \in [IndexRequests -> RequestRows]
    <3>1. request' \in {Ends(r), request}
      BY <1>4 DEF Undo, Withdraw, PurgeAgain, WakeUp
    <3>2. QED
      BY <3>1, RequestMoves
  <2>3. overtaken' \subseteq overtaken \cup {c}
    <3>1. Purge(c) \/ UNCHANGED archiveVars
      BY <1>4, <2>1 DEF Undo, Withdraw, PurgeAgain, WakeUp
    <3>2. QED
      BY <3>1 DEF Purge, archiveVars
  <2>4. followUp' \in [IndexRequests -> {"none", "asleep", "due", "purging"}]
    BY <1>4 DEF Undo, Withdraw, PurgeAgain, WakeUp, PurgesAgain
  <2>5. forsaken' \subseteq forsaken \cup {c} /\ here' \in {here, scope}
        /\ UNCHANGED <<scope, there, console, crossed>>
    BY <1>4, <2>1 DEF Undo, Withdraw, PurgeAgain, WakeUp, Unfollowed
  <2>6. QED
    BY <2>2, <2>3, <2>4, <2>5
<1>5. CASE BotStops
  <2>1. /\ followUp' = [r \in IndexRequests |-> "none"]
        /\ request' = [r \in IndexRequests |->
                         IF request[r].at = "unasked" THEN request[r] ELSE Ends(r)[r]]
    BY <1>5 DEF BotStops, Ends
  <2>2. request' \in [IndexRequests -> RequestRows]
    BY <2>1, RequestMoves
  <2>3. forsaken' \subseteq forsaken \cup {request[r].ch : r \in IndexRequests}
        /\ crossed' \subseteq crossed /\ here' = scope
        /\ UNCHANGED <<scope, there, console, overtaken>>
    BY <1>5 DEF BotStops, archiveVars
  <2>4. \A r \in IndexRequests : request[r].ch \in Channels
    BY DEF RequestRows
  <2>5. QED
    BY <2>1, <2>2, <2>3, <2>4
<1>6. ASSUME NEW c \in Channels, OpenConsole(c) PROVE ListTypes'
  BY <1>6 DEF OpenConsole, archiveVars, Acts
<1>7. CASE StoreFromConsole
  <2>1. Edited(console) \subseteq Channels
    BY DEF Edited
  <2>2. AtRest \in [open : BOOLEAN, act : Acts, ch : Channels, before : SUBSET Channels]
    BY IdleRows DEF AtRest, Acts
  <2>3. QED
    BY <1>7, <2>1, <2>2 DEF StoreFromConsole, archiveVars, Dropped, HoldingList
<1>8. CASE IngestRefresh
  BY <1>8 DEF IngestRefresh, archiveVars
<1>9. CASE IngestStep \/ IngestStops \/ \E c \in Channels : PostIn(c) \/ ImportStep(c)
  BY <1>9 DEF IngestStep, IngestStops, PostIn, ImportStep, CaptureNext, SetCursor, WriteWindows,
              Upsert, FetchPage, ReadForWindows, listVars
<1>10. QED
  BY <1>2, <1>3, <1>4, <1>5, <1>6, <1>7, <1>8, <1>9
     DEF IndexingNext, CommandStep, FollowUpStep

\* Commands wait for the lock, and only the console writes beside them.
LEMMA CommandsStep ==
    ASSUME ListTypes, CommandsStand, IndexingNext
    PROVE  CommandsStand'
<1> USE DEF CommandsStand, LockedBy
<1>1. ASSUME UNCHANGED <<scope, request, crossed>> PROVE CommandsStand'
  BY <1>1 DEF ReadIsCurrent, HoldingList, Edited
<1>2. ASSUME NEW r \in IndexRequests, request' = Ends(r), scope' = scope, crossed' = crossed
      PROVE  CommandsStand'
  <2>1. request'[r].at = "done" /\ \A q \in IndexRequests : q # r => request'[q] = request[q]
    BY <1>2, RequestMoves
  <2>2. \A q, s \in IndexRequests : LockedBy(q)' /\ LockedBy(s)' => q = s
    BY <2>1
  <2>3. HoldingList' \subseteq HoldingList \ {r}
    BY <2>1 DEF HoldingList
  <2>4. ReadIsCurrent'
    BY <1>2, <2>1, <2>3 DEF ReadIsCurrent, HoldingList, Edited
  <2>5. QED
    BY <2>2, <2>4
<1>3. ASSUME NEW r \in IndexRequests, Ask(r) PROVE CommandsStand'
  <2>1. request' = Moves(r, "waiting") /\ UNCHANGED <<scope, crossed>>
    BY <1>3 DEF Ask
  <2>2. request'[r].at = "waiting" /\ \A q \in IndexRequests : q # r => request'[q] = request[q]
    BY <2>1, RequestMoves
  <2>3. \A q, s \in IndexRequests : LockedBy(q)' /\ LockedBy(s)' => q = s
    BY <2>2
  <2>4. HoldingList' \subseteq HoldingList \ {r}
    BY <2>2 DEF HoldingList
  <2>5. ReadIsCurrent'
    BY <2>1, <2>2, <2>4 DEF ReadIsCurrent, HoldingList, Edited
  <2>6. QED
    BY <2>3, <2>5
<1>4. ASSUME NEW r \in IndexRequests, ReadList(r) PROVE CommandsStand'
  <2>1. UNCHANGED <<scope, crossed>>
        /\ (request' = [request EXCEPT ![r] = Read(r)] \/ request' = Ends(r))
    BY <1>4 DEF ReadList
  <2>2. CASE request' = [request EXCEPT ![r] = Read(r)]
    <3>1. /\ request'[r].at \in {"done", "purging", "writing"}
          /\ request'[r].at = "writing" => request'[r].before = scope
          /\ \A q \in IndexRequests : q # r => request'[q] = request[q]
      BY <2>2, RequestMoves
    <3>2. \A q \in IndexRequests : ~LockedBy(q)
      BY <1>4 DEF ReadList, Unlocked
    <3>3. \A q, s \in IndexRequests : LockedBy(q)' /\ LockedBy(s)' => q = s
      BY <3>1, <3>2
    <3>4. ReadIsCurrent'
      BY <2>1, <3>1, <3>2 DEF ReadIsCurrent, HoldingList
    <3>5. QED
      BY <3>3, <3>4
  <2>3. QED
    BY <1>2, <2>1, <2>2
<1>5. ASSUME NEW r \in IndexRequests, Announce(r) PROVE CommandsStand'
  <2>1. UNCHANGED <<scope, crossed>> /\ request[r].at = "announcing"
        /\ (request' = Moves(r, "reverting") \/ request' = Ends(r))
    BY <1>5 DEF Announce
  <2>2. CASE request' = Moves(r, "reverting")
    <3>1. /\ request'[r].at = "reverting" /\ request'[r].ch = request[r].ch
          /\ request'[r].act = request[r].act /\ request'[r].before = request[r].before
          /\ \A q \in IndexRequests : q # r => request'[q] = request[q]
      BY <2>2, RequestMoves
    <3>2. \A q, s \in IndexRequests : LockedBy(q)' /\ LockedBy(s)' => q = s
      BY <2>1, <3>1
    <3>3. ReadIsCurrent'
      BY <2>1, <3>1 DEF ReadIsCurrent, HoldingList, Edited
    <3>4. QED
      BY <3>2, <3>3
  <2>3. QED
    BY <1>2, <2>1, <2>2
<1>6. ASSUME NEW r \in IndexRequests, WriteList(r) \/ Revert(r) PROVE CommandsStand'
  <2>1. LockedBy(r) /\ r \in HoldingList
    BY <1>6 DEF WriteList, Revert, HoldingList
  <2>2. \A q \in IndexRequests : q # r => ~LockedBy(q)
    BY <2>1
  <2>3. \/ request' = Ends(r) /\ scope' = scope /\ crossed' = crossed
        \/ /\ request' = Moves(r, "announcing") /\ request[r].act = "index"
           /\ scope' = Edited(request[r])
        \/ request' = Moves(r, "purging") \/ request' = Moves(r, "undoing")
    BY <1>6 DEF WriteList, Revert, Put
  <2>4. CASE request' = Ends(r) /\ scope' = scope /\ crossed' = crossed
    BY <1>2, <2>4
  <2>5. CASE request' = Moves(r, "announcing") /\ scope' = Edited(request[r])
    <3>1. /\ request'[r].at = "announcing" /\ request'[r].ch = request[r].ch
          /\ request'[r].act = request[r].act /\ request'[r].before = request[r].before
          /\ \A q \in IndexRequests : q # r => request'[q] = request[q]
      BY <2>5, RequestMoves
    <3>2. HoldingList' = {r}
      BY <2>2, <3>1 DEF HoldingList
    <3>3. ReadIsCurrent'
      BY <2>5, <3>1, <3>2 DEF ReadIsCurrent, Edited
    <3>4. \A q, s \in IndexRequests : LockedBy(q)' /\ LockedBy(s)' => q = s
      BY <2>2, <3>1
    <3>5. QED
      BY <3>3, <3>4
  <2>6. CASE request' = Moves(r, "purging") \/ request' = Moves(r, "undoing")
    <3>1. /\ request'[r].at \in {"purging", "undoing"}
          /\ \A q \in IndexRequests : q # r => request'[q] = request[q]
      BY <2>6, RequestMoves
    <3>2. HoldingList' = {}
      BY <2>2, <3>1 DEF HoldingList
    <3>3. QED
      BY <2>2, <3>1, <3>2 DEF ReadIsCurrent
  <2>7. QED
    BY <2>3, <2>4, <2>5, <2>6
<1>7. ASSUME NEW r \in IndexRequests, Undo(r) \/ Withdraw(r) PROVE CommandsStand'
  BY <1>2, <1>7 DEF Undo, Withdraw
<1>8. ASSUME NEW r \in IndexRequests, WakeUp(r) \/ PurgeAgain(r) PROVE CommandsStand'
  BY <1>1, <1>8 DEF WakeUp, PurgeAgain
<1>9. CASE BotStops
  <2>1. \A q \in IndexRequests : request'[q].at \in {"unasked", "done"}
    <3>1. request' = [r \in IndexRequests |->
                        IF request[r].at = "unasked" THEN request[r] ELSE Ends(r)[r]]
      BY <1>9 DEF BotStops, Ends, ListTypes
    <3>2. QED
      BY <3>1, RequestMoves
  <2>2. QED
    BY <2>1 DEF ReadIsCurrent, HoldingList
<1>10. CASE StoreFromConsole
  BY <1>10 DEF StoreFromConsole, ReadIsCurrent, HoldingList
<1>11. CASE IngestRefresh \/ \E c \in Channels : OpenConsole(c)
  BY <1>1, <1>11 DEF IngestRefresh, OpenConsole
<1>12. CASE IngestStep \/ IngestStops \/ \E c \in Channels : PostIn(c) \/ ImportStep(c)
  BY <1>1, <1>12
     DEF IngestStep, IngestStops, PostIn, ImportStep, CaptureNext, SetCursor, WriteWindows,
         Upsert, FetchPage, ReadForWindows, listVars
<1>13. QED
  BY <1>3, <1>4, <1>5, <1>6, <1>7, <1>8, <1>9, <1>10, <1>11, <1>12
     DEF IndexingNext, CommandStep, FollowUpStep

\* What a step leaves to a channel that it is not about.
LEMMA PromisesKept ==
    ASSUME NEW r \in IndexRequests, NEW c \in Channels,
           \A q \in IndexRequests : q # r => request'[q] = request[q] /\ followUp'[q] = followUp[q],
           request'[r].ch = request[r].ch,
           request[r].ch = c => /\ request[r].at \notin {"purging", "undoing"}
                                /\ followUp'[r] = followUp[r]
    PROVE  (Promised(c) => Promised(c)') /\ (Pending(c) => Pending(c)')
<1>1. ASSUME Promised(c) PROVE Promised(c)'
  <2>1. PICK q \in IndexRequests : /\ request[q].ch = c
                                   /\ request[q].at \in {"purging", "undoing"} \/ followUp[q] = "asleep"
    BY <1>1 DEF Promised
  <2>2. /\ request'[q].ch = c
        /\ request'[q].at \in {"purging", "undoing"} \/ followUp'[q] = "asleep"
    BY <2>1
  <2>3. QED
    BY <2>2 DEF Promised
<1>2. ASSUME Pending(c) PROVE Pending(c)'
  <2>1. PICK q \in IndexRequests : request[q].ch = c /\ followUp[q] \in {"due", "purging"}
    BY <1>2 DEF Pending
  <2>2. request'[q].ch = c /\ followUp'[q] \in {"due", "purging"}
    BY <2>1
  <2>3. QED
    BY <2>2 DEF Pending
<1>3. QED
  BY <1>1, <1>2

\* Only a command that purges loses a promise, and then what is left is
\* nothing, or ingest's to add to, or nobody's.
LEMMA CommandsFollowUp ==
    ASSUME ListTypes, ArchiveStands, FollowUpsStand,
           NEW r \in IndexRequests, Ask(r) \/ CommandStep(r), NEW c \in Channels
    PROVE  Followed(c)'
<1>1. Followed(c) /\ UNCHANGED there /\ request[r].ch \in Channels
  BY DEF FollowUpsStand, ListTypes, RequestRows, Ask, CommandStep, ReadList, WriteList, Announce,
         Revert, Undo, Withdraw, Put
<1>2. /\ \A q \in IndexRequests : q # r => request'[q] = request[q]
      /\ request'[r].ch = request[r].ch
  <2>1. \/ request' = Moves(r, "waiting") \/ request' = Moves(r, "announcing")
        \/ request' = Moves(r, "reverting") \/ request' = Moves(r, "undoing")
        \/ request' = Moves(r, "purging")
        \/ request' = Ends(r) \/ request' = [request EXCEPT ![r] = Read(r)]
    BY DEF Ask, CommandStep, ReadList, WriteList, Announce, Revert, Undo, Withdraw, Put
  <2>2. QED
    BY <2>1, RequestMoves
<1>3. ASSUME UNCHANGED <<archived, quoted, writing>> PROVE Clear(c) => Clear(c)'
  BY <1>3 DEF Clear, AtWork
<1>4. CASE Ask(r) \/ ReadList(r) \/ Announce(r)
  <2>1. /\ request[r].at \in {"unasked", "waiting", "announcing"}
        /\ UNCHANGED <<scope, forsaken, followUp, archived, quoted, writing>>
    BY <1>4 DEF Ask, ReadList, Announce, archiveVars
  <2>2. QED
    BY <1>1, <1>2, <1>3, <2>1, PromisesKept DEF Followed
<1>5. CASE WriteList(r) \/ Revert(r)
  <2>1. /\ request[r].at \in {"writing", "reverting"}
        /\ UNCHANGED <<followUp, archived, quoted, writing>>
    BY <1>5 DEF WriteList, Revert, Put, archiveVars
  <2>2. (Promised(c) => Promised(c)') /\ (Pending(c) => Pending(c)')
    BY <1>2, <2>1, PromisesKept
  <2>3. \/ UNCHANGED <<scope, forsaken>>
        \/ /\ forsaken' = Dropped(scope', {request[r].ch})
           /\ \/ request[r].ch \in scope'
              \/ request' = Moves(r, "purging") \/ request' = Moves(r, "undoing")
    BY <1>5 DEF WriteList, Revert, Put, Edited
  <2>4. CASE UNCHANGED <<scope, forsaken>>
    BY <1>1, <1>3, <2>1, <2>2, <2>4 DEF Followed
  <2>5. CASE /\ forsaken' = Dropped(scope', {request[r].ch})
             /\ \/ request[r].ch \in scope'
                \/ request' = Moves(r, "purging") \/ request' = Moves(r, "undoing")
    <3>1. c = request[r].ch => c \in scope' \/ Promised(c)'
      <4>1. CASE request[r].ch \in scope'
        BY <4>1
      <4>2. CASE request' = Moves(r, "purging") \/ request' = Moves(r, "undoing")
        <5>1. request'[r].at \in {"purging", "undoing"}
          BY <4>2, RequestMoves
        <5>2. QED
          BY <1>2, <5>1 DEF Promised
      <4>3. QED
        BY <2>5, <4>1, <4>2
    <3>2. c \in (forsaken \cup scope) \ {request[r].ch} => c \in forsaken' \cup scope'
      BY <2>5 DEF Dropped
    <3>3. QED
      BY <1>1, <1>3, <2>1, <2>2, <3>1, <3>2 DEF Followed
  <2>6. QED
    BY <2>3, <2>4, <2>5
<1>6. CASE Undo(r) \/ Withdraw(r)
  <2>1. /\ scope' = scope /\ \A q \in IndexRequests : q # r => followUp'[q] = followUp[q]
    BY <1>6 DEF Undo, Withdraw, ListTypes
  <2>2. CASE c # request[r].ch
    <3>1. (Promised(c) => Promised(c)') /\ (Pending(c) => Pending(c)')
      BY <1>2, <2>1, <2>2, PromisesKept
    <3>2. c \in forsaken => c \in forsaken' \cup scope'
      BY <1>6, <2>2 DEF Undo, Withdraw, Unfollowed
    <3>3. /\ UNCHANGED writing
          /\ archived'[c] = archived[c] /\ quoted'[c] = quoted[c]
      <4>1. Purge(request[r].ch) \/ UNCHANGED archiveVars
        BY <1>6 DEF Undo, Withdraw
      <4>2. QED
        BY <1>1, <2>2, <4>1, PurgeKeepsArchive DEF archiveVars
    <3>4. Clear(c) => Clear(c)'
      BY <3>3 DEF Clear, AtWork
    <3>5. QED
      BY <1>1, <2>1, <3>1, <3>2, <3>4 DEF Followed
  <2>3. CASE c = request[r].ch /\ ~Purge(c)
    BY <1>6, <2>1, <2>3 DEF Undo, Withdraw, Followed
  <2>4. CASE c = request[r].ch /\ Purge(c) /\ Undo(r)
    <3>1. archived'[c] = {} /\ quoted'[c] = {} /\ UNCHANGED writing
      BY <2>4, PurgeKeepsArchive
    <3>2. \/ forsaken' = Unfollowed(c) \ scope
          \/ forsaken' = (forsaken \cup {c}) \ scope
      BY <2>4 DEF Undo
    <3>3. c \in forsaken' \cup scope' \/ (c \notin there' /\ ~AtWork(c))
      BY <1>1, <2>1, <3>2 DEF Unfollowed
    <3>4. AtWork(c)' = AtWork(c)
      BY <3>1 DEF AtWork
    <3>5. QED
      BY <3>1, <3>3, <3>4 DEF Followed, Clear
  <2>5. CASE c = request[r].ch /\ Purge(c) /\ Withdraw(r)
    <3>1. \/ followUp' = [followUp EXCEPT ![r] = "asleep"]
          \/ forsaken' = (forsaken \cup {c}) \ scope
      BY <2>5 DEF Withdraw, PurgesAgain
    <3>2. CASE followUp' = [followUp EXCEPT ![r] = "asleep"]
      <4>1. followUp'[r] = "asleep"
        BY <3>2 DEF ListTypes
      <4>2. QED
        BY <1>2, <2>5, <4>1 DEF Followed, Promised
    <3>3. CASE forsaken' = (forsaken \cup {c}) \ scope
      BY <2>1, <3>3 DEF Followed
    <3>4. QED
      BY <3>1, <3>2, <3>3
  <2>6. QED
    BY <1>6, <2>2, <2>3, <2>4, <2>5
<1>7. QED
  BY <1>4, <1>5, <1>6 DEF CommandStep

\* A follow-up purges what ingest has let go of, and leaves what it has not.
LEMMA FollowUpsFollowUp ==
    ASSUME ListTypes, ArchiveStands, FollowUpsStand,
           NEW r \in IndexRequests, FollowUpStep(r), NEW c \in Channels
    PROVE  Followed(c)'
<1>1. /\ Followed(c) /\ UNCHANGED <<there, scope, request>> /\ request[r].ch \in Channels
      /\ followUp[r] \in {"due", "purging"}
      /\ \A q \in IndexRequests : q # r => followUp'[q] = followUp[q]
  BY DEF FollowUpsStand, ListTypes, RequestRows, FollowUpStep, WakeUp, HasSlept, PurgeAgain
<1>2. Promised(c) => Promised(c)'
  BY <1>1 DEF Promised
<1>3. c # request[r].ch => (Pending(c) => Pending(c)')
  BY <1>1 DEF Pending
<1>4. CASE WakeUp(r)
  <2>1. UNCHANGED <<archived, quoted, writing>> /\ forsaken \subseteq forsaken'
        /\ \/ followUp'[r] = "purging"
           \/ followUp'[r] = "none" /\ request[r].ch \in forsaken' \cup scope
    BY <1>4 DEF WakeUp, archiveVars, ListTypes
  <2>2. Clear(c) => Clear(c)'
    BY <2>1 DEF Clear, AtWork
  <2>3. CASE c # request[r].ch
    BY <1>1, <1>2, <1>3, <2>1, <2>2, <2>3 DEF Followed
  <2>4. CASE c = request[r].ch /\ followUp'[r] = "purging"
    <3>1. Pending(c)'
      BY <1>1, <2>4 DEF Pending
    <3>2. QED
      BY <1>1, <1>2, <2>1, <3>1 DEF Followed
  <2>5. CASE c = request[r].ch /\ c \in forsaken' \cup scope
    BY <1>1, <2>5 DEF Followed
  <2>6. QED
    BY <2>1, <2>3, <2>4, <2>5
<1>5. CASE PurgeAgain(r)
  <2>1. CASE c # request[r].ch
    <3>1. c \in forsaken => c \in forsaken' \cup scope'
      BY <1>1, <1>5, <2>1 DEF PurgeAgain
    <3>2. UNCHANGED writing /\ archived'[c] = archived[c] /\ quoted'[c] = quoted[c]
      <4>1. Purge(request[r].ch) \/ UNCHANGED archiveVars
        BY <1>5 DEF PurgeAgain
      <4>2. QED
        BY <1>1, <2>1, <4>1, PurgeKeepsArchive DEF archiveVars
    <3>3. Clear(c) => Clear(c)'
      BY <3>2 DEF Clear, AtWork
    <3>4. QED
      BY <1>1, <1>2, <1>3, <2>1, <3>1, <3>3 DEF Followed
  <2>2. CASE c = request[r].ch /\ ~Purge(c)
    BY <1>1, <1>5, <2>2 DEF PurgeAgain, Followed
  <2>3. CASE c = request[r].ch /\ Purge(c)
    <3>1. archived'[c] = {} /\ quoted'[c] = {} /\ UNCHANGED writing
      BY <2>3, PurgeKeepsArchive
    <3>2. AtWork(c)' = AtWork(c)
      BY <3>1 DEF AtWork
    <3>3. \/ forsaken' = (forsaken \cup {c}) \ scope
          \/ ~AtWork(c) /\ forsaken' = (forsaken \ ({c} \ there)) \ scope
      BY <1>5, <2>3 DEF PurgeAgain
    <3>4. CASE forsaken' = (forsaken \cup {c}) \ scope
      BY <1>1, <3>4 DEF Followed
    <3>5. CASE ~AtWork(c) /\ forsaken' = (forsaken \ ({c} \ there)) \ scope
      <4>1. Clear(c)'
        BY <3>1, <3>2, <3>5 DEF Clear
      <4>2. c \in forsaken \cap there => c \in forsaken' \cup scope'
        BY <1>1, <3>5
      <4>3. QED
        BY <1>1, <1>2, <4>1, <4>2 DEF Followed
    <3>6. QED
      BY <3>3, <3>4, <3>5
  <2>4. QED
    BY <2>1, <2>2, <2>3
<1>6. QED
  BY <1>4, <1>5 DEF FollowUpStep

\* Ingest writes what it has in hand, and takes nothing new in hand of a
\* channel it has let go of but what is archived there.
LEMMA IngestFollowsUp ==
    ASSUME ListTypes, ArchiveStands, FollowUpsStand,
           IngestStep \/ \E d \in Channels : PostIn(d) \/ ImportStep(d),
           NEW c \in Channels
    PROVE  Followed(c)'
<1>1. Followed(c) /\ UNCHANGED <<scope, there, forsaken, request, followUp>>
  BY DEF FollowUpsStand, IngestStep, PostIn, ImportStep, CaptureNext, SetCursor, WriteWindows,
         Upsert, FetchPage, ReadForWindows, listVars
<1>2. (Promised(c) => Promised(c)') /\ (Pending(c) => Pending(c)')
  BY <1>1 DEF Promised, Pending
<1>3. ASSUME UNCHANGED <<archived, quoted>>, NEW w \in Jobs, NEW d \in Channels \ {c},
             NEW S, Begins(w, d, S)
      PROVE  Clear(c) => Clear(c)'
  <2>1. /\ writing'[w].ch = d
        /\ \A v \in Jobs : v # w => writing'[v] = writing[v]
    BY <1>3 DEF Begins, ArchiveStands, ArchiveTypes
  <2>2. QED
    BY <1>3, <2>1 DEF Clear, AtWork
<1>4. ASSUME NEW w \in Jobs, writing[w].at # "idle", writing'[w].ch = writing[w].ch \/ writing'[w] = Idle,
             \A v \in Jobs : v # w => writing'[v] = writing[v],
             \A d \in Channels : d # writing[w].ch => archived'[d] = archived[d] /\ quoted'[d] = quoted[d]
      PROVE  Clear(c) => Clear(c)'
  <2>1. ASSUME ~AtWork(c) PROVE ~AtWork(c)' /\ c # writing[w].ch
    BY <1>4, <2>1, IdleRows DEF AtWork
  <2>2. QED
    BY <1>4, <2>1 DEF Clear
<1>5. CASE \E d \in Channels : PostIn(d)
  <2>1. UNCHANGED <<archived, quoted, writing>>
    BY <1>5 DEF PostIn
  <2>2. Clear(c) => Clear(c)'
    BY <2>1 DEF Clear, AtWork
  <2>3. QED
    BY <1>1, <1>2, <2>2 DEF Followed
<1>6. CASE CaptureNext
  <2>1. PICK x \in live : /\ UNCHANGED writing \/ (x[1] \in there /\ Begins("capture", x[1], {x[2]}))
                          /\ UNCHANGED <<archived, quoted>>
    BY <1>6 DEF CaptureNext, StillIndexed
  <2>2. x[1] \in Channels /\ "capture" \in Jobs
    BY DEF ArchiveStands, ArchiveTypes, Jobs
  <2>3. c \notin there => (Clear(c) => Clear(c)')
    <3>1. CASE UNCHANGED writing
      BY <2>1, <3>1 DEF Clear, AtWork
    <3>2. CASE x[1] \in there /\ Begins("capture", x[1], {x[2]})
      BY <1>3, <2>1, <2>2, <3>2
    <3>3. QED
      BY <2>1, <3>1, <3>2
  <2>4. QED
    BY <1>1, <1>2, <2>3 DEF Followed
<1>7. ASSUME NEW d \in Channels, ImportStep(d) PROVE Followed(c)'
  <2>1. /\ UNCHANGED <<archived, quoted>>
        /\ \/ d \in there /\ Begins("page", d, NextPage(d))
           \/ archived[d] # {} /\ Begins("window", d, archived[d])
    BY <1>7 DEF ImportStep, FetchPage, ReadForWindows
  <2>2. c \notin there => (Clear(c) => Clear(c)')
    <3>1. CASE d # c
      BY <1>3, <2>1, <3>1 DEF Jobs
    <3>2. CASE d = c
      BY <2>1, <3>2 DEF Clear
    <3>3. QED
      BY <3>1, <3>2
  <2>3. QED
    BY <1>1, <1>2, <2>2 DEF Followed
<1>8. CASE SetCursor \/ WriteWindows \/ \E w \in Jobs : Upsert(w)
  <2>1. PICK w \in Jobs :
           /\ writing[w].at # "idle"
           /\ \/ writing' = [writing EXCEPT ![w] = Idle]
              \/ writing' = [writing EXCEPT ![w] = [writing[w] EXCEPT !.at = "cursor"]]
           /\ \/ UNCHANGED archived
              \/ archived' = [archived EXCEPT ![writing[w].ch] = @ \cup writing[w].msgs]
           /\ \/ UNCHANGED quoted
              \/ quoted' = [quoted EXCEPT ![writing[w].ch] = @ \cup writing[w].msgs]
    <3>1. CASE SetCursor
      BY <3>1 DEF SetCursor, Jobs
    <3>2. CASE WriteWindows
      BY <3>2 DEF WriteWindows, Jobs
    <3>3. ASSUME NEW w \in Jobs, Upsert(w)
          PROVE  /\ writing[w].at # "idle" /\ UNCHANGED quoted
                 /\ \/ writing' = [writing EXCEPT ![w] = Idle]
                    \/ writing' = [writing EXCEPT ![w] = [writing[w] EXCEPT !.at = "cursor"]]
                 /\ archived' = [archived EXCEPT ![writing[w].ch] = @ \cup writing[w].msgs]
      BY <3>3 DEF Upsert, ArchiveStands, ArchiveTypes
    <3>4. QED
      BY <1>8, <3>1, <3>2, <3>3
  <2>2. writing'[w].ch = writing[w].ch \/ writing'[w] = Idle
    <3>1. [writing[w] EXCEPT !.at = "cursor"].ch = writing[w].ch
      BY DEF ArchiveStands, ArchiveTypes, JobRows
    <3>2. writing'[w] = Idle \/ writing'[w] = [writing[w] EXCEPT !.at = "cursor"]
      BY <2>1 DEF ArchiveStands, ArchiveTypes
    <3>3. QED
      BY <3>1, <3>2
  <2>3. /\ \A v \in Jobs : v # w => writing'[v] = writing[v]
        /\ \A d \in Channels : d # writing[w].ch => archived'[d] = archived[d] /\ quoted'[d] = quoted[d]
    BY <2>1 DEF ArchiveStands, ArchiveTypes
  <2>4. QED
    BY <1>1, <1>2, <1>4, <2>1, <2>2, <2>3 DEF Followed
<1>9. QED
  BY <1>5, <1>6, <1>7, <1>8 DEF IngestStep

LEMMA FollowUpsStep ==
    ASSUME ListTypes, ArchiveStands, FollowUpsStand, IndexingNext
    PROVE  FollowUpsStand'
<1> SUFFICES ASSUME NEW c \in Channels PROVE Followed(c)'
  BY DEF FollowUpsStand
<1>1. Followed(c)
  BY DEF FollowUpsStand
<1>2. ASSUME UNCHANGED <<archived, quoted, writing>> PROVE Clear(c) => Clear(c)'
  BY <1>2 DEF Clear, AtWork
<1>3. CASE BotStops
  <2>1. UNCHANGED <<scope, there, archived, quoted, writing>>
        /\ forsaken' = (forsaken \cup {request[r].ch : r \in
             {q \in IndexRequests : followUp[q] # "none" \/ request[q].at \in {"purging", "undoing"}}})
                       \ scope
    BY <1>3 DEF BotStops, archiveVars
  <2>2. Promised(c) \/ Pending(c) => c \in forsaken' \cup scope'
    <3>1. ASSUME NEW r \in IndexRequests, request[r].ch = c,
                 followUp[r] # "none" \/ request[r].at \in {"purging", "undoing"}
          PROVE  c \in forsaken' \cup scope'
      BY <2>1, <3>1
    <3>2. QED
      BY <3>1 DEF Promised, Pending
  <2>3. c \in forsaken => c \in forsaken' \cup scope'
    BY <2>1
  <2>4. QED
    BY <1>1, <1>2, <2>1, <2>2, <2>3 DEF Followed
<1>4. CASE StoreFromConsole \/ \E d \in Channels : OpenConsole(d)
  <2>1. /\ UNCHANGED <<there, archived, quoted, writing, request, followUp>>
        /\ c \in scope \cup forsaken => c \in scope' \cup forsaken'
    BY <1>4 DEF StoreFromConsole, OpenConsole, Dropped, archiveVars
  <2>2. QED
    BY <1>1, <1>2, <2>1 DEF Followed, Promised, Pending
<1>5. CASE IngestRefresh
  <2>1. /\ UNCHANGED <<scope, request, archived, quoted, writing>> /\ there' \in {scope, there}
        /\ followUp' = [r \in IndexRequests |-> IF followUp[r] = "asleep" THEN "due" ELSE followUp[r]]
        /\ forsaken' = forsaken \cup
             {d \in there' \ scope : \E r \in IndexRequests : request[r].ch = d /\ followUp[r] = "asleep"}
    BY <1>5 DEF IngestRefresh, archiveVars
  <2>2. ASSUME NEW r \in IndexRequests, request[r].ch = c, followUp[r] = "asleep"
        PROVE  Followed(c)'
    <3>1. Pending(c)'
      BY <2>1, <2>2 DEF Pending
    <3>2. c \in there' => c \in forsaken' \cup scope'
      BY <2>1, <2>2
    <3>3. QED
      BY <3>1, <3>2 DEF Followed
  <2>3. ASSUME NEW r \in IndexRequests, request[r].ch = c, request[r].at \in {"purging", "undoing"}
        PROVE  Followed(c)'
    BY <2>1, <2>3 DEF Followed, Promised
  <2>4. Pending(c) => Pending(c)'
    BY <2>1 DEF Pending
  <2>5. QED
    BY <1>1, <1>2, <2>1, <2>2, <2>3, <2>4 DEF Followed, Promised
<1>6. CASE IngestStops
  <2>1. /\ UNCHANGED <<scope, forsaken, request, followUp, archived, quoted>> /\ there' = scope
        /\ writing' = [w \in Jobs |-> Idle]
    BY <1>6 DEF IngestStops, listVars
  <2>2. (Promised(c) => Promised(c)') /\ (Pending(c) => Pending(c)')
    BY <2>1 DEF Promised, Pending
  <2>3. ~AtWork(c)'
    BY <2>1, IdleRows DEF AtWork
  <2>4. QED
    BY <1>1, <2>1, <2>2, <2>3 DEF Followed, Clear
<1>7. QED
  BY <1>3, <1>4, <1>5, <1>6, CommandsFollowUp, FollowUpsFollowUp, IngestFollowsUp
     DEF IndexingNext

LEMMA IndexingInvariant == IndexingSpec => []IndexingIInv
<1>1. ASSUME IndexingIInv, IndexingNext PROVE IndexingIInv'
  BY <1>1, ArchiveStep, ListTypesStep, CommandsStep, FollowUpsStep DEF IndexingIInv, ArchiveStands
<1>2. ASSUME IndexingIInv, UNCHANGED indexingVars PROVE IndexingIInv'
  <2>1. UNCHANGED <<scope, here, request, followUp, console, crossed, forsaken, posted, archived,
                    quoted, cursorAt, live, writing, overtaken, there>>
    BY <1>2 DEF indexingVars, listVars, archiveVars
  <2>2. ListTypes' /\ ArchiveTypes'
    BY <1>2, <2>1 DEF IndexingIInv, ListTypes, ArchiveTypes
  <2>3. CommandsStand'
    BY <1>2, <2>1 DEF IndexingIInv, CommandsStand, LockedBy, ReadIsCurrent, HoldingList, Edited
  <2>4. FollowUpsStand'
    BY <1>2, <2>1
       DEF IndexingIInv, FollowUpsStand, Followed, Promised, Pending, Clear, AtWork
  <2>5. PageStands' /\ CursorIsStored'
    BY <1>2, <2>1 DEF IndexingIInv, PageStands, CursorIsStored
  <2>6. QED
    BY <2>2, <2>3, <2>4, <2>5 DEF IndexingIInv
<1>3. QED
  BY <1>1, <1>2, IndexingIInvInit, PTL DEF IndexingSpec

\* No command of the bot writes over what another one wrote; a channel that
\* was taken out of scope and purged is left empty once its follow-up is
\* through; and a cursor stands only before history that is stored
\* (IndexingService.handle, _follow_up; PURGE_CHANNEL).
THEOREM ArchiveRestsOnConsent == IndexingSpec => []IndexingInv
<1>1. IndexingIInv => IndexingTypeOK
  BY IndexingAssumption DEF IndexingIInv, ListTypes, ArchiveTypes, RequestRows, IndexingTypeOK
<1>2. IndexingIInv => WithdrawnIsGone
  <2> SUFFICES ASSUME IndexingIInv, NEW c \in Channels \ forsaken, AtPeace(c)
               PROVE  archived[c] \cup quoted[c] = {}
    BY DEF WithdrawnIsGone
  <2>1. ~Promised(c) /\ ~Pending(c) /\ c \notin scope \cup forsaken
    BY DEF AtPeace, Promised, Pending
  <2>2. QED
    BY <2>1 DEF IndexingIInv, FollowUpsStand, Followed, Clear
<1>3. IndexingIInv => IndexingInv
  BY <1>1, <1>2 DEF IndexingIInv, CommandsStand, IndexingInv
<1>4. QED
  BY <1>3, IndexingInvariant, PTL

-----------------------------------------------------------------------------
(* The archive of a channel *)

\* Of both together: deletions win, windows are a partition, and what is
\* stored rests on consent (what the theorems above say of each).
THEOREM ArchiveKeepsItsWord ==
    ArchiveSpec => /\ [](TypeOK /\ OneLiveWindow /\ NoResurrection /\ IndexingInv)
                   /\ NoDeadPublished /\ TombstonesStick
<1>1. ArchiveInit => Init /\ IndexingInit
  BY DEF ArchiveInit
<1>2. [ArchiveNext]_<<vars, indexingVars, turn>> => [Next]_vars /\ [IndexingNext]_indexingVars
  BY DEF ArchiveNext
<1>3. ArchiveSpec => Spec /\ IndexingSpec
  BY <1>1, <1>2, PTL DEF ArchiveSpec, Spec, IndexingSpec
<1>4. QED
  BY <1>3, TypeCorrect, WindowsArePartition, DeletionsWin, NoRebuildPublishesDead,
     WithdrawalIsFinal, ArchiveRestsOnConsent, PTL
=============================================================================
