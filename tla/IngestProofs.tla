---------------------------- MODULE IngestProofs ----------------------------
(***************************************************************************)
(* Proofs about the ingest process besides the corpus: that backfill       *)
(* leaves nothing behind its cursor and what a reconciliation can mistake  *)
(* for a deletion; that what is recorded as read was read; why a trace is  *)
(* deleted and what is remembered of it; what is found of a document that  *)
(* messages share; and all of them together.                               *)
(***************************************************************************)
EXTENDS MCIngest, FiniteSetTheorems, TLAPS

-----------------------------------------------------------------------------
(* Least and greatest elements.  Counting the numbers that no element of a  *)
(* set is below or at stands in for induction.                              *)

LEMMA LeastExists ==
    ASSUME NEW N \in Nat, NEW S, S \subseteq 1..N, S # {}
    PROVE  \E m \in S : \A n \in S : m <= n
<1> DEFINE Below == {k \in 0..N : \A n \in S : k < n}
           c == Cardinality(Below)
<1>0. /\ IsFiniteSet(0..N) /\ Below \in SUBSET (0..N)
  BY FS_Interval
<1>1. IsFiniteSet(Below) /\ c \in Nat
  BY <1>0, FS_Subset, FS_CardinalityType
<1>2. ASSUME NEW k \in Below PROVE k < c
  <2>1. 0..k \in SUBSET Below
    OBVIOUS
  <2>2. IsFiniteSet(0..k) /\ Cardinality(0..k) = k + 1
    BY FS_Interval
  <2>3. Cardinality(0..k) <= c
    BY <2>1, <1>1, FS_Subset
  <2> HIDE DEF Below
  <2>4. k \in Nat
    BY DEF Below
  <2> QED BY <2>2, <2>3, <2>4, <1>1
<1>3. Below = 0..(c - 1)
  <2>1. Below \in SUBSET (0..(c - 1))
    BY <1>1, <1>2
  <2>2. IsFiniteSet(0..(c - 1)) /\ Cardinality(0..(c - 1)) = c
    BY <1>1, FS_Interval, SMTT(30)
  <2> HIDE DEF Below
  <2> QED BY <2>1, <2>2, FS_Subset
<1>4. 0 \in Below /\ N \notin Below
  <2>1. PICK n \in S : n \in 1..N
    OBVIOUS
  <2>2. ~(N < n)
    BY <2>1
  <2>3. \A k \in S : 0 < k
    OBVIOUS
  <2> QED BY <2>1, <2>2, <2>3
<1>5. c \in 1..N
  <2>1. 0 \in 0..(c - 1) /\ N \notin 0..(c - 1)
    BY <1>3, <1>4
  <2> HIDE DEF c
  <2> QED BY <2>1, <1>1
<1>6. c - 1 \in Below /\ c \notin Below
  <2> HIDE DEF c, Below
  <2> QED BY <1>3, <1>5
<1> HIDE DEF c
<1>7. \A n \in S : c - 1 < n
  BY <1>6 DEF Below
<1>8. PICK m \in S : ~(c < m)
  BY <1>6, <1>5 DEF Below
<1>9. m = c /\ \A n \in S : c <= n
  BY <1>7, <1>8, <1>5
<1> QED BY <1>9

LEMMA GreatestExists ==
    ASSUME NEW N \in Nat, NEW S, S \subseteq 1..N, S # {}
    PROVE  \E m \in S : \A n \in S : n <= m
<1> DEFINE Mirrored == {k \in 1..N : N + 1 - k \in S}
<1>1. Mirrored \subseteq 1..N
  OBVIOUS
<1>2. Mirrored # {}
  <2>1. PICK n \in S : TRUE
    OBVIOUS
  <2>2. N + 1 - n \in 1..N /\ N + 1 - (N + 1 - n) = n
    OBVIOUS
  <2> QED BY <2>1, <2>2
<1>3. PICK k \in Mirrored : \A j \in Mirrored : k <= j
  <2> HIDE DEF Mirrored
  <2> QED BY <1>1, <1>2, LeastExists
<1>4. N + 1 - k \in S /\ k \in 1..N
  OBVIOUS
<1>5. ASSUME NEW n \in S PROVE n <= N + 1 - k
  <2>1. N + 1 - n \in 1..N /\ N + 1 - (N + 1 - n) = n
    OBVIOUS
  <2>2. N + 1 - n \in Mirrored
    BY <2>1
  <2>3. k <= N + 1 - n
    BY <2>2, <1>3
  <2> QED BY <2>1, <2>3, <1>4
<1> QED BY <1>4, <1>5

-----------------------------------------------------------------------------
(* History: what backfill relies on                                         *)

(* Messages are posted in order.                                            *)
NoGaps == \A m, n \in Msg : n < m /\ plat[m] # "unsent" => plat[n] # "unsent"

(* What was imported lies between two messages that were posted.            *)
CursorStands ==
    cursor # Null => top # Null /\ plat[cursor] # "unsent" /\ plat[top] # "unsent"

(* The page in hand is older than the cursor, and whatever is still in the  *)
(* history from its oldest message up to the cursor, or up to its newest    *)
(* message when there is no cursor, is in it; before the cursor moves it    *)
(* was written.                                                             *)
PageStands ==
    back.pc # "idle" =>
      /\ back.page # {}
      /\ \A m \in back.page : plat[m] # "unsent" /\ (cursor # Null => m < cursor)
      /\ \A m \in Ingestable :
           (/\ plat[m] = "live" /\ \E n \in back.page : n <= m
            /\ IF cursor = Null THEN \E n \in back.page : m <= n ELSE m < cursor)
             => m \in back.page
      /\ back.pc = "cursor" => \A m \in back.page : stored[m] # "none"

BackfillIInv ==
    /\ TypeOK /\ (recon.pc = "read" => recon.pages < MaxPages)
    /\ NoGaps /\ CursorStands /\ CursorCovers /\ PageStands

LEMMA HistoryNumbers ==
    /\ NumMsgs \in Nat /\ NumMsgs >= 1 /\ PageSize \in Nat /\ PageSize >= 1
    /\ MaxPages \in Nat /\ MaxPages >= 1 /\ MaxFaults \in Nat
    /\ Msg = 1..NumMsgs /\ Since \in Msg /\ Old \in Nat /\ Bots \subseteq Msg
    /\ Ingestable \subseteq Msg /\ Null = 0 /\ Null \notin Msg
BY HistoryAssumption DEF Msg, Ingestable, Null

(* The oldest and the newest message of a page are messages of it.          *)
LEMMA OldestIs ==
    ASSUME NEW S, S \subseteq Msg, S # {}
    PROVE  Oldest(S) \in S /\ \A n \in S : Oldest(S) <= n
<1>1. \E m \in S : \A n \in S : m <= n
  BY LeastExists, HistoryNumbers
<1> QED BY <1>1 DEF Oldest

LEMMA NewestIs ==
    ASSUME NEW S, S \subseteq Msg, S # {}
    PROVE  Newest(S) \in S /\ \A n \in S : n <= Newest(S)
<1>1. \E m \in S : \A n \in S : n <= m
  BY GreatestExists, HistoryNumbers
<1> QED BY <1>1 DEF Newest

(* A page is cut at one end only: with a message, it has every newer one    *)
(* before its bound.                                                        *)
LEMMA FetchHasTheNewer ==
    ASSUME NEW b, NEW n \in Fetch(b), NEW m \in Before(b), n <= m
    PROVE  m \in Fetch(b)
<1> DEFINE A == {k \in Before(b) : m < k}
           B == {k \in Before(b) : n < k}
<1>1. Before(b) \subseteq Msg /\ n \in Msg /\ m \in Msg
  BY DEF Before, Fetch
<1>2. IsFiniteSet(1..NumMsgs)
  BY HistoryNumbers, FS_Interval
<1>3. A \in SUBSET B /\ B \in SUBSET (1..NumMsgs)
  BY <1>1, HistoryNumbers
<1>4. IsFiniteSet(B) /\ IsFiniteSet(A)
  BY <1>2, <1>3, FS_Subset
<1>5. Cardinality(A) <= Cardinality(B)
  BY <1>3, <1>4, FS_Subset
<1>6. Cardinality(A) \in Nat /\ Cardinality(B) \in Nat
  BY <1>4, FS_CardinalityType
<1>7. Cardinality(B) < PageSize
  BY DEF Fetch
<1>8. Cardinality(A) < PageSize
  <2> HIDE DEF A, B
  <2> QED BY <1>5, <1>6, <1>7, HistoryNumbers
<1> QED BY <1>8 DEF Fetch

(* A page with room left has everything before its bound.                   *)
LEMMA ShortFetchIsAll ==
    ASSUME NEW b, Cardinality(Fetch(b)) < PageSize
    PROVE  Fetch(b) = Before(b)
<1> DEFINE Rest == Before(b) \ Fetch(b)
<1>1. SUFFICES ASSUME Rest # {} PROVE FALSE
  BY DEF Fetch
<1>2. Before(b) \subseteq Msg /\ Fetch(b) \subseteq Msg
  BY DEF Before, Fetch
<1>3. PICK m \in Rest : \A n \in Rest : n <= m
  <2>1. Rest \subseteq 1..NumMsgs
    BY <1>2, HistoryNumbers
  <2> HIDE DEF Rest
  <2> QED BY <1>1, <2>1, HistoryNumbers, GreatestExists
<1> DEFINE A == {k \in Before(b) : m < k}
<1>4. A \in SUBSET Fetch(b)
  <2>1. SUFFICES ASSUME NEW k \in Before(b), m < k, k \notin Fetch(b) PROVE FALSE
    OBVIOUS
  <2>2. k <= m
    BY <2>1, <1>3
  <2> QED BY <2>1, <2>2, <1>2, HistoryNumbers
<1>5. IsFiniteSet(Fetch(b))
  BY <1>2, HistoryNumbers, FS_Interval, FS_Subset
<1>6. Cardinality(A) <= Cardinality(Fetch(b)) /\ IsFiniteSet(A)
  BY <1>4, <1>5, FS_Subset
<1>7. Cardinality(A) \in Nat /\ Cardinality(Fetch(b)) \in Nat
  BY <1>5, <1>6, FS_CardinalityType
<1>8. Cardinality(A) < PageSize
  <2> HIDE DEF A
  <2> QED BY <1>6, <1>7, HistoryNumbers
<1> QED BY <1>8 DEF Fetch

LEMMA UpsertKeeps ==
    ASSUME stored \in [Msg -> {"none", "live", "dead"}], NEW S
    PROVE  /\ Upsert(S) \in [Msg -> {"none", "live", "dead"}]
           /\ \A m \in Msg : stored[m] # "none" => Upsert(S)[m] # "none"
           /\ \A m \in Msg \cap S : Upsert(S)[m] # "none"
           /\ \A m \in Msg : Upsert(S)[m] = "dead" => stored[m] = "dead"
BY DEF Upsert

LEMMA PageIs ==
    ASSUME NEW b
    PROVE  /\ Page(b) \subseteq Ingestable /\ Page(b) \subseteq Fetch(b)
           /\ \A m \in Page(b) : plat[m] = "live" /\ (b # Null => m < b)
BY DEF Page, Fetch, Before

LEMMA BackfillInit == ASSUME Init PROVE BackfillIInv
<1> USE HistoryNumbers
<1>1. TypeOK
  BY DEF Init, TypeOK, IdleBack, IdleRecon, Backfilling, Reconciling
<1>2. NoGaps
  BY DEF Init, NoGaps
<1> QED BY <1>1, <1>2 DEF BackfillIInv, Init, CursorStands, CursorCovers, PageStands, IdleBack, IdleRecon

(* What moves neither history nor the cursor, and keeps what is stored.     *)
LEMMA BackfillFramed ==
    ASSUME BackfillIInv, TypeOK', (recon.pc = "read" => recon.pages < MaxPages)',
           UNCHANGED <<plat, cursor, top>>, back' = back \/ back' = IdleBack,
           \A m \in Msg : stored[m] # "none" => stored'[m] # "none"
    PROVE  BackfillIInv'
<1> USE HistoryNumbers DEF BackfillIInv
<1>1. NoGaps' /\ CursorStands'
  BY DEF NoGaps, CursorStands
<1>2. CursorCovers'
  BY DEF CursorCovers
<1>3. PageStands'
  <2>1. CASE back' = IdleBack
    BY <2>1 DEF PageStands, IdleBack
  <2>2. CASE back' = back
    <3>1. back.page \subseteq Msg
      BY DEF TypeOK, Backfilling
    <3> QED BY <2>2, <3>1 DEF PageStands
  <2> QED BY <2>1, <2>2
<1> QED BY <1>1, <1>2, <1>3

(* One action after the other: those that touch none of what backfill        *)
(* relies on, ...                                                           *)
LEMMA BackfillUndisturbed ==
    ASSUME BackfillIInv,
           \/ \E m \in Msg : Capture(m) \/ HandleDelete(m)
           \/ ReconcileLoop \/ PassFails \/ Crash \/ Restart
    PROVE  BackfillIInv'
<1> USE HistoryNumbers
<1> TypeOK /\ recon \in Reconciling /\ stored \in [Msg -> {"none", "live", "dead"}]
  BY DEF BackfillIInv, TypeOK
<1>1. ASSUME NEW m \in Msg, Capture(m) PROVE BackfillIInv'
  <2>1. TypeOK'
    <3>1. queue' \subseteq Ingestable
      BY <1>1 DEF Capture, TypeOK
    <3>2. stored' \in [Msg -> {"none", "live", "dead"}] /\ faults' \in 0..MaxFaults
      BY <1>1, UpsertKeeps DEF Capture, TypeOK
    <3> QED BY <1>1, <3>1, <3>2 DEF Capture, TypeOK
  <2>2. \A k \in Msg : stored[k] # "none" => stored'[k] # "none"
    BY <1>1, UpsertKeeps DEF Capture
  <2> QED BY <1>1, <2>1, <2>2, BackfillFramed DEF Capture, BackfillIInv
<1>2. ASSUME NEW m \in Msg, HandleDelete(m) PROVE BackfillIInv'
  <2>1. TypeOK'
    BY <1>2 DEF HandleDelete, TypeOK
  <2>2. \A k \in Msg : stored[k] # "none" => stored'[k] # "none"
    BY <1>2 DEF HandleDelete
  <2> QED BY <1>2, <2>1, <2>2, BackfillFramed DEF HandleDelete, BackfillIInv
<1>3. ASSUME ReconcileStart PROVE BackfillIInv'
  <2>1. recon' \in Reconciling /\ recon'.pages = 0
    BY <1>3 DEF ReconcileStart, IdleRecon, Reconciling
  <2>2. TypeOK'
    BY <1>3, <2>1 DEF ReconcileStart, TypeOK
  <2> QED BY <1>3, <2>1, <2>2, BackfillFramed DEF ReconcileStart, BackfillIInv
<1>4. ASSUME ReconcilePage PROVE BackfillIInv'
  <2> DEFINE page == Page(recon.before)
  <2>1. page \subseteq Msg
    BY PageIs
  <2>2. ~LastPage(page) => Oldest(page) \in Msg /\ recon.pages + 1 < MaxPages
    <3>1. ~LastPage(page) => page # {} /\ recon.pages + 1 # MaxPages
      BY DEF LastPage
    <3>2. recon.pages < MaxPages /\ recon.pages \in Nat
      BY <1>4 DEF ReconcilePage, BackfillIInv, Reconciling
    <3> HIDE DEF page
    <3>3. page # {} => Oldest(page) \in Msg
      BY <2>1, OldestIs
    <3>4. recon.pages + 1 # MaxPages => recon.pages + 1 < MaxPages
      BY <3>2
    <3> QED BY <3>1, <3>3, <3>4
  <2>3. recon.pages + 1 \in 0..MaxPages
    BY <1>4 DEF ReconcilePage, BackfillIInv, Reconciling
  <2> HIDE DEF page
  <2>4. recon' = [recon EXCEPT
              !.pc = IF LastPage(page) THEN "ledger" ELSE "read",
              !.before = IF LastPage(page) THEN @ ELSE Oldest(page),
              !.pages = @ + 1,
              !.seen = @ \cup {m \in page : m >= Since}]
    BY <1>4 DEF ReconcilePage, page
  <2>5. recon' \in Reconciling /\ (recon'.pc = "read" => recon'.pages < MaxPages)
    <3>1. CASE LastPage(page)
      BY <2>1, <2>3, <2>4, <3>1 DEF Reconciling
    <3>2. CASE ~LastPage(page)
      BY <2>1, <2>2, <2>3, <2>4, <3>2 DEF Reconciling
    <3> QED BY <3>1, <3>2
  <2>6. TypeOK'
    BY <1>4, <2>5 DEF ReconcilePage, TypeOK
  <2> QED BY <1>4, <2>5, <2>6, BackfillFramed DEF ReconcilePage
<1>5. ASSUME ReconcileLedger PROVE BackfillIInv'
  <2>1. recon' \in Reconciling /\ recon'.pc = "repair"
    BY <1>5 DEF ReconcileLedger, Reconciling, Held
  <2>2. TypeOK'
    BY <1>5, <2>1 DEF ReconcileLedger, TypeOK
  <2> QED BY <1>5, <2>1, <2>2, BackfillFramed DEF ReconcileLedger
<1>6. ASSUME NEW m \in Msg, ReconcileEdit(m) PROVE BackfillIInv'
  <2>1. recon' \in Reconciling /\ recon'.pc = "repair"
    BY <1>6 DEF ReconcileEdit, Reconciling
  <2>2. TypeOK'
    BY <1>6, <2>1, UpsertKeeps DEF ReconcileEdit, TypeOK
  <2> QED BY <1>6, <2>1, <2>2, BackfillFramed, UpsertKeeps DEF ReconcileEdit
<1>7. ASSUME NEW m \in Msg, ReconcileDelete(m) PROVE BackfillIInv'
  <2>1. recon' \in Reconciling /\ recon'.pc = "repair"
    BY <1>7 DEF ReconcileDelete, Reconciling
  <2>2. TypeOK'
    BY <1>7, <2>1 DEF ReconcileDelete, TypeOK
  <2>3. \A k \in Msg : stored[k] # "none" => stored'[k] # "none"
    BY <1>7 DEF ReconcileDelete
  <2> QED BY <1>7, <2>1, <2>2, <2>3, BackfillFramed DEF ReconcileDelete
<1>8. ASSUME ReconcileEnd PROVE BackfillIInv'
  <2>1. recon' \in Reconciling /\ recon'.pc = "idle"
    BY <1>8 DEF ReconcileEnd, Reconciling, IdleRecon
  <2>2. TypeOK'
    BY <1>8, <2>1 DEF ReconcileEnd, TypeOK
  <2> QED BY <1>8, <2>1, <2>2, BackfillFramed DEF ReconcileEnd
<1>9. IdleRecon \in Reconciling /\ IdleRecon.pc = "idle" /\ IdleBack \in Backfilling
  BY DEF IdleRecon, Reconciling, IdleBack, Backfilling
<1>10. ASSUME PassFails PROVE BackfillIInv'
  <2>1. faults' \in 0..MaxFaults
    BY <1>10 DEF PassFails, TypeOK
  <2>2. TypeOK'
    BY <1>10, <1>9, <2>1 DEF PassFails, TypeOK
  <2>3. back' = back \/ back' = IdleBack
    BY <1>10 DEF PassFails
  <2>4. (recon.pc = "read" => recon.pages < MaxPages)'
    BY <1>10, <1>9 DEF PassFails, BackfillIInv
  <2> QED BY <1>10, <2>2, <2>3, <2>4, BackfillFramed DEF PassFails
<1>11. ASSUME Crash PROVE BackfillIInv'
  <2>1. faults' \in 0..MaxFaults
    BY <1>11 DEF Crash, TypeOK
  <2>2. TypeOK'
    BY <1>11, <1>9, <2>1 DEF Crash, TypeOK
  <2> QED BY <1>11, <1>9, <2>2, BackfillFramed DEF Crash
<1>12. ASSUME Restart PROVE BackfillIInv'
  <2>1. TypeOK'
    BY <1>12 DEF Restart, TypeOK
  <2> QED BY <1>12, <2>1, BackfillFramed DEF Restart, BackfillIInv
<1> QED BY <1>1, <1>2, <1>3, <1>4, <1>5, <1>6, <1>7, <1>8, <1>10, <1>11, <1>12 DEF ReconcileLoop

(* ... and those that do.                                                   *)
LEMMA BackfillDisturbed ==
    ASSUME BackfillIInv,
           People \/ BackfillLoop
    PROVE  BackfillIInv'
<1> USE HistoryNumbers
<1> TypeOK /\ NoGaps /\ CursorStands /\ CursorCovers /\ PageStands
  BY DEF BackfillIInv
<1>0. /\ plat \in [Msg -> {"unsent", "live", "deleted"}] /\ back \in Backfilling
      /\ stored \in [Msg -> {"none", "live", "dead"}] /\ back.page \subseteq Ingestable
      /\ cursor \in Msg \cup {Null} /\ top \in Msg \cup {Null}
  BY DEF TypeOK, Backfilling, Ingestable
<1>1. ASSUME NEW m \in Msg, Post(m) PROVE BackfillIInv'
  <2>0. /\ plat[m] = "unsent" /\ plat' = [plat EXCEPT ![m] = "live"]
        /\ \A n \in Msg : n < m => plat[n] # "unsent"
        /\ UNCHANGED <<up, delq, stored, cursor, top, back, recon, faults>>
    BY <1>1 DEF Post
  <2>1. TypeOK'
    <3>1. queue' \subseteq Ingestable
      BY <1>1 DEF Post, TypeOK
    <3> QED BY <2>0, <3>1, <1>0 DEF TypeOK
  <2>2. NoGaps'
    BY <2>0, <1>0 DEF NoGaps
  <2>3. CursorStands'
    BY <2>0, <1>0 DEF CursorStands
  <2>4. \A k \in Msg : plat[k] # "unsent" => k < m
    <3>1. SUFFICES ASSUME NEW k \in Msg, plat[k] # "unsent", ~(k < m) PROVE FALSE
      OBVIOUS
    <3>2. m < k
      BY <3>1, <2>0
    <3> QED BY <3>1, <3>2, <2>0 DEF NoGaps
  <2>5. CursorCovers'
    <3>1. cursor # Null => top < m
      BY <2>4, <1>0 DEF CursorStands
    <3> QED BY <3>1, <2>0, <1>0 DEF CursorCovers
  <2>6. PageStands'
    <3>1. back.pc # "idle" => \A n \in back.page : n < m
      BY <2>4, <1>0 DEF PageStands
    <3>2. CASE back.pc = "idle"
      BY <3>2, <2>0 DEF PageStands
    <3>3. CASE back.pc # "idle"
      <4>1. back.page # {}
        BY <3>3 DEF PageStands
      <4>2. \A k \in back.page : plat'[k] # "unsent" /\ (cursor # Null => k < cursor)
        BY <3>3, <2>0, <1>0 DEF PageStands
      <4>3. ASSUME NEW k \in Ingestable, plat'[k] = "live", \E n \in back.page : n <= k,
                   IF cursor = Null THEN \E n \in back.page : k <= n ELSE k < cursor
            PROVE  k \in back.page
        <5>1. k # m
          <6>1. CASE cursor = Null
            <7>1. PICK n \in back.page : k <= n
              BY <4>3, <6>1
            <7>2. n < m
              BY <7>1, <3>1, <3>3
            <7>3. n \in Msg /\ k \in Msg
              BY <7>1, <1>0
            <7> QED BY <7>1, <7>2, <7>3
          <6>2. CASE cursor # Null
            <7>1. cursor < m
              BY <6>2, <2>4, <1>0 DEF CursorStands
            <7> QED BY <7>1, <4>3, <6>2, <1>0
          <6> QED BY <6>1, <6>2
        <5>2. plat[k] = "live"
          BY <5>1, <4>3, <2>0, <1>0
        <5> QED BY <5>2, <4>3, <3>3 DEF PageStands
      <4>4. back.pc = "cursor" => \A k \in back.page : stored[k] # "none"
        BY DEF PageStands
      <4> QED BY <4>1, <4>2, <4>3, <4>4, <2>0 DEF PageStands
    <3> QED BY <3>2, <3>3
  <2> QED BY <2>0, <2>1, <2>2, <2>3, <2>5, <2>6 DEF BackfillIInv
<1>2. ASSUME NEW m \in Msg, Delete(m) PROVE BackfillIInv'
  <2>0. /\ m \in Deletable /\ plat[m] = "live" /\ plat' = [plat EXCEPT ![m] = "deleted"]
        /\ UNCHANGED <<up, queue, stored, cursor, top, back, recon, faults>>
    BY <1>2 DEF Delete
  <2>1. TypeOK'
    <3>1. delq' \subseteq Deletable
      BY <1>2 DEF Delete, TypeOK
    <3> QED BY <2>0, <3>1, <1>0 DEF TypeOK
  <2>2. \A k \in Msg : /\ plat'[k] = "live" => plat[k] = "live"
                       /\ plat'[k] = "unsent" <=> plat[k] = "unsent"
    BY <2>0, <1>0
  <2>3. NoGaps' /\ CursorStands' /\ CursorCovers'
    BY <2>0, <2>2, <1>0 DEF NoGaps, CursorStands, CursorCovers
  <2>4. PageStands'
    <3>1. \A k \in back.page : k \in Msg
      BY <1>0
    <3> QED BY <2>0, <2>2, <3>1 DEF PageStands
  <2> QED BY <2>0, <2>1, <2>3, <2>4 DEF BackfillIInv
<1>3. ASSUME BackfillFetch PROVE BackfillIInv'
  <2> DEFINE page == Page(cursor)
  <2>0. /\ page # {} /\ back' = [pc |-> "upsert", page |-> page]
        /\ UNCHANGED <<plat, up, queue, delq, stored, cursor, top, recon, faults>>
    BY <1>3 DEF BackfillFetch
  <2>1. /\ page \subseteq Ingestable
        /\ \A m \in page : plat[m] = "live" /\ (cursor # Null => m < cursor)
    BY PageIs
  <2>2. ASSUME NEW m \in Ingestable, plat[m] = "live", NEW n \in page, n <= m,
               cursor # Null => m < cursor
        PROVE  m \in page
    <3>1. m \in Before(cursor)
      BY <2>2 DEF Before
    <3>2. n \in Fetch(cursor)
      BY PageIs
    <3>3. m \in Fetch(cursor)
      BY <3>1, <3>2, <2>2, FetchHasTheNewer
    <3> QED BY <3>3 DEF Page
  <2> HIDE DEF page
  <2>3. TypeOK'
    <3>1. back' \in Backfilling
      BY <2>0, <2>1 DEF Backfilling, Ingestable
    <3> QED BY <2>0, <3>1 DEF TypeOK
  <2>4. NoGaps' /\ CursorStands' /\ CursorCovers'
    BY <2>0 DEF NoGaps, CursorStands, CursorCovers
  <2>5. PageStands'
    <3>1. \A m \in page : plat[m] # "unsent" /\ (cursor # Null => m < cursor)
      BY <2>1
    <3>2. \A m \in Ingestable :
             (/\ plat[m] = "live" /\ \E n \in page : n <= m
              /\ IF cursor = Null THEN \E n \in page : m <= n ELSE m < cursor)
               => m \in page
      BY <2>2
    <3> QED BY <2>0, <3>1, <3>2 DEF PageStands
  <2> QED BY <2>0, <2>3, <2>4, <2>5 DEF BackfillIInv
<1>4. ASSUME BackfillUpsert PROVE BackfillIInv'
  <2>0. /\ back.pc = "upsert" /\ stored' = Upsert(back.page)
        /\ back' = [back EXCEPT !.pc = "cursor"]
        /\ UNCHANGED <<plat, up, queue, delq, cursor, top, recon, faults>>
    BY <1>4 DEF BackfillUpsert
  <2>1. back' \in Backfilling /\ back'.pc = "cursor" /\ back'.page = back.page
    BY <2>0, <1>0 DEF Backfilling
  <2>2. /\ stored' \in [Msg -> {"none", "live", "dead"}]
        /\ \A m \in Msg : stored[m] # "none" => stored'[m] # "none"
        /\ \A m \in Msg \cap back.page : stored'[m] # "none"
    BY <2>0, <1>0, UpsertKeeps
  <2>3. TypeOK'
    BY <2>0, <2>1, <2>2 DEF TypeOK
  <2>4. NoGaps' /\ CursorStands' /\ CursorCovers'
    BY <2>0, <2>2 DEF NoGaps, CursorStands, CursorCovers
  <2>5. PageStands'
    <3>1. \A k \in back.page : k \in Msg
      BY <1>0
    <3> QED BY <2>0, <2>1, <2>2, <3>1 DEF PageStands
  <2> QED BY <2>0, <2>3, <2>4, <2>5 DEF BackfillIInv
<1>5. ASSUME BackfillCursor PROVE BackfillIInv'
  <2> DEFINE oldest == Oldest(back.page)
             newest == Newest(back.page)
  <2>0. /\ back.pc = "cursor" /\ back' = IdleBack
        /\ cursor' = IF cursor = Null \/ oldest < cursor THEN oldest ELSE cursor
        /\ top' = IF cursor = Null THEN newest ELSE top
        /\ UNCHANGED <<plat, up, queue, delq, stored, recon, faults>>
    BY <1>5 DEF BackfillCursor
  <2>1. back.page # {} /\ back.page \subseteq Msg
    BY <2>0, <1>0 DEF PageStands
  <2>2. /\ oldest \in back.page /\ \A n \in back.page : oldest <= n
        /\ newest \in back.page /\ \A n \in back.page : n <= newest
    BY <2>1, OldestIs, NewestIs
  <2> HIDE DEF oldest, newest
  <2>3. oldest \in Msg /\ newest \in Msg
    BY <2>1, <2>2
  <2>4. cursor # Null => oldest < cursor
    BY <2>0, <2>2 DEF PageStands
  <2>5. cursor' = oldest /\ (cursor # Null => top' = top) /\ (cursor = Null => top' = newest)
    BY <2>0, <2>4
  <2>6. TypeOK'
    BY <2>0, <2>3, <2>5, <1>0 DEF TypeOK, IdleBack, Backfilling
  <2>7. CursorStands'
    <3>1. plat[oldest] # "unsent" /\ plat[newest] # "unsent"
      BY <2>0, <2>2 DEF PageStands
    <3> QED BY <2>0, <2>3, <2>5, <3>1 DEF CursorStands
  <2>8. CursorCovers'
    <3>1. SUFFICES ASSUME NEW m \in Ingestable, oldest <= m, m <= top', plat[m] = "live"
                   PROVE  stored[m] # "none"
      BY <2>0, <2>5 DEF CursorCovers
    <3>2. m \in back.page => stored[m] # "none"
      BY <2>0 DEF PageStands
    <3>3. CASE cursor = Null
      <4>1. m <= newest
        BY <3>1, <3>3, <2>5
      <4>2. m \in back.page
        BY <3>1, <3>3, <4>1, <2>0, <2>2 DEF PageStands
      <4> QED BY <3>2, <4>2
    <3>4. CASE cursor # Null /\ m < cursor
      <4>1. m \in back.page
        BY <3>1, <3>4, <2>0, <2>2 DEF PageStands
      <4> QED BY <3>2, <4>1
    <3>5. CASE cursor # Null /\ ~(m < cursor)
      <4>1. m \in Msg /\ cursor \in Msg
        BY <3>5, <1>0
      <4>2. cursor <= m /\ m <= top
        BY <3>1, <3>5, <4>1, <2>5
      <4> QED BY <3>1, <3>5, <4>2 DEF CursorCovers
    <3> QED BY <3>3, <3>4, <3>5
  <2>9. NoGaps' /\ PageStands'
    BY <2>0 DEF NoGaps, PageStands, IdleBack
  <2> QED BY <2>0, <2>6, <2>7, <2>8, <2>9 DEF BackfillIInv
<1> QED BY <1>1, <1>2, <1>3, <1>4, <1>5 DEF People, BackfillLoop

LEMMA BackfillStep == ASSUME BackfillIInv, [Next]_vars PROVE BackfillIInv'
<1>1. CASE UNCHANGED vars
  <2>1. TypeOK' /\ (recon.pc = "read" => recon.pages < MaxPages)'
    BY <1>1 DEF BackfillIInv, TypeOK, vars
  <2> QED BY <1>1, <2>1, BackfillFramed DEF vars
<1>2. CASE Next
  BY <1>2, BackfillDisturbed, BackfillUndisturbed DEF Next, Live
<1> QED BY <1>1, <1>2

(* A page is stored before the cursor moves past it, so that wherever a     *)
(* backfill stops and whatever is posted, deleted and repaired beside it,   *)
(* no message still in the history is left behind the cursor unstored       *)
(* (backfill_page, LEAST in set_cursor).                                    *)
THEOREM BackfillLeavesNoGap == Spec => [](TypeOK /\ CursorCovers)
<1>1. BackfillIInv => TypeOK /\ CursorCovers
  BY DEF BackfillIInv
<1> QED BY <1>1, BackfillInit, BackfillStep, PTL DEF Spec

-----------------------------------------------------------------------------
(* History: what a reconciliation infers                                    *)

(* Whatever is in the history, within the lookback and not newer than       *)
(* everything a pass has seen, it has seen; while it reads, down to the     *)
(* message it reads on from.  Each full page takes it down by its size.     *)
SeenFrom(bound) ==
    \A m \in Msg :
      (/\ plat[m] = "live" /\ Since <= m /\ bound <= m
       /\ \E n \in recon.seen : m <= n)
        => m \in recon.seen

ReconStands ==
    /\ \A n \in recon.seen : plat[n] # "unsent"
    /\ \A m \in delq : plat[m] = "deleted"
    /\ recon.pc = "read" =>
         /\ recon.before = Null => recon.pages = 0 /\ recon.seen = {}
         /\ recon.before # Null => /\ plat[recon.before] # "unsent" /\ Since <= recon.before
                                   /\ recon.pages * PageSize <= NumMsgs + 1 - recon.before
         /\ SeenFrom(recon.before)
    /\ recon.pc \in {"ledger", "repair"} => SeenFrom(Since)
    /\ recon.pc = "repair" => \A m \in recon.gone : Since <= m /\ m \notin recon.seen

ReconcileIInv == BackfillIInv /\ ReconStands

(* No bot speaks within the lookback, and the pages a pass may read reach   *)
(* to the end of it (RECONCILE_MAX_PAGES).                                  *)
PagesReach ==
    /\ \A m \in Bots : m < Since
    /\ MaxPages * PageSize >= NumMsgs + 1 - Since

LEMMA ReconcileInit == ASSUME Init PROVE ReconcileIInv
<1>1. ReconStands
  BY DEF Init, ReconStands, IdleRecon
<1> QED BY <1>1, BackfillInit DEF ReconcileIInv

(* What neither posts nor moves a pass on.                                  *)
LEMMA ReconcileFramed ==
    ASSUME ReconcileIInv, BackfillIInv', plat' = plat, recon' = recon \/ recon' = IdleRecon,
           \A m \in delq' : m \in delq
    PROVE  ReconcileIInv'
<1>1. ReconStands
  BY DEF ReconcileIInv
<1>2. CASE recon' = IdleRecon
  BY <1>1, <1>2 DEF ReconStands, IdleRecon, ReconcileIInv
<1>3. CASE recon' = recon
  <2>1. SeenFrom(recon.before) <=> SeenFrom(recon.before)'
    BY <1>3 DEF SeenFrom
  <2>2. SeenFrom(Since) <=> SeenFrom(Since)'
    BY <1>3 DEF SeenFrom
  <2> QED BY <1>1, <1>3, <2>1, <2>2 DEF ReconStands, ReconcileIInv
<1> QED BY <1>2, <1>3

(* The messages of a page lie between the oldest of them and its bound.     *)
LEMMA PageSpans ==
    ASSUME NEW b \in Msg \cup {Null}, NEW bound \in Int,
           b = Null => bound = NumMsgs + 1, b # Null => bound = b, Page(b) # {}
    PROVE  Cardinality(Page(b)) <= bound - Oldest(Page(b))
<1> DEFINE page == Page(b)
           oldest == Oldest(page)
<1>1. page \subseteq Msg /\ \A m \in page : b # Null => m < b
  BY PageIs, HistoryNumbers
<1>2. oldest \in page /\ \A m \in page : oldest <= m
  BY <1>1, OldestIs
<1>3. oldest \in Int /\ oldest < bound
  BY <1>1, <1>2, HistoryNumbers
<1>4. page \in SUBSET (oldest .. bound - 1)
  <2>1. SUFFICES ASSUME NEW m \in page PROVE m \in oldest .. bound - 1
    OBVIOUS
  <2>2. m \in Msg /\ oldest <= m /\ (b # Null => m < b)
    BY <1>1, <1>2
  <2> HIDE DEF oldest
  <2> QED BY <2>2, <1>3, HistoryNumbers
<1> HIDE DEF oldest
<1>5. /\ IsFiniteSet(oldest .. bound - 1)
      /\ Cardinality(oldest .. bound - 1) = bound - oldest
  BY <1>3, FS_Interval
<1>6. Cardinality(page) <= Cardinality(oldest .. bound - 1)
  BY <1>4, <1>5, FS_Subset
<1> QED BY <1>5, <1>6 DEF oldest

LEMMA ReadPage ==
    ASSUME PagesReach, ReconcileIInv, ReconcilePage, BackfillIInv'
    PROVE  ReconStands'
<1> USE HistoryNumbers
<1> DEFINE before == recon.before
           F == Fetch(before)
           page == Page(before)
           within == {m \in page : Since <= m}
           bound == IF before = Null THEN NumMsgs + 1 ELSE before
<1>0. TypeOK /\ ReconStands /\ recon \in Reconciling /\ recon.pc = "read"
  BY DEF ReconcileIInv, BackfillIInv, TypeOK, ReconcilePage
<1>1. /\ before \in Msg \cup {Null} /\ recon.pages \in Nat /\ recon.seen \subseteq Msg
      /\ bound \in Int
  BY <1>0 DEF Reconciling
<1>2. /\ page \subseteq Msg
      /\ \A m \in page : m \in F /\ plat[m] = "live" /\ (before # Null => m < before)
  BY PageIs
<1>3. /\ recon'.seen = recon.seen \cup within
      /\ recon'.pc = IF LastPage(page) THEN "ledger" ELSE "read"
      /\ recon'.before = IF LastPage(page) THEN before ELSE Oldest(page)
      /\ recon'.pages = recon.pages + 1
      /\ UNCHANGED <<plat, delq>>
  <2>1. \A m \in page : m >= Since <=> Since <= m
    BY <1>2
  <2>2. {m \in page : m >= Since} = within
    BY <2>1
  <2>3. recon' = [recon EXCEPT
              !.pc = IF LastPage(page) THEN "ledger" ELSE "read",
              !.before = IF LastPage(page) THEN @ ELSE Oldest(page),
              !.pages = @ + 1,
              !.seen = @ \cup {m \in page : m >= Since}]
    BY DEF ReconcilePage
  <2> HIDE DEF page, within
  <2> QED BY <2>2, <2>3, <1>0 DEF Reconciling, ReconcilePage
<1>4. ASSUME NEW m \in Before(before), Since <= m, NEW n \in F, n <= m
      PROVE  m \in within
  <2>1. m \in F
    BY <1>4, FetchHasTheNewer
  <2>2. m \in Msg /\ m \notin Bots
    BY <1>4 DEF Before, PagesReach
  <2> QED BY <2>1, <2>2, <1>4 DEF Page, Ingestable
<1>5. page # {} => /\ Oldest(page) \in page /\ \A m \in page : Oldest(page) <= m
                   /\ Cardinality(page) <= bound - Oldest(page)
  BY <1>1, <1>2, OldestIs, PageSpans
<1>6. recon.pages * PageSize <= NumMsgs + 1 - bound
  <2>1. CASE before = Null
    <3>1. recon.pages = 0 /\ bound = NumMsgs + 1
      BY <2>1, <1>0 DEF ReconStands
    <3> QED BY <3>1
  <2>2. CASE before # Null
    BY <2>2, <1>0 DEF ReconStands
  <2> QED BY <2>1, <2>2
<1>7. Cardinality(page) \in Nat
  <2>1. page \in SUBSET (1..NumMsgs) /\ IsFiniteSet(1..NumMsgs)
    BY <1>2, FS_Interval
  <2> HIDE DEF page
  <2> QED BY <2>1, FS_Subset, FS_CardinalityType
<1>8. ~(Cardinality(page) < PageSize) /\ page # {} =>
        (recon.pages + 1) * PageSize <= NumMsgs + 1 - Oldest(page)
  <2>1. SUFFICES ASSUME ~(Cardinality(page) < PageSize), page # {}
                 PROVE  (recon.pages + 1) * PageSize <= NumMsgs + 1 - Oldest(page)
    OBVIOUS
  <2>2. (recon.pages + 1) * PageSize = recon.pages * PageSize + PageSize
    BY <1>1
  <2>3. Oldest(page) \in Int /\ Cardinality(page) <= bound - Oldest(page)
    BY <2>1, <1>2, <1>5
  <2>4. recon.pages * PageSize \in Int
    BY <1>1
  <2> HIDE DEF page, bound, before
  <2> QED BY <2>1, <2>2, <2>3, <2>4, <1>1, <1>6, <1>7, SMTT(30)
(* Of what is in the history beyond the bound, nothing is in the page.      *)
<1>9. ASSUME NEW m \in Msg, plat[m] = "live", Since <= m, NEW n \in recon.seen \cup within,
             m <= n, m \notin Before(before)
      PROVE  m \in recon.seen
  <2>1. before # Null /\ before <= m
    <3>1. ~(before # Null => m < before)
      BY <1>9 DEF Before
    <3> QED BY <3>1, <1>1
  <2>2. n \in recon.seen
    <3>1. SUFFICES ASSUME n \in page PROVE FALSE
      BY <1>9
    <3>2. n < before /\ n \in Msg /\ before \in Msg
      BY <3>1, <2>1, <1>1, <1>2
    <3> QED BY <3>2, <2>1, <1>9
  <2>3. SeenFrom(before)
    BY <1>0 DEF ReconStands
  <2> QED BY <1>9, <2>1, <2>2, <2>3 DEF SeenFrom
(* The last page reaches everything that is left of the lookback.           *)
<1>10. ASSUME LastPage(page), NEW m \in Before(before), Since <= m
       PROVE  m \in within
  <2>0. m \in Msg
    BY <1>10 DEF Before
  <2>1. CASE \E b \in F : b \notin page
    <3>1. PICK b \in F : b \notin page
      BY <2>1
    <3>2. b \in Bots /\ b \in Msg /\ b < Since
      BY <3>1 DEF Page, Ingestable, Fetch, Before, PagesReach
    <3>3. b <= m
      BY <3>2, <2>0, <1>10
    <3> QED BY <3>1, <3>3, <1>4, <1>10
  <2>2. CASE Cardinality(page) < PageSize /\ \A b \in F : b \in page
    <3>1. F = page
      BY <2>2, <1>2
    <3>2. m \in F
      BY <2>2, <3>1, ShortFetchIsAll
    <3> QED BY <3>1, <3>2, <1>10
  <2>3. CASE \E k \in page : k < Since
    <3>1. PICK k \in page : k < Since
      BY <2>3
    <3>2. k \in F /\ k <= m
      BY <3>1, <2>0, <1>2, <1>10
    <3> QED BY <3>2, <1>4, <1>10
  <2>4. CASE recon.pages + 1 = MaxPages /\ ~(Cardinality(page) < PageSize) /\ page # {}
    <3>1. MaxPages * PageSize <= NumMsgs + 1 - Oldest(page)
      BY <2>4, <1>8
    <3>2. Oldest(page) \in page /\ Oldest(page) \in Msg
      BY <2>4, <1>2, <1>5
    <3>3. MaxPages * PageSize \in Int /\ MaxPages * PageSize >= NumMsgs + 1 - Since
      BY DEF PagesReach
    <3>4. Oldest(page) <= Since
      <4> HIDE DEF page
      <4> QED BY <3>1, <3>2, <3>3
    <3>5. Oldest(page) <= m
      <4> HIDE DEF page
      <4> QED BY <3>2, <3>4, <2>0, <1>10
    <3> QED BY <3>2, <3>5, <1>2, <1>4, <1>10
  <2>5. page = {} => Cardinality(page) < PageSize
    BY FS_EmptySet
  <2> QED BY <2>1, <2>2, <2>3, <2>4, <2>5, <1>10 DEF LastPage
<1> HIDE DEF before, F, page, within, bound
<1>11. \A n \in recon'.seen : plat'[n] # "unsent"
  BY <1>0, <1>2, <1>3 DEF ReconStands, within
<1>12. \A m \in delq' : plat'[m] = "deleted"
  BY <1>0, <1>3 DEF ReconStands
<1>13. CASE LastPage(page)
  <2>1. SeenFrom(Since)'
    <3>1. SUFFICES ASSUME NEW m \in Msg, plat[m] = "live", Since <= m,
                          NEW n \in recon.seen \cup within, m <= n
                   PROVE  m \in recon.seen \cup within
      BY <1>3 DEF SeenFrom
    <3> QED BY <3>1, <1>9, <1>10, <1>13
  <2> QED BY <2>1, <1>3, <1>11, <1>12, <1>13 DEF ReconStands
<1>14. CASE ~LastPage(page)
  <2>1. /\ page # {} /\ ~(Cardinality(page) < PageSize)
        /\ ~ \E m \in page : m < Since
    BY <1>14 DEF LastPage
  <2>2. Oldest(page) \in page /\ Oldest(page) \in Msg /\ ~(Oldest(page) < Since)
    BY <2>1, <1>2, <1>5
  <2>3. plat[Oldest(page)] = "live" /\ Oldest(page) \in F /\ Since <= Oldest(page)
    BY <2>2, <1>2
  <2>4. (recon.pages + 1) * PageSize <= NumMsgs + 1 - Oldest(page)
    BY <2>1, <1>8
  <2>5. ASSUME NEW m \in Msg, plat[m] = "live", Since <= m, Oldest(page) <= m,
               NEW n \in recon.seen \cup within, m <= n
        PROVE  m \in recon.seen \cup within
    <3>1. m \in Before(before) => m \in within
      BY <2>5, <2>3, <1>4
    <3> QED BY <3>1, <2>5, <1>9
  <2>6. SeenFrom(recon.before)'
    BY <2>5, <1>3, <1>14 DEF SeenFrom
  <2> QED BY <2>2, <2>3, <2>4, <2>6, <1>3, <1>11, <1>12, <1>14 DEF ReconStands
<1> QED BY <1>13, <1>14

LEMMA ReconcileSteps ==
    ASSUME PagesReach, ReconcileIInv, BackfillIInv', [Next]_vars
    PROVE  ReconcileIInv'
<1> USE HistoryNumbers
<1>0. BackfillIInv /\ TypeOK /\ NoGaps /\ ReconStands /\ recon \in Reconciling
      /\ plat \in [Msg -> {"unsent", "live", "deleted"}] /\ delq \subseteq Msg
      /\ recon.seen \subseteq Msg /\ recon.before \in Msg \cup {Null}
  BY HistoryAssumption DEF ReconcileIInv, BackfillIInv, TypeOK, Reconciling
<1>1. ASSUME NEW m \in Msg, Post(m) PROVE ReconcileIInv'
  <2>0. /\ plat[m] = "unsent" /\ plat' = [plat EXCEPT ![m] = "live"]
        /\ UNCHANGED <<delq, recon>>
    BY <1>1 DEF Post
  <2>1. \A k \in Msg : plat[k] # "unsent" => k < m
    <3>1. SUFFICES ASSUME NEW k \in Msg, plat[k] # "unsent", ~(k < m) PROVE FALSE
      OBVIOUS
    <3>2. m < k
      BY <3>1, <2>0
    <3> QED BY <3>1, <3>2, <2>0, <1>0 DEF NoGaps
  <2>2. \A n \in recon.seen : n < m
    BY <2>1, <1>0 DEF ReconStands
  <2>3. ASSUME NEW b, SeenFrom(b) PROVE SeenFrom(b)'
    <3>1. SUFFICES ASSUME NEW k \in Msg, plat'[k] = "live", Since <= k, b <= k,
                          NEW n \in recon.seen, k <= n
                   PROVE  k \in recon.seen
      BY <2>0 DEF SeenFrom
    <3>2. n < m /\ n \in Msg
      BY <2>2, <1>0
    <3>3. k # m
      BY <3>1, <3>2
    <3> QED BY <3>1, <3>3, <2>0, <1>0, <2>3 DEF SeenFrom
  <2>4. SeenFrom(recon.before) => SeenFrom(recon.before)'
    <3>1. PICK b : b = recon.before
      OBVIOUS
    <3> QED BY <3>1, <2>3, <2>0 DEF SeenFrom
  <2>5. SeenFrom(Since) => SeenFrom(Since)'
    BY <2>3
  <2> QED BY <2>0, <2>4, <2>5, <1>0 DEF ReconcileIInv, ReconStands
<1>2. ASSUME NEW m \in Msg, Delete(m) PROVE ReconcileIInv'
  <2>0. /\ plat[m] = "live" /\ plat' = [plat EXCEPT ![m] = "deleted"] /\ recon' = recon
        /\ \A k \in delq' : k \in delq \/ k = m
    BY <1>2 DEF Delete
  <2>1. \A k \in Msg : /\ plat'[k] = "live" => plat[k] = "live"
                       /\ plat'[k] = "unsent" <=> plat[k] = "unsent"
    BY <2>0, <1>0
  <2>2. SeenFrom(recon.before) => SeenFrom(recon.before)'
    BY <2>0, <2>1 DEF SeenFrom
  <2>3. SeenFrom(Since) => SeenFrom(Since)'
    BY <2>0, <2>1 DEF SeenFrom
  <2>4. \A k \in delq' : plat'[k] = "deleted"
    BY <2>0, <1>0 DEF ReconStands
  <2> QED BY <2>0, <2>1, <2>2, <2>3, <2>4, <1>0 DEF ReconcileIInv, ReconStands
<1>3. ASSUME NEW m \in Msg, Capture(m) \/ HandleDelete(m) PROVE ReconcileIInv'
  <2>1. plat' = plat /\ recon' = recon /\ \A k \in delq' : k \in delq
    BY <1>3 DEF Capture, HandleDelete
  <2> QED BY <2>1, ReconcileFramed
<1>4. ASSUME BackfillLoop PROVE ReconcileIInv'
  <2>1. plat' = plat /\ recon' = recon /\ delq' = delq
    BY <1>4 DEF BackfillLoop, BackfillFetch, BackfillUpsert, BackfillCursor
  <2> QED BY <2>1, ReconcileFramed
<1>5. ASSUME ReconcileStart PROVE ReconcileIInv'
  <2>1. plat' = plat /\ delq' = delq /\ recon' = [IdleRecon EXCEPT !.pc = "read"]
    BY <1>5 DEF ReconcileStart
  <2>2. recon'.pc = "read" /\ recon'.before = Null /\ recon'.pages = 0 /\ recon'.seen = {}
    BY <2>1 DEF IdleRecon
  <2> QED BY <2>1, <2>2, <1>0 DEF ReconcileIInv, ReconStands, SeenFrom
<1>6. ASSUME ReconcilePage PROVE ReconcileIInv'
  BY <1>6, ReadPage DEF ReconcileIInv
<1>7. ASSUME ReconcileLedger PROVE ReconcileIInv'
  <2>1. /\ plat' = plat /\ delq' = delq /\ recon.pc = "ledger"
        /\ recon'.pc = "repair" /\ recon'.seen = recon.seen
        /\ recon'.gone = Held \ recon.seen
    BY <1>7, <1>0 DEF ReconcileLedger, Reconciling
  <2>2. \A m \in Held : Since <= m
    BY DEF Held
  <2>3. SeenFrom(Since) => SeenFrom(Since)'
    BY <2>1 DEF SeenFrom
  <2> QED BY <2>1, <2>2, <2>3, <1>0 DEF ReconcileIInv, ReconStands
<1>8. ASSUME NEW m \in Msg, ReconcileEdit(m) \/ ReconcileDelete(m) PROVE ReconcileIInv'
  <2>1. /\ plat' = plat /\ delq' = delq /\ recon.pc = "repair"
        /\ recon'.pc = "repair" /\ recon'.seen = recon.seen
        /\ recon'.gone \subseteq recon.gone
    BY <1>8, <1>0 DEF ReconcileEdit, ReconcileDelete, Reconciling
  <2>2. SeenFrom(Since) => SeenFrom(Since)'
    BY <2>1 DEF SeenFrom
  <2> QED BY <2>1, <2>2, <1>0 DEF ReconcileIInv, ReconStands
<1>9. ASSUME ReconcileEnd \/ PassFails \/ Crash \/ Restart PROVE ReconcileIInv'
  <2>1. /\ plat' = plat /\ (recon' = recon \/ recon' = IdleRecon)
        /\ \A k \in delq' : k \in delq
    BY <1>9 DEF ReconcileEnd, PassFails, Crash, Restart
  <2> QED BY <2>1, ReconcileFramed
<1>10. CASE UNCHANGED vars
  <2>1. plat' = plat /\ recon' = recon /\ delq' = delq
    BY <1>10 DEF vars
  <2> QED BY <2>1, ReconcileFramed
<1> QED BY <1>1, <1>2, <1>3, <1>4, <1>5, <1>6, <1>7, <1>8, <1>9, <1>10
        DEF Next, People, Live, ReconcileLoop

MissesOnlyTheNewest ==
    \A m \in Msg :
      (plat[m] = "live" /\ stored[m] # "dead" /\ stored'[m] = "dead")
        => \A n \in recon.seen : n < m

LEMMA MistakesAreNew ==
    ASSUME ReconcileIInv, [Next]_vars
    PROVE  [MissesOnlyTheNewest]_stored
<1> USE HistoryNumbers
<1>0. ReconStands /\ TypeOK /\ stored \in [Msg -> {"none", "live", "dead"}]
      /\ recon.seen \subseteq Msg
  BY DEF ReconcileIInv, BackfillIInv, TypeOK, Reconciling
<1>1. SUFFICES ASSUME NEW m \in Msg, plat[m] = "live", stored[m] # "dead", stored'[m] = "dead",
                      NEW n \in recon.seen
               PROVE  n < m
  BY DEF MissesOnlyTheNewest
<1>2. ASSUME NEW k \in Msg, HandleDelete(k) PROVE FALSE
  <2>1. k = m /\ k \in delq
    BY <1>1, <1>2, <1>0 DEF HandleDelete
  <2> QED BY <2>1, <1>0, <1>1 DEF ReconStands
<1>3. ASSUME NEW k \in Msg, ReconcileDelete(k) PROVE n < m
  <2>1. k = m /\ m \in recon.gone /\ recon.pc = "repair"
    BY <1>1, <1>3, <1>0 DEF ReconcileDelete
  <2>2. m \notin recon.seen /\ Since <= m /\ SeenFrom(Since)
    BY <2>1, <1>0 DEF ReconStands
  <2>3. ~(m <= n)
    BY <2>2, <1>1 DEF SeenFrom
  <2>4. n \in Msg
    BY <1>0
  <2> QED BY <2>3, <2>4
<1>4. ASSUME NEW S, stored' = Upsert(S) PROVE FALSE
  BY <1>1, <1>4, <1>0, UpsertKeeps
<1>5. stored' # stored
  BY <1>1
<1>6. ASSUME NEW k \in Msg, Capture(k) \/ ReconcileEdit(k) PROVE FALSE
  BY <1>4, <1>5, <1>6 DEF Capture, ReconcileEdit
<1>7. ASSUME BackfillLoop PROVE FALSE
  BY <1>4, <1>5, <1>7 DEF BackfillLoop, BackfillFetch, BackfillUpsert, BackfillCursor
<1>8. ASSUME NEW k \in Msg, Post(k) \/ Delete(k) PROVE FALSE
  BY <1>5, <1>8 DEF Post, Delete
<1>9. ASSUME \/ ReconcileStart \/ ReconcilePage \/ ReconcileLedger \/ ReconcileEnd
             \/ PassFails \/ Crash \/ Restart
      PROVE FALSE
  BY <1>5, <1>9 DEF ReconcileStart, ReconcilePage, ReconcileLedger, ReconcileEnd,
                    PassFails, Crash, Restart
<1>10. ASSUME UNCHANGED vars PROVE FALSE
  BY <1>5, <1>10 DEF vars
<1> QED BY <1>2, <1>3, <1>6, <1>7, <1>8, <1>9, <1>10 DEF Next, People, Live, ReconcileLoop

(* When no bot speaks within the lookback and the pages reach to the end of *)
(* it, a reconciliation withdraws a message that is still there only when   *)
(* it is newer than everything the pass has read: posted behind its back    *)
(* (_read_since and reconcile in adapters/discord/source.py).               *)
THEOREM OnlyTheNewestIsMissed ==
    ASSUME PagesReach
    PROVE  Spec => MissedOnlyIfNewer
<1>1. Init => ReconcileIInv
  BY ReconcileInit
<1>2. ReconcileIInv /\ [Next]_vars => ReconcileIInv'
  <2>1. SUFFICES ASSUME ReconcileIInv, [Next]_vars PROVE ReconcileIInv'
    OBVIOUS
  <2>2. BackfillIInv'
    BY <2>1, BackfillStep DEF ReconcileIInv
  <2> QED BY <2>1, <2>2, PagesReach, ReconcileSteps
<1>3. ReconcileIInv /\ [Next]_vars => [MissesOnlyTheNewest]_stored
  BY MistakesAreNew
<1> QED BY <1>1, <1>2, <1>3, PTL DEF Spec, MissedOnlyIfNewer, MissesOnlyTheNewest

-----------------------------------------------------------------------------
(* Traces                                                                   *)

TraceTypes ==
    /\ run \in [TraceIds -> [at : {"none", "answered", "checked", "accepted", "recording", "over"},
                             quotes : SUBSET Quotable, born : {"live", "marked"}]]
    /\ kept \in [TraceIds -> {"none", "held", "deleting", "gone"}]
    /\ row \in [TraceIds -> [st : {"none", "live", "marked", "confirmed"},
                             asker : BOOLEAN, quotes : SUBSET Quotable]]
    /\ inCorpus \subseteq Quotable /\ untold \subseteq Quotable
    /\ out \in [Persons -> {"in", "excluded", "withdrawn", "purged"}]
    /\ outs \in Nat /\ search \in [Persons -> 0..outs]
    /\ drain \in [at : {"idle", "search", "found"}, askers : SUBSET Persons, of : SUBSET Persons,
                  found : SUBSET TraceIds, started : Nat]
    /\ flush \in [Flushers -> [at : {"idle", "delete", "confirm"}, ids : SUBSET TraceIds]]

(* Why a trace may go.                                                      *)
Caused(t) ==
    \/ AskerOf[t] \in wasOut \/ t \in old
    \/ \E m \in run[t].quotes : m \notin inCorpus \/ AuthorOf[m] \in wasOut

(* What is deleted was marked, and what is marked, or is recorded as to be, *)
(* has its cause by then.                                                   *)
TraceStands(t) ==
    /\ row[t].st \in {"marked", "confirmed"} \/ kept[t] \in {"deleting", "gone"} => Caused(t)
    /\ run[t].at = "recording" /\ run[t].born = "marked" => AskerOf[t] \in wasOut
    /\ row[t].quotes \subseteq run[t].quotes
    /\ run[t].at = "none" => run[t].quotes = {}
    /\ run[t].at \in {"none", "answered", "checked"} => kept[t] = "none"
    /\ run[t].at \in {"accepted", "recording"} => kept[t] # "none"
    /\ row[t].st # "none" => kept[t] # "none"
    /\ row[t].st = "confirmed" => ~row[t].asker /\ (row[t].quotes = {} \/ t \in missed)

(* Who is out or searched for has been out; what a pass or a sweep found,   *)
(* or a batch holds, has its cause.                                         *)
PeopleStand ==
    /\ \A p \in Persons : out[p] # "in" \/ search[p] # 0 => p \in wasOut
    /\ \A m \in untold : m \notin inCorpus

PassesStand ==
    /\ \A p \in drain.askers : p \in wasOut
    /\ \A t \in drain.found : AskerOf[t] \in wasOut /\ kept[t] # "none"
    /\ listed # Unlisted => \A t \in listed : t \in TraceIds \cap old /\ kept[t] # "none"
    /\ \A f \in Flushers : \A t \in flush[f].ids : row[t].st \in {"marked", "confirmed"}

TracesIInv ==
    /\ TraceTypes /\ (\A t \in TraceIds : TraceStands(t))
    /\ PeopleStand /\ PassesStand

(* Causes never lapse: nobody has not been out again, nothing grows young,  *)
(* and no message comes back.                                               *)
CausesStay ==
    /\ \A p \in wasOut : p \in wasOut'
    /\ \A t \in old : t \in old'
    /\ \A m \in inCorpus' : m \in inCorpus
    /\ \A t \in missed : t \in missed'

LEMMA TraceUntouched ==
    ASSUME CausesStay, NEW t, TraceStands(t),
           run'[t] = run[t], kept'[t] = kept[t], row'[t] = row[t]
    PROVE  TraceStands(t)'
<1>1. Caused(t) => Caused(t)'
  BY DEF Caused, CausesStay
<1> QED BY <1>1 DEF TraceStands, CausesStay

(* Marking, and recording what was found, change a row's status for a cause *)
(* and leave a confirmed row alone.                                         *)
LEMMA MarkedRows ==
    ASSUME TraceTypes, NEW S
    PROVE  /\ Marked(S) \in [TraceIds -> [st : {"none", "live", "marked", "confirmed"},
                                          asker : BOOLEAN, quotes : SUBSET Quotable]]
           /\ \A t \in TraceIds :
                /\ t \in S /\ row[t].st = "live" =>
                     /\ Marked(S)[t].st = "marked" /\ Marked(S)[t].asker = row[t].asker
                     /\ Marked(S)[t].quotes = row[t].quotes
                /\ ~(t \in S /\ row[t].st = "live") => Marked(S)[t] = row[t]
<1>1. \A t \in TraceIds : row[t] \in [st : {"none", "live", "marked", "confirmed"},
                                      asker : BOOLEAN, quotes : SUBSET Quotable]
  BY DEF TraceTypes
<1> QED BY <1>1 DEF Marked

LEMMA FoundRows ==
    ASSUME TraceTypes, NEW S, NEW asked \in BOOLEAN
    PROVE  /\ Found(S, asked) \in [TraceIds -> [st : {"none", "live", "marked", "confirmed"},
                                                asker : BOOLEAN, quotes : SUBSET Quotable]]
           /\ \A t \in TraceIds :
                /\ t \in S /\ row[t].st # "confirmed" =>
                     /\ Found(S, asked)[t].st = "marked"
                     /\ Found(S, asked)[t].quotes = row[t].quotes
                /\ ~(t \in S /\ row[t].st # "confirmed") => Found(S, asked)[t] = row[t]
<1>1. \A t \in TraceIds : row[t] \in [st : {"none", "live", "marked", "confirmed"},
                                      asker : BOOLEAN, quotes : SUBSET Quotable]
  BY DEF TraceTypes
<1> QED BY <1>1 DEF Found

(* Rows that are marked for a cause.                                        *)
LEMMA RowsMarked ==
    ASSUME TracesIInv, CausesStay, UNCHANGED <<run, kept>>, NEW S,
           \A t \in S : t \in TraceIds /\ row[t].st = "live" => Caused(t),
           row' = Marked(S)
    PROVE  /\ \A t \in TraceIds : TraceStands(t)'
           /\ \A t \in TraceIds : row[t].st \in {"marked", "confirmed"} =>
                                    row'[t].st \in {"marked", "confirmed"}
<1>0. TraceTypes /\ \A t \in TraceIds : TraceStands(t)
  BY DEF TracesIInv
<1>1. ASSUME NEW t \in TraceIds PROVE TraceStands(t)'
  <2>1. CASE ~(t \in S /\ row[t].st = "live")
    <3>1. row'[t] = row[t]
      BY <2>1, <1>0, MarkedRows
    <3> QED BY <3>1, <1>0, TraceUntouched
  <2>2. CASE t \in S /\ row[t].st = "live"
    <3>1. row'[t].st = "marked" /\ row'[t].asker = row[t].asker /\ row'[t].quotes = row[t].quotes
      BY <2>2, <1>0, MarkedRows
    <3>2. Caused(t)'
      BY <2>2 DEF Caused, CausesStay
    <3> QED BY <2>2, <3>1, <3>2, <1>0 DEF TraceStands, CausesStay
  <2> QED BY <2>1, <2>2
<1>2. \A t \in TraceIds : row[t].st \in {"marked", "confirmed"} => row'[t] = row[t]
  BY <1>0, MarkedRows
<1> QED BY <1>1, <1>2

LEMMA RowsFound ==
    ASSUME TracesIInv, CausesStay, UNCHANGED <<run, kept>>, NEW S, NEW asked \in BOOLEAN,
           \A t \in S : t \in TraceIds => Caused(t) /\ kept[t] # "none",
           row' = Found(S, asked)
    PROVE  /\ \A t \in TraceIds : TraceStands(t)'
           /\ \A t \in TraceIds : row[t].st \in {"marked", "confirmed"} =>
                                    row'[t].st \in {"marked", "confirmed"}
<1>0. TraceTypes /\ \A t \in TraceIds : TraceStands(t)
  BY DEF TracesIInv
<1>1. ASSUME NEW t \in TraceIds PROVE TraceStands(t)'
  <2>1. CASE ~(t \in S /\ row[t].st # "confirmed")
    <3>1. row'[t] = row[t]
      BY <2>1, <1>0, FoundRows
    <3> QED BY <3>1, <1>0, TraceUntouched
  <2>2. CASE t \in S /\ row[t].st # "confirmed"
    <3>1. row'[t].st = "marked" /\ row'[t].quotes = row[t].quotes
      BY <2>2, <1>0, FoundRows
    <3>2. Caused(t)' /\ kept'[t] # "none"
      BY <2>2 DEF Caused, CausesStay
    <3> QED BY <2>2, <3>1, <3>2, <1>0 DEF TraceStands, CausesStay
  <2> QED BY <2>1, <2>2
<1>2. ASSUME NEW t \in TraceIds, row[t].st \in {"marked", "confirmed"}
      PROVE  row'[t].st \in {"marked", "confirmed"}
  BY <1>0, <1>2, FoundRows
<1> QED BY <1>1, <1>2

(* What a pass or a sweep holds, kept in hand while rows and traces go on.  *)
LEMMA PassesFramed ==
    ASSUME TracesIInv, CausesStay,
           drain' \in {drain, NoTracePass},
           listed' \in {listed, Unlisted},
           \A f \in Flushers : flush'[f] = flush[f] \/ flush'[f] = NoFlush,
           \A t \in TraceIds : kept[t] # "none" => kept'[t] # "none",
           \A t \in TraceIds : row[t].st \in {"marked", "confirmed"} =>
                                 row'[t].st \in {"marked", "confirmed"}
    PROVE  PassesStand'
<1>0. PassesStand /\ drain.found \subseteq TraceIds
      /\ \A f \in Flushers : flush[f].ids \subseteq TraceIds
  BY DEF TracesIInv, TraceTypes
<1>1. /\ \A p \in drain'.askers : p \in wasOut'
      /\ \A t \in drain'.found : AskerOf[t] \in wasOut' /\ kept'[t] # "none"
  BY <1>0 DEF PassesStand, CausesStay, NoTracePass
<1>2. listed' # Unlisted => \A t \in listed' : t \in TraceIds \cap old' /\ kept'[t] # "none"
  BY <1>0 DEF PassesStand, CausesStay
<1>3. ASSUME NEW f \in Flushers, NEW t \in flush'[f].ids
      PROVE  row'[t].st \in {"marked", "confirmed"}
  <2>1. flush'[f] = flush[f]
    BY <1>3 DEF NoFlush
  <2>2. t \in flush[f].ids /\ t \in TraceIds
    BY <2>1, <1>0, <1>3
  <2> QED BY <2>2, <1>0 DEF PassesStand
<1> QED BY <1>1, <1>2, <1>3 DEF PassesStand

LEMMA TracesInitially == ASSUME TracesInit PROVE TracesIInv
<1>1. TraceTypes
  BY DEF TracesInit, TraceTypes, NoRow, NoTracePass, NoFlush
<1>2. \A t \in TraceIds : TraceStands(t)
  BY DEF TracesInit, TraceStands, NoRow
<1>3. PeopleStand
  BY DEF TracesInit, PeopleStand
<1>4. PassesStand
  BY DEF TracesInit, PassesStand, NoTracePass, NoFlush
<1> QED BY <1>1, <1>2, <1>3, <1>4 DEF TracesIInv

(* Steps of the bot, and of Langfuse, with one trace.                       *)
LEMMA OneTraceMoves ==
    ASSUME TracesIInv, TraceTypes', NEW t \in TraceIds, TraceStands(t)',
           UNCHANGED <<peopleVars, ingestVars, old>>, \A u \in missed : u \in missed',
           \A u \in TraceIds \ {t} : run'[u] = run[u] /\ kept'[u] = kept[u] /\ row'[u] = row[u],
           kept[t] # "none" => kept'[t] # "none",
           row[t].st \in {"marked", "confirmed"} => row'[t].st \in {"marked", "confirmed"}
    PROVE  TracesIInv'
<1>1. CausesStay
  BY DEF CausesStay, peopleVars
<1>2. \A u \in TraceIds : TraceStands(u)'
  BY <1>1, TraceUntouched DEF TracesIInv
<1>3. PeopleStand'
  BY DEF PeopleStand, TracesIInv, peopleVars
<1>4. PassesStand'
  <2>1. drain' = drain /\ listed' = listed /\ flush' = flush
    BY DEF ingestVars
  <2> QED BY <1>1, <2>1, PassesFramed
<1> QED BY <1>2, <1>3, <1>4 DEF TracesIInv

LEMMA BotMoves ==
    ASSUME TracesIInv, NEW t \in TraceIds,
           \/ \E Q \in SUBSET Quotable : AnswerRun(t, Q)
           \/ BotStep(t) \/ PostFails(t) \/ ExportLost(t) \/ TraceGone(t)
    PROVE  TracesIInv'
<1> DEFINE Runs == [at : {"none", "answered", "checked", "accepted", "recording", "over"},
                    quotes : SUBSET Quotable, born : {"live", "marked"}]
           Rows == [st : {"none", "live", "marked", "confirmed"},
                    asker : BOOLEAN, quotes : SUBSET Quotable]
<1>0. /\ TraceTypes /\ TraceStands(t) /\ PeopleStand
      /\ run \in [TraceIds -> Runs] /\ row \in [TraceIds -> Rows]
      /\ kept \in [TraceIds -> {"none", "held", "deleting", "gone"}]
      /\ run[t] \in Runs /\ row[t] \in Rows
  BY DEF TracesIInv, TraceTypes
<1> HIDE DEF Runs, Rows
<1>1. ASSUME NEW Q \in SUBSET Quotable, AnswerRun(t, Q) PROVE TracesIInv'
  <2>0. /\ run[t].at = "none" /\ run' = [run EXCEPT ![t] = [@ EXCEPT !.at = "answered", !.quotes = Q]]
        /\ UNCHANGED <<kept, row, peopleVars, ingestVars, restVars>>
    BY <1>1, <1>0 DEF AnswerRun
  <2>1. run'[t] \in Runs /\ run'[t].at = "answered" /\ run'[t].quotes = Q
    BY <2>0, <1>0 DEF Runs
  <2>2. TraceTypes'
    BY <2>0, <2>1, <1>0 DEF TraceTypes, Runs, peopleVars, ingestVars, restVars
  <2>3. TraceStands(t)'
    BY <2>0, <2>1, <1>0 DEF TraceStands
  <2> QED BY <2>0, <2>2, <2>3, <1>0, OneTraceMoves DEF restVars
<1>2. ASSUME NEW at \in {"over", "checked", "accepted", "recording"},
             NEW born \in {"live", "marked"},
             run' = [run EXCEPT ![t] = [@ EXCEPT !.at = at, !.born = born]],
             kept' \in {kept, [kept EXCEPT ![t] = "held"]},
             UNCHANGED <<row, peopleVars, ingestVars, old, outs, missed>>,
             run[t].at # "none",
             at = "checked" => run[t].at = "answered",
             kept'[t] # kept[t] => run[t].at = "checked",
             at = "checked" => kept' = kept,
             at \in {"accepted", "recording"} => kept'[t] # "none",
             at = "recording" /\ born = "marked" => IsOut(AskerOf[t])
      PROVE  TracesIInv'
  <2>1. run'[t] \in Runs /\ run'[t].at = at /\ run'[t].born = born /\ run'[t].quotes = run[t].quotes
    BY <1>2, <1>0 DEF Runs
  <2>2. TraceTypes'
    <3>1. run' \in [TraceIds -> Runs] /\ kept' \in [TraceIds -> {"none", "held", "deleting", "gone"}]
      BY <1>2, <2>1, <1>0
    <3> QED BY <1>2, <3>1, <1>0 DEF TraceTypes, Runs, peopleVars, ingestVars
  <2>3. Caused(t)' <=> Caused(t)
    BY <1>2, <2>1 DEF Caused, peopleVars
  <2>4. at = "recording" /\ born = "marked" => AskerOf[t] \in wasOut
    BY <1>2, <1>0 DEF IsOut, PeopleStand, Persons
  <2>5. kept'[t] = kept[t] \/ (kept[t] = "none" /\ kept'[t] = "held")
    BY <1>2, <1>0 DEF TraceStands
  <2>6. wasOut' = wasOut /\ row' = row /\ missed' = missed
    BY <1>2 DEF peopleVars
  <2>7. TraceStands(t)'
    BY <1>2, <2>1, <2>3, <2>4, <2>5, <2>6, <1>0 DEF TraceStands
  <2>8. \A u \in TraceIds \ {t} : run'[u] = run[u] /\ kept'[u] = kept[u] /\ row'[u] = row[u]
    BY <1>2, <1>0
  <2> QED BY <1>2, <2>2, <2>5, <2>7, <2>8, OneTraceMoves
<1>3. ASSUME CheckAsker(t) PROVE TracesIInv'
  <2>1. PICK at \in {"over", "checked"} : run' = [run EXCEPT ![t].at = at]
    BY <1>3 DEF CheckAsker
  <2>2. run' = [run EXCEPT ![t] = [@ EXCEPT !.at = at, !.born = run[t].born]]
        /\ run[t].born \in {"live", "marked"}
    BY <2>1, <1>0 DEF Runs
  <2> QED BY <1>2, <1>3, <2>2 DEF CheckAsker, restVars
<1>4. ASSUME PostRun(t) PROVE TracesIInv'
  <2>1. run' = [run EXCEPT ![t] = [@ EXCEPT !.at = "accepted", !.born = run[t].born]]
        /\ run[t].born \in {"live", "marked"}
    BY <1>4, <1>0 DEF PostRun, Runs
  <2>2. kept' = [kept EXCEPT ![t] = "held"] /\ kept'[t] # "none" /\ run[t].at = "checked"
    BY <1>4, <1>0 DEF PostRun
  <2> QED BY <1>2, <1>4, <2>1, <2>2 DEF PostRun, restVars
<1>5. ASSUME PostFails(t) PROVE TracesIInv'
  <2>1. run' = [run EXCEPT ![t] = [@ EXCEPT !.at = "over", !.born = run[t].born]]
        /\ run[t].born \in {"live", "marked"}
    BY <1>5, <1>0 DEF PostFails, Runs
  <2> QED BY <1>2, <1>5, <2>1 DEF PostFails
<1>6. ASSUME RecordTrace(t) PROVE TracesIInv'
  <2>1. PICK born : born = Born(t)
    OBVIOUS
  <2>2. born \in {"live", "marked"} /\ (born = "marked" => IsOut(AskerOf[t]))
    BY <2>1 DEF Born
  <2>3. run' = [run EXCEPT ![t] = [@ EXCEPT !.at = "recording", !.born = born]]
        /\ run[t].at = "accepted"
    BY <2>1, <1>6, <1>0 DEF RecordTrace, Runs
  <2>4. kept' = kept /\ kept[t] # "none"
    BY <1>6, <2>3, <1>0 DEF RecordTrace, TraceStands
  <2>5. UNCHANGED <<row, peopleVars, ingestVars, old, outs, missed>>
    BY <1>6 DEF RecordTrace, restVars
  <2> QED BY <1>2, <2>2, <2>3, <2>4, <2>5
<1>7. ASSUME ExportLost(t) PROVE TracesIInv'
  <2>1. run' = [run EXCEPT ![t] = [@ EXCEPT !.at = "over", !.born = run[t].born]]
        /\ run[t].born \in {"live", "marked"}
    BY <1>7, <1>0 DEF ExportLost, Runs
  <2> QED BY <1>2, <1>7, <2>1 DEF ExportLost
<1>8. ASSUME CommitExport(t) PROVE TracesIInv'
  <2> DEFINE fresh == [st |-> run[t].born, asker |-> TRUE, quotes |-> run[t].quotes]
             added == [row[t] EXCEPT !.quotes = @ \cup run[t].quotes]
  <2>0. /\ run[t].at = "recording" /\ run' = [run EXCEPT ![t] = [@ EXCEPT !.at = "over"]]
        /\ row' = [row EXCEPT ![t] = IF row[t].st = "none" THEN fresh ELSE added]
        /\ (\A u \in missed : u \in missed') /\ (row[t].st = "confirmed" => t \in missed')
        /\ UNCHANGED <<kept, peopleVars, ingestVars, old, outs>>
    <3>1. /\ run[t].at = "recording" /\ run' = [run EXCEPT ![t] = [@ EXCEPT !.at = "over"]]
          /\ UNCHANGED <<kept, peopleVars, ingestVars, old, outs>>
      BY <1>8 DEF CommitExport
    <3>2. row' = [row EXCEPT ![t] = IF row[t].st = "none" THEN fresh ELSE added]
      BY <1>8 DEF CommitExport
    <3>3. (\A u \in missed : u \in missed') /\ (row[t].st = "confirmed" => t \in missed')
      BY <1>8 DEF CommitExport
    <3> QED BY <3>1, <3>2, <3>3
  <2>1. fresh \in Rows /\ added \in Rows
    BY <1>0 DEF Rows, Runs
  <2>2. run'[t] \in Runs /\ run'[t].at = "over" /\ run'[t].quotes = run[t].quotes
    BY <2>0, <1>0 DEF Runs
  <2>3. /\ fresh.st = run[t].born /\ fresh.quotes = run[t].quotes
        /\ added.st = row[t].st /\ added.asker = row[t].asker
        /\ added.quotes = row[t].quotes \cup run[t].quotes
    BY <1>0 DEF Rows
  <2> HIDE DEF fresh, added
  <2>4. /\ row'[t] \in Rows /\ run' \in [TraceIds -> Runs] /\ row' \in [TraceIds -> Rows]
        /\ row'[t] = IF row[t].st = "none" THEN fresh ELSE added
    BY <2>0, <2>1, <2>2, <1>0
  <2>5. TraceTypes'
    BY <2>0, <2>4, <1>0 DEF TraceTypes, Runs, Rows, peopleVars, ingestVars
  <2>6. Caused(t)' <=> Caused(t)
    BY <2>0, <2>2 DEF Caused, peopleVars
  <2>7. run[t].born = "marked" => Caused(t)
    BY <2>0, <1>0 DEF TraceStands, Caused
  <2>8. run[t].born \in {"live", "marked"}
    BY <1>0 DEF Runs
  <2>9. TraceStands(t)'
    <3>1. CASE row[t].st = "none"
      BY <3>1, <2>0, <2>2, <2>3, <2>4, <2>6, <2>7, <2>8, <1>0 DEF TraceStands
    <3>2. CASE row[t].st # "none"
      BY <3>2, <2>0, <2>2, <2>3, <2>4, <2>6, <1>0 DEF TraceStands
    <3> QED BY <3>1, <3>2
  <2>10. \A u \in TraceIds \ {t} : run'[u] = run[u] /\ kept'[u] = kept[u] /\ row'[u] = row[u]
    BY <2>0, <1>0
  <2>11. row[t].st \in {"marked", "confirmed"} => row'[t].st \in {"marked", "confirmed"}
    BY <2>3, <2>4
  <2> QED BY <2>0, <2>5, <2>9, <2>10, <2>11, OneTraceMoves
<1>9. ASSUME TraceGone(t) PROVE TracesIInv'
  <2>0. /\ kept[t] = "deleting" /\ kept' = [kept EXCEPT ![t] = "gone"]
        /\ UNCHANGED <<run, row, peopleVars, ingestVars, restVars>>
    BY <1>9 DEF TraceGone
  <2>1. kept'[t] = "gone"
    BY <2>0, <1>0
  <2>2. TraceTypes'
    BY <2>0, <1>0 DEF TraceTypes, peopleVars, ingestVars, restVars
  <2>3. Caused(t)' <=> Caused(t)
    BY <2>0 DEF Caused, peopleVars, restVars
  <2>4. TraceStands(t)'
    BY <2>0, <2>1, <2>3, <1>0 DEF TraceStands, peopleVars, restVars
  <2> QED BY <2>0, <2>1, <2>2, <2>4, <1>0, OneTraceMoves DEF restVars
<1> QED BY <1>1, <1>3, <1>4, <1>5, <1>6, <1>7, <1>8, <1>9 DEF BotStep

(* What people and the gateway do: a deletion, an opt-out.                  *)
LEMMA TracesRest ==
    ASSUME TracesIInv, CausesStay, UNCHANGED botVars
    PROVE  \A t \in TraceIds : TraceStands(t)'
BY TraceUntouched DEF TracesIInv, botVars

LEMMA PeopleMove ==
    ASSUME TracesIInv,
           \/ \E m \in Quotable : DeleteMessage(m) \/ DeletionUntold(m)
           \/ \E p \in Persons : ExcludePerson(p) \/ PurgePerson(p) \/ OptIn(p)
    PROVE  TracesIInv'
<1>0. /\ TraceTypes /\ PeopleStand /\ PassesStand
      /\ out \in [Persons -> {"in", "excluded", "withdrawn", "purged"}]
      /\ search \in [Persons -> 0..outs] /\ outs \in Nat
  BY DEF TracesIInv, TraceTypes
<1>1. /\ UNCHANGED <<botVars, ingestVars, search>> /\ CausesStay
      /\ outs' \in Nat /\ outs <= outs'
  <2>1. ASSUME NEW p \in Persons, ExcludePerson(p)
        PROVE  /\ UNCHANGED <<botVars, ingestVars, search>> /\ CausesStay
               /\ outs' \in Nat /\ outs <= outs'
    BY <2>1, <1>0 DEF ExcludePerson, CausesStay
  <2>2. ASSUME NEW m \in Quotable, DeleteMessage(m) \/ DeletionUntold(m)
        PROVE  /\ UNCHANGED <<botVars, ingestVars, search>> /\ CausesStay
               /\ outs' \in Nat /\ outs <= outs'
    BY <2>2, <1>0 DEF DeleteMessage, DeletionUntold, CausesStay, restVars
  <2>3. ASSUME NEW p \in Persons, PurgePerson(p) \/ OptIn(p)
        PROVE  /\ UNCHANGED <<botVars, ingestVars, search>> /\ CausesStay
               /\ outs' \in Nat /\ outs <= outs'
    BY <2>3, <1>0 DEF PurgePerson, OptIn, CausesStay, restVars
  <2> QED BY <2>1, <2>2, <2>3
<1>2. \A t \in TraceIds : TraceStands(t)'
  BY <1>1, TracesRest
<1>3. PassesStand'
  <2>1. drain' = drain /\ listed' = listed /\ flush' = flush /\ kept' = kept /\ row' = row
    BY <1>1 DEF ingestVars, botVars
  <2> QED BY <1>1, <2>1, PassesFramed
<1>4. /\ inCorpus' \subseteq Quotable /\ untold' \subseteq Quotable
      /\ out' \in [Persons -> {"in", "excluded", "withdrawn", "purged"}]
      /\ PeopleStand'
  <2>1. ASSUME NEW m \in Quotable, DeleteMessage(m) \/ DeletionUntold(m)
        PROVE  /\ inCorpus' \subseteq inCorpus /\ untold' \subseteq untold \cup (Quotable \ inCorpus')
               /\ out' = out
    BY <2>1 DEF DeleteMessage, DeletionUntold
  <2>2. ASSUME NEW p \in Persons, ExcludePerson(p) \/ PurgePerson(p) \/ OptIn(p)
        PROVE  /\ inCorpus' \subseteq inCorpus /\ untold' = untold
               /\ out' \in [Persons -> {"in", "excluded", "withdrawn", "purged"}]
               /\ \A q \in Persons : out'[q] # "in" => out[q] # "in" \/ q \in wasOut'
    <3>1. CASE ExcludePerson(p)
      BY <3>1, <1>0 DEF ExcludePerson
    <3>2. CASE PurgePerson(p)
      BY <3>2, <1>0 DEF PurgePerson
    <3>3. CASE OptIn(p)
      BY <3>3, <1>0 DEF OptIn
    <3> QED BY <2>2, <3>1, <3>2, <3>3
  <2>3. /\ inCorpus' \subseteq inCorpus /\ untold' \subseteq untold \cup (Quotable \ inCorpus')
        /\ out' \in [Persons -> {"in", "excluded", "withdrawn", "purged"}]
        /\ \A q \in Persons : out'[q] # "in" => out[q] # "in" \/ q \in wasOut'
    BY <2>1, <2>2, <1>0
  <2>4. PeopleStand'
    <3>1. \A q \in Persons : q \in wasOut => q \in wasOut'
      BY <1>1 DEF CausesStay
    <3> QED BY <2>3, <3>1, <1>0, <1>1 DEF PeopleStand
  <2> QED BY <2>3, <2>4, <1>0 DEF TraceTypes
<1>5. TraceTypes'
  <2>1. search' \in [Persons -> 0..outs']
    BY <1>0, <1>1
  <2> QED BY <2>1, <1>0, <1>1, <1>4 DEF TraceTypes, botVars, ingestVars
<1> QED BY <1>2, <1>3, <1>4, <1>5 DEF TracesIInv

LEMMA MessageWithdrawn ==
    ASSUME TracesIInv, NEW m \in Quotable, WithdrawMessageTraces(m)
    PROVE  TracesIInv'
<1>1. PICK S : S = Unconfirmed(Quoting({m}))
  OBVIOUS
<1>0. /\ TraceTypes /\ PeopleStand /\ PassesStand /\ (\A t \in TraceIds : TraceStands(t))
      /\ S \subseteq TraceIds /\ \A t \in S : m \in row[t].quotes
  BY <1>1 DEF TracesIInv, Unconfirmed, Quoting
<1>2. /\ m \in untold /\ untold' = untold \ {m} /\ row' = Marked(S)
      /\ flush' = IF S = {} THEN flush
                  ELSE [flush EXCEPT !["inline"] = [at |-> "delete", ids |-> S]]
      /\ UNCHANGED <<run, kept, inCorpus, out, wasOut, search, drain, listed, restVars>>
  BY <1>1 DEF WithdrawMessageTraces
<1>3. CausesStay
  BY <1>2 DEF CausesStay, restVars
<1>4. \A t \in S : Caused(t)
  <2>1. m \notin inCorpus
    BY <1>2, <1>0 DEF PeopleStand
  <2> QED BY <2>1, <1>0 DEF Caused, TraceStands
<1>5. /\ \A t \in TraceIds : TraceStands(t)'
      /\ \A t \in TraceIds : row[t].st \in {"marked", "confirmed"} =>
                               row'[t].st \in {"marked", "confirmed"}
  BY <1>2, <1>3, <1>4, RowsMarked
<1>6. \A t \in S : row'[t].st = "marked" \/ row[t].st = "marked"
  BY <1>0, <1>1, <1>2, MarkedRows, ZenonT(60) DEF Unconfirmed
<1>7. \A f \in Flushers : \A t \in flush'[f].ids : row'[t].st \in {"marked", "confirmed"}
  <2>1. SUFFICES ASSUME NEW f \in Flushers, NEW t \in flush'[f].ids
                 PROVE  row'[t].st \in {"marked", "confirmed"}
    OBVIOUS
  <2>2. CASE flush'[f] = flush[f]
    <3>1. t \in flush[f].ids /\ t \in TraceIds
      BY <2>1, <2>2, <1>0 DEF TraceTypes
    <3> QED BY <3>1, <1>0, <1>5 DEF PassesStand
  <2>3. CASE flush'[f] # flush[f]
    <3>1. t \in S
      BY <2>1, <2>3, <1>0, <1>2 DEF TraceTypes
    <3> QED BY <3>1, <1>0, <1>5, <1>6
  <2> QED BY <2>2, <2>3
<1>8. PassesStand'
  BY <1>0, <1>2, <1>7 DEF PassesStand, restVars
<1>9. PeopleStand'
  BY <1>0, <1>2 DEF PeopleStand
<1>10. TraceTypes'
  <2>1. row' \in [TraceIds -> [st : {"none", "live", "marked", "confirmed"},
                               asker : BOOLEAN, quotes : SUBSET Quotable]]
    BY <1>0, <1>2, MarkedRows
  <2>2. flush' \in [Flushers -> [at : {"idle", "delete", "confirm"}, ids : SUBSET TraceIds]]
    BY <1>0, <1>2 DEF TraceTypes
  <2> QED BY <2>1, <2>2, <1>0, <1>2 DEF TraceTypes, restVars
<1> QED BY <1>5, <1>8, <1>9, <1>10 DEF TracesIInv

LEMMA PersonWithdrawn ==
    ASSUME TracesIInv, NEW p \in Persons, WithdrawPerson(p)
    PROVE  TracesIInv'
<1>1. PICK S : S = AskedBy(p) \cup Quoting({m \in Quotable : AuthorOf[m] = p})
  OBVIOUS
<1>0. /\ TraceTypes /\ PeopleStand /\ PassesStand /\ (\A t \in TraceIds : TraceStands(t))
      /\ out \in [Persons -> {"in", "excluded", "withdrawn", "purged"}]
      /\ search \in [Persons -> 0..outs] /\ outs \in Nat
  BY DEF TracesIInv, TraceTypes
<1>2. /\ out[p] = "excluded" /\ out' = [out EXCEPT ![p] = "withdrawn"] /\ row' = Marked(S)
      /\ search' = [search EXCEPT ![p] = outs]
      /\ UNCHANGED <<run, kept, inCorpus, untold, wasOut, ingestVars, restVars>>
  BY <1>1 DEF WithdrawPerson
<1>3. CausesStay
  BY <1>2 DEF CausesStay, restVars
<1>4. \A t \in S : t \in TraceIds => Caused(t)
  <2>1. p \in wasOut
    BY <1>2, <1>0 DEF PeopleStand
  <2>2. SUFFICES ASSUME NEW t \in S, t \in TraceIds PROVE Caused(t)
    OBVIOUS
  <2>3. CASE t \in AskedBy(p)
    BY <2>1, <2>3 DEF AskedBy, Caused
  <2>4. CASE t \in Quoting({m \in Quotable : AuthorOf[m] = p})
    <3>1. PICK m \in row[t].quotes : AuthorOf[m] = p
      BY <2>4 DEF Quoting
    <3>2. m \in run[t].quotes
      BY <3>1, <2>2, <1>0 DEF TraceStands
    <3> QED BY <2>1, <3>1, <3>2 DEF Caused
  <2> QED BY <2>2, <2>3, <2>4, <1>1
<1>5. /\ \A t \in TraceIds : TraceStands(t)'
      /\ \A t \in TraceIds : row[t].st \in {"marked", "confirmed"} =>
                               row'[t].st \in {"marked", "confirmed"}
  BY <1>2, <1>3, <1>4, RowsMarked
<1>6. PassesStand'
  <2>1. drain' = drain /\ listed' = listed /\ flush' = flush
    BY <1>2 DEF ingestVars
  <2> QED BY <1>2, <1>3, <1>5, <2>1, PassesFramed
<1>7. PeopleStand'
  BY <1>0, <1>2 DEF PeopleStand
<1>8. TraceTypes'
  <2>1. row' \in [TraceIds -> [st : {"none", "live", "marked", "confirmed"},
                               asker : BOOLEAN, quotes : SUBSET Quotable]]
    BY <1>0, <1>2, MarkedRows
  <2>2. /\ out' \in [Persons -> {"in", "excluded", "withdrawn", "purged"}]
        /\ outs' = outs /\ search' \in [Persons -> 0..outs]
    BY <1>0, <1>2 DEF restVars
  <2> QED BY <2>1, <2>2, <1>0, <1>2 DEF TraceTypes, ingestVars
<1> QED BY <1>5, <1>6, <1>7, <1>8 DEF TracesIInv

(* The withdrawal pass, the retention sweep and the deletions.              *)
LEMMA PassMoves ==
    ASSUME TracesIInv,
           \/ BeginTracePass \/ SweepRetention
           \/ \E p \in Persons : FindByAsker(p) \/ SearchDeferred(p)
           \/ \E t \in TraceIds : GrowOld(t)
    PROVE  TracesIInv'
<1>0. /\ TraceTypes /\ PeopleStand /\ PassesStand /\ (\A t \in TraceIds : TraceStands(t))
      /\ drain \in [at : {"idle", "search", "found"}, askers : SUBSET Persons, of : SUBSET Persons,
                    found : SUBSET TraceIds, started : Nat]
      /\ outs \in Nat
  BY DEF TracesIInv, TraceTypes
<1>1. ASSUME UNCHANGED <<botVars, peopleVars, flush, listed, old, outs, missed>>,
             drain' \in [at : {"idle", "search", "found"}, askers : SUBSET Persons,
                         of : SUBSET Persons, found : SUBSET TraceIds, started : Nat],
             \A p \in drain'.askers : p \in wasOut,
             \A t \in drain'.found : AskerOf[t] \in wasOut /\ kept[t] # "none"
      PROVE  TracesIInv'
  <2>1. CausesStay
    BY <1>1 DEF CausesStay, peopleVars
  <2>2. \A t \in TraceIds : TraceStands(t)'
    BY <1>1, <2>1, TracesRest
  <2>3. TraceTypes' /\ PeopleStand'
    BY <1>0, <1>1 DEF TraceTypes, PeopleStand, botVars, peopleVars
  <2>4. PassesStand'
    BY <1>0, <1>1 DEF PassesStand, botVars, peopleVars
  <2> QED BY <2>2, <2>3, <2>4 DEF TracesIInv
<1>2. ASSUME BeginTracePass PROVE TracesIInv'
  <2>1. UNCHANGED <<botVars, peopleVars, flush, listed, old, outs, missed>>
    BY <1>2 DEF BeginTracePass, restVars
  <2>2. drain' = [NoTracePass EXCEPT !.at = "search", !.askers = {p \in Persons : search[p] # 0}]
    BY <1>2 DEF BeginTracePass
  <2>3. /\ drain' \in [at : {"idle", "search", "found"}, askers : SUBSET Persons,
                       of : SUBSET Persons, found : SUBSET TraceIds, started : Nat]
        /\ drain'.askers = {p \in Persons : search[p] # 0} /\ drain'.found = {}
    BY <2>2 DEF NoTracePass
  <2>4. \A p \in Persons : search[p] # 0 => p \in wasOut
    BY <1>0 DEF PeopleStand
  <2> QED BY <1>1, <2>1, <2>3, <2>4
<1>3. ASSUME NEW p \in Persons, FindByAsker(p) PROVE TracesIInv'
  <2> DEFINE found == {t \in ListedNow : AskerOf[t] = p}
  <2>0. /\ p \in drain.askers /\ UNCHANGED <<botVars, peopleVars, flush, listed, restVars>>
        /\ drain' = [at |-> "found", askers |-> drain.askers \ {p}, of |-> {p},
                     found |-> found, started |-> outs]
    BY <1>3 DEF FindByAsker
  <2>1. UNCHANGED <<botVars, peopleVars, flush, listed, old, outs, missed>>
    BY <2>0 DEF restVars
  <2>2. p \in wasOut /\ \A q \in drain.askers : q \in wasOut
    BY <2>0, <1>0 DEF PassesStand
  <2>3. found \subseteq TraceIds /\ \A t \in found : AskerOf[t] = p /\ kept[t] # "none"
    BY DEF ListedNow
  <2> HIDE DEF found
  <2>4. /\ drain' \in [at : {"idle", "search", "found"}, askers : SUBSET Persons,
                       of : SUBSET Persons, found : SUBSET TraceIds, started : Nat]
        /\ drain'.askers = drain.askers \ {p} /\ drain'.found = found
    BY <2>0, <2>3, <1>0
  <2>5. \A t \in drain'.found : AskerOf[t] \in wasOut /\ kept[t] # "none"
    BY <2>2, <2>3, <2>4
  <2>6. \A q \in drain'.askers : q \in wasOut
    BY <2>2, <2>4
  <2> QED BY <1>1, <2>1, <2>4, <2>5, <2>6
<1>4. ASSUME NEW p \in Persons, SearchDeferred(p) PROVE TracesIInv'
  <2>1. UNCHANGED <<botVars, peopleVars, flush, listed, old, outs, missed>>
    BY <1>4 DEF SearchDeferred
  <2>2. drain' = [drain EXCEPT !.askers = drain.askers \ {p}]
    BY <1>4 DEF SearchDeferred
  <2>3. /\ drain' \in [at : {"idle", "search", "found"}, askers : SUBSET Persons,
                       of : SUBSET Persons, found : SUBSET TraceIds, started : Nat]
        /\ drain'.askers = drain.askers \ {p} /\ drain'.found = drain.found
    BY <2>2, <1>0
  <2>4. /\ \A q \in drain.askers : q \in wasOut
        /\ \A t \in drain.found : AskerOf[t] \in wasOut /\ kept[t] # "none"
    BY <1>0 DEF PassesStand
  <2>5. /\ \A q \in drain'.askers : q \in wasOut
        /\ \A t \in drain'.found : AskerOf[t] \in wasOut /\ kept[t] # "none"
    BY <2>3, <2>4
  <2> QED BY <1>1, <2>1, <2>3, <2>5
<1>5. ASSUME NEW t \in TraceIds, GrowOld(t) PROVE TracesIInv'
  <2>1. UNCHANGED <<botVars, peopleVars, ingestVars, outs, missed>> /\ old' = old \cup {t}
    BY <1>5 DEF GrowOld
  <2>2. CausesStay
    BY <2>1 DEF CausesStay, peopleVars
  <2>3. \A u \in TraceIds : TraceStands(u)'
    BY <2>1, <2>2, TracesRest
  <2>4. TraceTypes' /\ PeopleStand'
    BY <1>0, <2>1 DEF TraceTypes, PeopleStand, botVars, peopleVars, ingestVars
  <2>5. PassesStand'
    BY <1>0, <2>1 DEF PassesStand, botVars, peopleVars, ingestVars
  <2> QED BY <2>3, <2>4, <2>5 DEF TracesIInv
<1>6. ASSUME SweepRetention PROVE TracesIInv'
  <2>0. PICK S : S = old
    OBVIOUS
  <2>1. /\ row' = Marked(S) /\ listed' = ListedNow \cap old
        /\ UNCHANGED <<run, kept, peopleVars, drain, flush, restVars>>
    BY <1>6, <2>0 DEF SweepRetention
  <2>2. CausesStay
    BY <2>1 DEF CausesStay, peopleVars, restVars
  <2>3. /\ \A t \in TraceIds : TraceStands(t)'
        /\ \A t \in TraceIds : row[t].st \in {"marked", "confirmed"} =>
                                 row'[t].st \in {"marked", "confirmed"}
    <3>1. \A t \in S : Caused(t)
      BY <2>0 DEF Caused
    <3> QED BY <2>1, <2>2, <3>1, RowsMarked
  <2>4. row' \in [TraceIds -> [st : {"none", "live", "marked", "confirmed"},
                               asker : BOOLEAN, quotes : SUBSET Quotable]]
    BY <1>0, <2>1, MarkedRows
  <2>5. TraceTypes' /\ PeopleStand'
    BY <1>0, <2>1, <2>4 DEF TraceTypes, PeopleStand, peopleVars, restVars
  <2>6. \A t \in listed' : t \in TraceIds \cap old' /\ kept'[t] # "none"
    BY <2>1 DEF ListedNow, restVars
  <2>7. \A f \in Flushers : \A t \in flush'[f].ids : row'[t].st \in {"marked", "confirmed"}
    <3>1. \A f \in Flushers : \A t \in flush[f].ids :
             t \in TraceIds /\ row[t].st \in {"marked", "confirmed"}
      BY <1>0 DEF PassesStand, TraceTypes
    <3> QED BY <2>1, <2>3, <3>1
  <2>8. PassesStand'
    BY <1>0, <2>1, <2>6, <2>7 DEF PassesStand, peopleVars
  <2> QED BY <2>3, <2>5, <2>8 DEF TracesIInv
<1> QED BY <1>2, <1>3, <1>4, <1>5, <1>6

LEMMA RecordsFound ==
    ASSUME TracesIInv,
           RecordExpired \/ \E p \in Persons : RecordFound(p)
    PROVE  TracesIInv'
<1>0. /\ TraceTypes /\ PeopleStand /\ PassesStand /\ (\A t \in TraceIds : TraceStands(t))
      /\ drain \in [at : {"idle", "search", "found"}, askers : SUBSET Persons, of : SUBSET Persons,
                    found : SUBSET TraceIds, started : Nat]
      /\ search \in [Persons -> 0..outs] /\ outs \in Nat
  BY DEF TracesIInv, TraceTypes
<1>1. ASSUME NEW S, NEW asked \in BOOLEAN, row' = Found(S, asked),
             \A t \in S : t \in TraceIds /\ Caused(t) /\ kept[t] # "none",
             UNCHANGED <<run, kept, inCorpus, untold, out, wasOut, flush, restVars>>,
             search' \in [Persons -> 0..outs],
             \A p \in Persons : search'[p] # 0 => search[p] # 0,
             drain' \in [at : {"idle", "search", "found"}, askers : SUBSET Persons,
                         of : SUBSET Persons, found : SUBSET TraceIds, started : Nat],
             drain'.askers \subseteq drain.askers, drain'.found \subseteq drain.found,
             listed' \in {listed, Unlisted}
      PROVE  TracesIInv'
  <2>1. CausesStay
    BY <1>1 DEF CausesStay, restVars
  <2>2. /\ \A t \in TraceIds : TraceStands(t)'
        /\ \A t \in TraceIds : row[t].st \in {"marked", "confirmed"} =>
                                 row'[t].st \in {"marked", "confirmed"}
    BY <1>1, <2>1, RowsFound
  <2>3. row' \in [TraceIds -> [st : {"none", "live", "marked", "confirmed"},
                               asker : BOOLEAN, quotes : SUBSET Quotable]]
    BY <1>0, <1>1, FoundRows
  <2>4. TraceTypes'
    BY <1>0, <1>1, <2>3 DEF TraceTypes, restVars
  <2>5. PeopleStand'
    BY <1>0, <1>1 DEF PeopleStand
  <2>6. \A f \in Flushers : \A t \in flush'[f].ids : row'[t].st \in {"marked", "confirmed"}
    <3>1. \A f \in Flushers : \A t \in flush[f].ids :
             t \in TraceIds /\ row[t].st \in {"marked", "confirmed"}
      BY <1>0 DEF PassesStand, TraceTypes
    <3> QED BY <1>1, <2>2, <3>1
  <2>7. PassesStand'
    BY <1>0, <1>1, <2>6 DEF PassesStand, restVars
  <2> QED BY <2>2, <2>4, <2>5, <2>7 DEF TracesIInv
<1>2. ASSUME RecordExpired PROVE TracesIInv'
  <2>0. PICK S : S = listed
    OBVIOUS
  <2>1. /\ listed # Unlisted /\ row' = Found(S, FALSE) /\ listed' = Unlisted
        /\ UNCHANGED <<run, kept, peopleVars, drain, flush, restVars>>
    BY <1>2, <2>0 DEF RecordExpired
  <2>2. \A t \in S : t \in TraceIds /\ Caused(t) /\ kept[t] # "none"
    BY <1>0, <2>0, <2>1 DEF PassesStand, Caused
  <2>3. UNCHANGED <<run, kept, inCorpus, untold, out, wasOut, flush, restVars, search, drain>>
    BY <2>1 DEF peopleVars
  <2> QED BY <1>0, <1>1, <2>1, <2>2, <2>3
<1>3. ASSUME NEW p \in Persons, RecordFound(p) PROVE TracesIInv'
  <2>0. PICK S : S = drain.found
    OBVIOUS
  <2>1. /\ row' = Found(S, TRUE) /\ search' = SearchClosed(p, drain.started)
        /\ drain' = [NoTracePass EXCEPT !.at = "search", !.askers = drain.askers]
        /\ UNCHANGED <<run, kept, inCorpus, untold, told, out, wasOut, flush, listed, restVars>>
    BY <1>3, <2>0 DEF RecordFound
  <2>2. \A t \in S : t \in TraceIds /\ Caused(t) /\ kept[t] # "none"
    BY <1>0, <2>0 DEF PassesStand, Caused
  <2>3. /\ search' \in [Persons -> 0..outs]
        /\ \A q \in Persons : search'[q] # 0 => search[q] # 0
    BY <1>0, <2>1 DEF SearchClosed
  <2>4. /\ drain' \in [at : {"idle", "search", "found"}, askers : SUBSET Persons,
                       of : SUBSET Persons, found : SUBSET TraceIds, started : Nat]
        /\ drain'.askers = drain.askers /\ drain'.found = {}
    BY <1>0, <2>1 DEF NoTracePass
  <2> QED BY <1>1, <2>1, <2>2, <2>3, <2>4
<1> QED BY <1>2, <1>3

LEMMA Deletions ==
    ASSUME TracesIInv,
           \/ ReadPendingDeletions \/ IngestRestarts
           \/ \E f \in Flushers : FlushStep(f) \/ DeleteRefused(f)
    PROVE  TracesIInv'
<1> DEFINE Rows == [st : {"none", "live", "marked", "confirmed"},
                    asker : BOOLEAN, quotes : SUBSET Quotable]
           Batches == [at : {"idle", "delete", "confirm"}, ids : SUBSET TraceIds]
           Drains == [at : {"idle", "search", "found"}, askers : SUBSET Persons,
                      of : SUBSET Persons, found : SUBSET TraceIds, started : Nat]
<1>0. /\ TraceTypes /\ PeopleStand /\ PassesStand /\ (\A t \in TraceIds : TraceStands(t))
      /\ drain \in Drains /\ flush \in [Flushers -> Batches] /\ row \in [TraceIds -> Rows]
      /\ kept \in [TraceIds -> {"none", "held", "deleting", "gone"}]
  BY DEF TracesIInv, TraceTypes
<1>a. NoTracePass \in Drains /\ NoFlush \in Batches
  BY DEF NoTracePass, NoFlush
<1>1. ASSUME ReadPendingDeletions PROVE TracesIInv'
  <2>0. UNCHANGED <<botVars, peopleVars, listed, restVars>>
    BY <1>1 DEF ReadPendingDeletions
  <2>1. CausesStay
    BY <2>0 DEF CausesStay, peopleVars, restVars
  <2>2. \A t \in TraceIds : TraceStands(t)'
    BY <2>0, <2>1, TracesRest
  <2>3. \/ drain' = NoTracePass /\ flush' = flush
        \/ /\ drain' = drain
           /\ \E S \in SUBSET Pending :
                flush' = [flush EXCEPT !["pass"] = [at |-> "delete", ids |-> S]]
    BY <1>1 DEF ReadPendingDeletions, kSubset
  <2>4. PeopleStand'
    BY <1>0, <2>0 DEF PeopleStand, peopleVars
  <2>5. CASE drain' = NoTracePass /\ flush' = flush
    <3>1. TraceTypes'
      BY <1>0, <1>a, <2>0, <2>5 DEF TraceTypes, botVars, peopleVars, restVars
    <3>2. PassesStand'
      BY <2>0, <2>1, <2>5, PassesFramed DEF botVars
    <3> QED BY <2>2, <2>4, <3>1, <3>2 DEF TracesIInv
  <2>6. CASE /\ drain' = drain
             /\ \E S \in SUBSET Pending :
                  flush' = [flush EXCEPT !["pass"] = [at |-> "delete", ids |-> S]]
    <3>1. PICK S \in SUBSET Pending : flush' = [flush EXCEPT !["pass"] = [at |-> "delete", ids |-> S]]
      BY <2>6
    <3>2. S \subseteq TraceIds /\ \A t \in S : row[t].st = "marked"
      BY DEF Pending
    <3>3. flush' \in [Flushers -> Batches]
          /\ \A f \in Flushers : flush'[f] = flush[f] \/ flush'[f].ids = S
      BY <1>0, <3>1, <3>2
    <3>4. TraceTypes'
      BY <1>0, <2>0, <2>6, <3>3 DEF TraceTypes, botVars, peopleVars, restVars
    <3>5. \A f \in Flushers : \A t \in flush'[f].ids : row'[t].st \in {"marked", "confirmed"}
      BY <1>0, <2>0, <3>2, <3>3 DEF PassesStand, botVars
    <3>6. PassesStand'
      BY <1>0, <2>0, <2>6, <3>5 DEF PassesStand, botVars, peopleVars, restVars
    <3> QED BY <2>2, <2>4, <3>4, <3>6 DEF TracesIInv
  <2> QED BY <2>3, <2>5, <2>6
<1>2. ASSUME NEW f \in Flushers, DeleteTraces(f) PROVE TracesIInv'
  <2>0. /\ kept' = [t \in TraceIds |-> IF t \in flush[f].ids /\ kept[t] = "held" THEN "deleting"
                                       ELSE kept[t]]
        /\ flush' = [flush EXCEPT ![f] = [@ EXCEPT !.at = "confirm"]]
        /\ UNCHANGED <<run, row, peopleVars, drain, listed, restVars>>
    BY <1>2 DEF DeleteTraces
  <2>1. CausesStay
    BY <2>0 DEF CausesStay, peopleVars, restVars
  <2>2. /\ kept' \in [TraceIds -> {"none", "held", "deleting", "gone"}]
        /\ \A t \in TraceIds : \/ kept'[t] = kept[t]
                               \/ t \in flush[f].ids /\ kept[t] = "held" /\ kept'[t] = "deleting"
    BY <2>0, <1>0
  <2>3. ASSUME NEW t \in TraceIds PROVE TraceStands(t)'
    <3>1. CASE kept'[t] = kept[t]
      BY <3>1, <2>0, <2>1, <1>0, TraceUntouched
    <3>2. CASE t \in flush[f].ids /\ kept[t] = "held" /\ kept'[t] = "deleting"
      <4>1. Caused(t)
        BY <3>2, <1>0 DEF PassesStand, TraceStands
      <4>2. Caused(t)'
        BY <4>1, <2>0, <2>1 DEF Caused, CausesStay
      <4> QED BY <3>2, <4>2, <2>0, <2>1, <1>0 DEF TraceStands, CausesStay
    <3> QED BY <3>1, <3>2, <2>2
  <2>4. /\ flush' \in [Flushers -> Batches]
        /\ \A g \in Flushers : flush'[g].ids = flush[g].ids
    BY <2>0, <1>0
  <2>5. TraceTypes' /\ PeopleStand'
    BY <1>0, <2>0, <2>2, <2>4 DEF TraceTypes, PeopleStand, peopleVars, restVars
  <2>6. PassesStand'
    <3>1. \A t \in TraceIds : kept[t] # "none" => kept'[t] # "none"
      BY <2>2
    <3>2. drain.found \subseteq TraceIds
      BY <1>0
    <3> QED BY <1>0, <2>0, <2>4, <3>1, <3>2 DEF PassesStand, peopleVars, restVars
  <2> QED BY <2>3, <2>5, <2>6 DEF TracesIInv
<1>3. ASSUME NEW f \in Flushers, ConfirmDeleted(f) PROVE TracesIInv'
  <2>0. /\ row' = [t \in TraceIds |-> IF t \in Unconfirmed(flush[f].ids) THEN ConfirmedRow(t)
                                      ELSE row[t]]
        /\ flush' = [flush EXCEPT ![f] = NoFlush] /\ drain' \in {drain, NoTracePass}
        /\ UNCHANGED <<run, kept, peopleVars, listed, restVars>>
    BY <1>3 DEF ConfirmDeleted
  <2>1. CausesStay
    BY <2>0 DEF CausesStay, peopleVars, restVars
  <2>2. ASSUME NEW t \in TraceIds
        PROVE  /\ ConfirmedRow(t) \in Rows /\ ConfirmedRow(t).st = "confirmed"
               /\ ConfirmedRow(t).asker = FALSE /\ ConfirmedRow(t).quotes = {}
    BY <1>0 DEF ConfirmedRow
  <2>3. row' \in [TraceIds -> Rows]
    BY <1>0, <2>0, <2>2
  <2>4. ASSUME NEW t \in TraceIds PROVE TraceStands(t)'
    <3>1. CASE t \notin Unconfirmed(flush[f].ids)
      BY <3>1, <2>0, <2>1, <1>0, TraceUntouched
    <3>2. CASE t \in Unconfirmed(flush[f].ids)
      <4>1. t \in flush[f].ids /\ row[t].st \in {"live", "marked"}
        BY <3>2 DEF Unconfirmed
      <4>2. Caused(t) /\ kept[t] # "none"
        BY <4>1, <1>0 DEF PassesStand, TraceStands
      <4>3. Caused(t)'
        BY <4>2, <2>0, <2>1 DEF Caused, CausesStay
      <4>4. row'[t] = ConfirmedRow(t)
        BY <3>2, <2>0
      <4>5. AskerOf[t] \in wasOut => AskerOf[t] \in wasOut'
        BY <2>1 DEF CausesStay
      <4> QED BY <4>2, <4>3, <4>4, <4>5, <2>0, <2>2, <1>0 DEF TraceStands
    <3> QED BY <3>1, <3>2
  <2>5. flush' \in [Flushers -> Batches] /\ drain' \in Drains
        /\ \A g \in Flushers : flush'[g] = flush[g] \/ flush'[g] = NoFlush
    BY <2>0, <1>0, <1>a
  <2>6. TraceTypes' /\ PeopleStand'
    BY <1>0, <2>0, <2>3, <2>5 DEF TraceTypes, PeopleStand, peopleVars, restVars
  <2>7. \A t \in TraceIds : row[t].st \in {"marked", "confirmed"} =>
                              row'[t].st \in {"marked", "confirmed"}
    BY <2>0, <2>2
  <2>8. PassesStand'
    BY <2>0, <2>1, <2>5, <2>7, PassesFramed
  <2> QED BY <2>4, <2>6, <2>8 DEF TracesIInv
<1>4. ASSUME NEW f \in Flushers, DeleteRefused(f) PROVE TracesIInv'
  <2>0. /\ flush' = [flush EXCEPT ![f] = NoFlush] /\ drain' \in {drain, NoTracePass}
        /\ UNCHANGED <<botVars, peopleVars, listed, old, outs, missed>>
    BY <1>4 DEF DeleteRefused
  <2>1. CausesStay
    BY <2>0 DEF CausesStay, peopleVars
  <2>2. \A t \in TraceIds : TraceStands(t)'
    BY <2>0, <2>1, TracesRest
  <2>3. flush' \in [Flushers -> Batches] /\ drain' \in Drains
        /\ \A g \in Flushers : flush'[g] = flush[g] \/ flush'[g] = NoFlush
    BY <2>0, <1>0, <1>a
  <2>4. TraceTypes' /\ PeopleStand'
    BY <1>0, <2>0, <2>3 DEF TraceTypes, PeopleStand, botVars, peopleVars
  <2>5. PassesStand'
    BY <2>0, <2>1, <2>3, PassesFramed DEF botVars
  <2> QED BY <2>2, <2>4, <2>5 DEF TracesIInv
<1>5. ASSUME IngestRestarts PROVE TracesIInv'
  <2>0. /\ flush' = [g \in Flushers |-> NoFlush] /\ drain' = NoTracePass
        /\ listed' = Unlisted /\ untold' = {} /\ (\A t \in missed : t \in missed')
        /\ UNCHANGED <<botVars, inCorpus, out, wasOut, search, old, outs>>
    BY <1>5 DEF IngestRestarts
  <2>1. CausesStay
    BY <2>0 DEF CausesStay
  <2>2. \A t \in TraceIds : TraceStands(t)'
    BY <2>0, <2>1, TracesRest
  <2>3. flush' \in [Flushers -> Batches] /\ drain' \in Drains
        /\ \A g \in Flushers : flush'[g] = NoFlush
    BY <2>0, <1>a
  <2>4. TraceTypes' /\ PeopleStand'
    BY <1>0, <2>0, <2>3 DEF TraceTypes, PeopleStand, botVars
  <2>5. PassesStand'
    BY <2>0, <2>1, <2>3, PassesFramed DEF botVars
  <2> QED BY <2>2, <2>4, <2>5 DEF TracesIInv
<1> QED BY <1>1, <1>2, <1>3, <1>4, <1>5 DEF FlushStep

LEMMA TracesStep == ASSUME TracesIInv, [TracesNext]_traceVars PROVE TracesIInv'
<1>1. CASE UNCHANGED traceVars
  <2>1. UNCHANGED <<botVars, peopleVars, ingestVars, restVars>>
    BY <1>1 DEF traceVars
  <2>2. CausesStay
    BY <2>1 DEF CausesStay, peopleVars, restVars
  <2>3. \A t \in TraceIds : TraceStands(t)'
    BY <2>1, <2>2, TracesRest
  <2>4. TraceTypes' /\ PeopleStand' /\ PassesStand'
    BY <2>1 DEF TracesIInv, TraceTypes, PeopleStand, PassesStand,
                botVars, peopleVars, ingestVars, restVars
  <2> QED BY <2>3, <2>4 DEF TracesIInv
<1>2. CASE TracesNext
  <2>1. CASE \E t \in TraceIds :
               \/ \E Q \in SUBSET Quotable : AnswerRun(t, Q)
               \/ BotStep(t) \/ PostFails(t) \/ ExportLost(t) \/ GrowOld(t) \/ TraceGone(t)
    BY <2>1, BotMoves, PassMoves
  <2>2. CASE \E m \in Quotable : DeleteMessage(m) \/ WithdrawMessageTraces(m) \/ DeletionUntold(m)
    BY <2>2, PeopleMove, MessageWithdrawn
  <2>3. CASE \E p \in Persons : ExcludePerson(p) \/ OptOutStep(p) \/ OptIn(p) \/ SearchDeferred(p)
    BY <2>3, PeopleMove, PersonWithdrawn, PassMoves DEF OptOutStep
  <2>4. CASE PassStep \/ RetentionStep
    BY <2>4, PassMoves, RecordsFound, Deletions DEF PassStep, RetentionStep
  <2>5. CASE \/ \E f \in Flushers : FlushStep(f) \/ DeleteRefused(f)
             \/ IngestRestarts
    BY <2>5, Deletions
  <2> QED BY <1>2, <2>1, <2>2, <2>3, <2>4, <2>5 DEF TracesNext
<1> QED BY <1>1, <1>2

LEMMA TracesMean == ASSUME TracesIInv PROVE TracesTypeOK /\ TracesInv
<1>1. TracesTypeOK
  <2>2. TraceTypes /\ PeopleStand /\ PassesStand /\ (\A t \in TraceIds : TraceStands(t))
    BY DEF TracesIInv
  <2>3. ASSUME NEW t \in TraceIds
        PROVE  /\ row[t].st \in {"none", "live", "marked", "confirmed"}
               /\ row[t].st # "none" => kept[t] # "none"
               /\ run[t].at \in {"none", "answered", "checked"} => kept[t] = "none"
    BY <2>2 DEF TraceTypes, TraceStands
  <2>4. \A f \in Flushers : \A t \in flush[f].ids : row[t].st \in {"marked", "confirmed"}
    BY <2>2 DEF PassesStand
  <2>5. \A p \in Persons : search[p] \in 0..outs /\ (search[p] # 0 => p \in wasOut)
    BY <2>2 DEF TraceTypes, PeopleStand
  <2> QED BY <2>3, <2>4, <2>5 DEF TracesTypeOK
<1>2. TracesInv
  <2>2. \A t \in TraceIds : TraceStands(t)
    BY DEF TracesIInv
  <2>3. DeletedForCause
    BY <2>2 DEF DeletedForCause, TraceStands, Caused
  <2>4. ConfirmedForgets
    BY <2>2 DEF ConfirmedForgets, TraceStands
  <2> QED BY <2>3, <2>4 DEF TracesInv
<1> QED BY <1>1, <1>2

(* A trace is deleted only when its asker or the author of something it      *)
(* quotes has been out, something it quotes was deleted, or it is past       *)
(* retention, and a confirmed deletion remembers neither who asked nor what  *)
(* was quoted, for any people, traces, batch and faults (request_deletion,   *)
(* drain_pending, CONFIRM_DELETED).                                          *)
THEOREM TracesGoForCause == TracesSpec => [](TracesTypeOK /\ TracesInv)
<1>1. TracesIInv => TracesTypeOK /\ TracesInv
  BY TracesMean
<1> QED BY <1>1, TracesInitially, TracesStep, PTL DEF TracesSpec

-----------------------------------------------------------------------------
(* Extraction                                                               *)

Revisions == [Posts -> Int]
Batches == [at : {"idle", "asks", "decisions", "withdraw", "mark"}, whole : SUBSET Posts,
            rev : Revisions, left : SUBSET Posts, now : Posts \cup {0},
            shown : [Posts -> SUBSET Posts], failed : SUBSET Posts]

ExtractionTypes ==
    /\ texts \in [Posts -> Seq(Contents)]
    /\ \A m \in Posts : Len(texts[m]) <= MaxRevision + 1
    /\ alive \subseteq Posts /\ queued \subseteq Posts /\ buffered \subseteq Posts
    /\ extractedAt \in Revisions /\ asksFrom \in Revisions
    /\ decision \in [Posts -> [rev : Int, rests : SUBSET Posts]]
    /\ batch \in [Passes -> Batches]
    /\ pass \in [left : SUBSET Posts, rev : Revisions]

(* A batch is taken up, worked through oldest first and given up whole.     *)
BatchShape(w) ==
    /\ batch[w].at = "idle" <=> batch[w].whole = {}
    /\ batch[w].left \cup batch[w].failed \subseteq batch[w].whole
    /\ batch[w].at = "asks" => batch[w].left # {}
    /\ batch[w].at = "decisions" => batch[w].now \in batch[w].left
    /\ batch[w].at \in {"withdraw", "mark"} => batch[w].left = {}
    /\ \A m \in batch[w].whole : batch[w].rev[m] \in 0 .. RevisionOf(m)

(* A message is in the live pass once, as it was captured, and in the       *)
(* backlog's once.                                                          *)
OncePerPass ==
    /\ queued \cap buffered = {} /\ (queued \cup buffered) \cap batch["live"].whole = {}
    /\ Cardinality(queued) <= MaxQueued
    /\ batch["backlog"].whole \cap pass.left = {}
    /\ \A m \in batch["live"].whole : batch["live"].rev[m] = 0
    /\ \A m \in pass.left : pass.rev[m] \in 0 .. RevisionOf(m)

(* The asks on record are those of the text there is.                       *)
RightAsks(m) == Candidate(m, RevisionOf(m)) => asksFrom[m] = AsksOfText(m)

(* Messages of a batch that are behind it: their asks are on record.        *)
Settled(w) ==
    ((batch[w].whole \ batch[w].left)
       \cup IF batch[w].at = "decisions" THEN {batch[w].now} ELSE {}) \ batch[w].failed

(* What is not astray was not edited under the live pass, so that whoever   *)
(* writes its asks while it is on record as read writes those of its text;  *)
(* what the backlog holds of an older revision is not on record as read.    *)
PostStands(m) ==
    /\ {extractedAt[m], asksFrom[m], decision[m].rev} \subseteq Never .. RevisionOf(m)
    /\ m \in alive \/ InHand(m) => texts[m] # <<>>
    /\ m \notin astray =>
         /\ m \in LiveSide => RevisionOf(m) = 0
         /\ texts[m] # <<>> /\ extractedAt[m] = RevisionOf(m) => RightAsks(m)
         /\ \A w \in Passes :
              m \in Settled(w) /\ batch[w].rev[m] = RevisionOf(m) => RightAsks(m)
         /\ (\/ m \in batch["backlog"].whole /\ batch["backlog"].rev[m] # RevisionOf(m)
             \/ m \in pass.left /\ pass.rev[m] # RevisionOf(m))
              => extractedAt[m] # RevisionOf(m)

ExtractionIInv ==
    /\ ExtractionTypes /\ (\A w \in Passes : BatchShape(w)) /\ OncePerPass
    /\ \A m \in Posts : PostStands(m)

LEMMA ExtractionNumbers ==
    /\ NumPosts \in Nat /\ MaxRevision \in Nat /\ MaxMishaps \in Nat
    /\ MaxQueued \in Nat /\ MaxQueued >= 1 /\ PerPass \in Nat /\ PerPass >= 1
    /\ BatchMessages \in Nat /\ BatchMessages >= 1
    /\ Posts = 1..NumPosts /\ 0 \notin Posts /\ Never = -1
<1>1. {NumPosts, MaxRevision, MaxDeleted, MaxResets, MaxMishaps} \subseteq Nat
  BY ExtractionAssumption
<1>2. {MaxQueued, PerPass, BatchMessages} \subseteq Nat \ {0}
  BY ExtractionAssumption
<1>3. NumPosts \in Nat /\ MaxRevision \in Nat /\ MaxMishaps \in Nat
  BY <1>1
<1>4. MaxQueued \in Nat \ {0} /\ PerPass \in Nat \ {0} /\ BatchMessages \in Nat \ {0}
  BY <1>2
<1> QED BY <1>3, <1>4 DEF Posts, Never

LEMMA LeastPost ==
    ASSUME NEW S, S \subseteq Posts, S # {}
    PROVE  Min(S) \in S /\ \A m \in S : Min(S) <= m
<1>1. \E m \in S : \A n \in S : m <= n
  BY LeastExists, ExtractionNumbers
<1> QED BY <1>1 DEF Min

LEMMA PostsFinite == ASSUME NEW S, S \subseteq Posts PROVE IsFiniteSet(S) /\ Cardinality(S) \in Nat
<1>1. IsFiniteSet(1..NumPosts) /\ S \in SUBSET (1..NumPosts)
  BY ExtractionNumbers, FS_Interval
<1> QED BY <1>1, FS_Subset, FS_CardinalityType

(* A text never grows shorter, and what it said at a revision it said.      *)
LEMMA TextIs ==
    ASSUME ExtractionTypes, NEW m \in Posts
    PROVE  /\ Len(texts[m]) \in Nat /\ RevisionOf(m) \in Int
           /\ texts[m] = <<>> <=> RevisionOf(m) = Never
           /\ texts[m] # <<>> <=> RevisionOf(m) >= 0
BY ExtractionNumbers DEF ExtractionTypes, RevisionOf

LEMMA PostFramed ==
    ASSUME NEW m \in Posts, PostStands(m),
           texts'[m] = texts[m], asksFrom'[m] = asksFrom[m], extractedAt'[m] = extractedAt[m],
           decision'[m].rev \in Never .. RevisionOf(m),
           (m \in alive \/ InHand(m))' => m \in alive \/ InHand(m),
           m \in astray => m \in astray',
           (m \in LiveSide)' => m \in LiveSide,
           \A w \in Passes : m \in Settled(w)' =>
              \/ m \in Settled(w) /\ batch'[w].rev[m] = batch[w].rev[m]
              \/ batch'[w].rev[m] = RevisionOf(m) => RightAsks(m),
           m \in batch'["backlog"].whole =>
              \/ /\ m \in batch["backlog"].whole
                 /\ batch'["backlog"].rev[m] = batch["backlog"].rev[m]
              \/ m \in pass.left /\ batch'["backlog"].rev[m] = pass.rev[m],
           m \in pass'.left =>
              \/ m \in pass.left /\ pass'.rev[m] = pass.rev[m]
              \/ pass'.rev[m] = RevisionOf(m)
    PROVE  PostStands(m)'
<1>1. RevisionOf(m)' = RevisionOf(m) /\ (RightAsks(m)' <=> RightAsks(m))
  BY DEF RevisionOf, RightAsks, Candidate, Says, AsksOfText
<1>2. {extractedAt[m], asksFrom[m], decision[m].rev}' \subseteq Never .. RevisionOf(m)'
  BY <1>1 DEF PostStands
<1>3. (m \in alive \/ InHand(m) => texts[m] # <<>>)'
  BY DEF PostStands
<1>4. SUFFICES ASSUME m \notin astray'
               PROVE  /\ (m \in LiveSide => RevisionOf(m) = 0)'
                      /\ (texts[m] # <<>> /\ extractedAt[m] = RevisionOf(m) => RightAsks(m))'
                      /\ \A w \in Passes :
                           (m \in Settled(w) /\ batch[w].rev[m] = RevisionOf(m) => RightAsks(m))'
                      /\ ((\/ m \in batch["backlog"].whole /\ batch["backlog"].rev[m] # RevisionOf(m)
                           \/ m \in pass.left /\ pass.rev[m] # RevisionOf(m))
                            => extractedAt[m] # RevisionOf(m))'
  BY <1>2, <1>3 DEF PostStands
<1>5. m \notin astray
  BY <1>4
<1>6. (m \in LiveSide => RevisionOf(m) = 0)'
  BY <1>1, <1>5 DEF PostStands
<1>7. (texts[m] # <<>> /\ extractedAt[m] = RevisionOf(m) => RightAsks(m))'
  BY <1>1, <1>5 DEF PostStands
<1>8. ASSUME NEW w \in Passes
      PROVE  (m \in Settled(w) /\ batch[w].rev[m] = RevisionOf(m) => RightAsks(m))'
  BY <1>1, <1>5 DEF PostStands
<1>9. ((\/ m \in batch["backlog"].whole /\ batch["backlog"].rev[m] # RevisionOf(m)
        \/ m \in pass.left /\ pass.rev[m] # RevisionOf(m))
         => extractedAt[m] # RevisionOf(m))'
  BY <1>1, <1>5 DEF PostStands
<1> QED BY <1>6, <1>7, <1>8, <1>9

(* A message that a step in the channel, or a write, is not about.          *)
LEMMA PostRest ==
    ASSUME NEW m \in Posts, PostStands(m),
           texts'[m] = texts[m], asksFrom'[m] = asksFrom[m], extractedAt'[m] = extractedAt[m],
           decision'[m].rev \in Never .. RevisionOf(m),
           m \in alive' => m \in alive, m \in astray => m \in astray', m \in queued' => m \in queued,
           UNCHANGED <<buffered, batch, pass>>
    PROVE  PostStands(m)'
<1>1. (m \in LiveSide)' => m \in LiveSide
  BY DEF LiveSide
<1>2. (m \in alive \/ InHand(m))' => m \in alive \/ InHand(m)
  BY <1>1 DEF InHand
<1>3. \A w \in Passes : m \in Settled(w)' => m \in Settled(w)
  BY DEF Settled
<1> QED BY <1>1, <1>2, <1>3, PostFramed

LEMMA ShapeRest ==
    ASSUME ExtractionTypes, NEW w \in Passes, BatchShape(w), batch'[w] = batch[w],
           \A m \in Posts : RevisionOf(m) \in Int /\ RevisionOf(m)' \in Int
                              /\ RevisionOf(m) <= RevisionOf(m)'
    PROVE  BatchShape(w)'
<1>1. \A m \in batch[w].whole : m \in Posts
  BY DEF ExtractionTypes, Batches
<1>2. ASSUME NEW m \in batch[w].whole PROVE batch[w].rev[m] \in 0 .. RevisionOf(m)'
  <2>1. batch[w].rev[m] \in 0 .. RevisionOf(m)
    BY <1>2 DEF BatchShape
  <2> QED BY <1>1, <2>1
<1> QED BY <1>2 DEF BatchShape

LEMMA ExtractionInitially == ASSUME ExtractionInit PROVE ExtractionIInv
<1> USE ExtractionNumbers
<1>1. NoBatch \in Batches /\ NoPass \in [left : SUBSET Posts, rev : Revisions]
      /\ NoRevisions \in Revisions
  BY DEF NoBatch, Batches, NoPass, Revisions, NoRevisions
<1>2. ExtractionTypes
  <2>1. texts \in [Posts -> Seq(Contents)] /\ \A m \in Posts : Len(texts[m]) = 0
    BY DEF ExtractionInit
  <2>2. decision \in [Posts -> [rev : Int, rests : SUBSET Posts]]
    BY DEF ExtractionInit, NoDecision
  <2> QED BY <1>1, <2>1, <2>2 DEF ExtractionInit, ExtractionTypes
<1>3. \A w \in Passes : BatchShape(w)
  BY DEF ExtractionInit, BatchShape, NoBatch
<1>4. OncePerPass
  <2>1. Cardinality({}) = 0
    BY FS_EmptySet
  <2>2. /\ queued = {} /\ buffered = {} /\ pass.left = {}
        /\ batch["live"].whole = {} /\ batch["backlog"].whole = {}
    BY DEF ExtractionInit, NoBatch, NoPass, Passes
  <2> QED BY <2>1, <2>2 DEF OncePerPass
<1>5. ASSUME NEW m \in Posts PROVE PostStands(m)
  <2>1. texts[m] = <<>> /\ RevisionOf(m) = -1
    BY DEF ExtractionInit, RevisionOf
  <2>2. extractedAt[m] = -1 /\ asksFrom[m] = -1 /\ decision[m].rev = -1
    BY DEF ExtractionInit, NoRevisions, NoDecision
  <2>3. {extractedAt[m], asksFrom[m], decision[m].rev} \subseteq Never .. RevisionOf(m)
    BY <2>1, <2>2
  <2>4. m \notin LiveSide /\ m \notin batch["backlog"].whole /\ m \notin pass.left /\ m \notin alive
    BY DEF ExtractionInit, LiveSide, NoBatch, NoPass, Passes
  <2>5. \A w \in Passes : m \notin Settled(w)
    BY DEF ExtractionInit, Settled, NoBatch
  <2> QED BY <2>1, <2>3, <2>4, <2>5 DEF PostStands, InHand
<1> QED BY <1>2, <1>3, <1>4, <1>5 DEF ExtractionIInv

(* A message of the channel: captured, imported, edited, deleted.           *)
LEMMA PostArrives ==
    ASSUME ExtractionIInv, NEW m \in Posts, NEW says \in Contents,
           CaptureText(m, says) \/ Import(m, says)
    PROVE  ExtractionIInv'
<1> USE ExtractionNumbers
<1>0. /\ ExtractionTypes /\ (\A w \in Passes : BatchShape(w)) /\ OncePerPass
      /\ \A k \in Posts : PostStands(k)
  BY DEF ExtractionIInv
<1>1. /\ texts[m] = <<>> /\ texts' = [texts EXCEPT ![m] = <<says>>] /\ alive' = alive \cup {m}
      /\ queued' \in {queued, queued \cup {m}}
      /\ queued' # queued => Cardinality(queued) < MaxQueued
      /\ UNCHANGED <<readVars, buffered, batch, pass, astray>>
  BY DEF CaptureText, Import, Arrives, liveVars
<1>2. /\ texts' \in [Posts -> Seq(Contents)] /\ texts'[m] = <<says>> /\ Len(texts'[m]) = 1
      /\ \A k \in Posts \ {m} : texts'[k] = texts[k]
  BY <1>0, <1>1 DEF ExtractionTypes
<1>3. /\ RevisionOf(m) = -1 /\ RevisionOf(m)' = 0 /\ texts'[m] # <<>>
      /\ \A k \in Posts \ {m} : RevisionOf(k)' = RevisionOf(k)
  <2>1. Len(<<says>>) = 1 /\ <<says>> # <<>> /\ Len(texts[m]) = 0
    BY <1>1
  <2> QED BY <1>2, <2>1 DEF RevisionOf
<1>4. ExtractionTypes'
  <2>1. ASSUME NEW k \in Posts PROVE Len(texts'[k]) <= MaxRevision + 1
    <3>1. CASE k = m
      BY <3>1, <1>2
    <3>2. CASE k # m
      BY <3>2, <1>0, <1>2 DEF ExtractionTypes
    <3> QED BY <3>1, <3>2
  <2> QED BY <1>0, <1>1, <1>2, <2>1 DEF ExtractionTypes, readVars
<1>5. \A w \in Passes : BatchShape(w)'
  <2>1. \A k \in Posts : RevisionOf(k) \in Int /\ RevisionOf(k)' \in Int /\ RevisionOf(k) <= RevisionOf(k)'
    BY <1>0, <1>3, TextIs
  <2> QED BY <1>0, <1>1, <2>1, ShapeRest
<1>6. ~InHand(m)
  BY <1>0, <1>1 DEF PostStands
<1>7. OncePerPass'
  <2>1. Cardinality(queued') <= MaxQueued
    <3>1. IsFiniteSet(queued) /\ Cardinality(queued) \in Nat
      BY <1>0, PostsFinite DEF ExtractionTypes
    <3>2. Cardinality(queued \cup {m}) <= Cardinality(queued) + 1
          /\ Cardinality(queued \cup {m}) \in Nat
      <4>1. queued \cup {m} \subseteq Posts
        BY <1>0 DEF ExtractionTypes
      <4>2. Cardinality(queued \cup {m}) \in Nat
        BY <4>1, PostsFinite
      <4>3. Cardinality(queued \cup {m}) =
              IF m \in queued THEN Cardinality(queued) ELSE Cardinality(queued) + 1
        BY <3>1, FS_AddElement
      <4> QED BY <3>1, <4>2, <4>3
    <3>3. Cardinality(queued) <= MaxQueued
      BY <1>0 DEF OncePerPass
    <3>4. CASE queued' = queued
      BY <3>3, <3>4
    <3>5. CASE queued' = queued \cup {m} /\ Cardinality(queued) < MaxQueued
      BY <3>1, <3>2, <3>5
    <3> QED BY <1>1, <3>4, <3>5
  <2>2. /\ queued' \cap buffered = {} /\ (queued' \cup buffered) \cap batch["live"].whole = {}
    BY <1>0, <1>1, <1>6 DEF OncePerPass, InHand, LiveSide
  <2>3. \A k \in pass.left : pass.rev[k] \in 0 .. RevisionOf(k)'
    <3>1. \A k \in pass.left : k \in Posts \ {m}
      BY <1>0, <1>6 DEF ExtractionTypes, InHand
    <3> QED BY <1>0, <1>3, <3>1 DEF OncePerPass
  <2> QED BY <1>0, <1>1, <2>1, <2>2, <2>3 DEF OncePerPass
<1>8. ASSUME NEW k \in Posts \ {m} PROVE PostStands(k)'
  <2>1. decision'[k].rev \in Never .. RevisionOf(k)
    BY <1>0, <1>1 DEF PostStands, readVars
  <2> QED BY <1>0, <1>1, <1>2, <2>1, PostRest DEF readVars
<1>9. PostStands(m)'
  <2>1. {extractedAt[m], asksFrom[m], decision[m].rev} \subseteq -1 .. -1
    BY <1>0, <1>3 DEF PostStands
  <2>2. extractedAt'[m] = -1 /\ asksFrom'[m] = -1 /\ decision'[m].rev = -1
    BY <2>1, <1>1 DEF readVars
  <2>3. {extractedAt[m], asksFrom[m], decision[m].rev}' \subseteq Never .. RevisionOf(m)'
    BY <2>2, <1>3
  <2>4. m \notin batch'["backlog"].whole /\ m \notin pass'.left
    BY <1>1, <1>6 DEF InHand
  <2>5. \A w \in Passes : m \notin Settled(w)'
    <3>1. ASSUME NEW w \in Passes, m \in Settled(w)' PROVE FALSE
      <4>1. m \in batch[w].whole
        BY <1>0, <1>1, <3>1 DEF Settled, BatchShape
      <4> QED BY <4>1, <1>6 DEF InHand, LiveSide, Passes
    <3> QED BY <3>1
  <2> QED BY <1>3, <2>2, <2>3, <2>4, <2>5 DEF PostStands
<1> QED BY <1>4, <1>5, <1>7, <1>8, <1>9 DEF ExtractionIInv

LEMMA PostEdited ==
    ASSUME ExtractionIInv, NEW m \in Posts, NEW says \in Contents, EditPost(m, says)
    PROVE  ExtractionIInv'
<1> USE ExtractionNumbers
<1>0. /\ ExtractionTypes /\ (\A w \in Passes : BatchShape(w)) /\ OncePerPass
      /\ \A k \in Posts : PostStands(k)
  BY DEF ExtractionIInv
<1>1. /\ RevisionOf(m) < MaxRevision /\ texts' = [texts EXCEPT ![m] = Append(texts[m], says)]
      /\ astray' = IF m \in LiveSide THEN astray \cup {m}
                   ELSE {k \in astray : k # m \/ InHand(k)}
      /\ UNCHANGED <<alive, oldEnough, readVars, liveVars, batch, pass>>
      /\ m \in alive
  BY DEF EditPost
<1>2. /\ texts[m] \in Seq(Contents) /\ texts'[m] = Append(texts[m], says)
      /\ \A k \in Posts \ {m} : texts'[k] = texts[k]
  BY <1>0, <1>1 DEF ExtractionTypes
<1>3. /\ Append(texts[m], says) \in Seq(Contents)
      /\ Len(Append(texts[m], says)) = Len(texts[m]) + 1 /\ Len(texts[m]) \in Nat
  BY <1>2
<1>4. /\ RevisionOf(m) \in Int /\ RevisionOf(m)' = RevisionOf(m) + 1 /\ RevisionOf(m) >= 0
      /\ Len(texts'[m]) <= MaxRevision + 1
      /\ \A k \in Posts \ {m} : RevisionOf(k)' = RevisionOf(k)
  <2>1. texts[m] # <<>>
    BY <1>0, <1>1 DEF PostStands
  <2>2. RevisionOf(m) \in Int /\ RevisionOf(m) >= 0
    BY <1>0, <2>1, TextIs
  <2>3. RevisionOf(m)' = RevisionOf(m) + 1 /\ Len(texts'[m]) <= MaxRevision + 1
    BY <1>1, <1>2, <1>3 DEF RevisionOf
  <2> QED BY <1>2, <2>2, <2>3 DEF RevisionOf
<1>5. ExtractionTypes'
  <2>1. texts' \in [Posts -> Seq(Contents)]
    BY <1>0, <1>1, <1>3 DEF ExtractionTypes
  <2>2. ASSUME NEW k \in Posts PROVE Len(texts'[k]) <= MaxRevision + 1
    <3>1. CASE k = m
      BY <3>1, <1>4
    <3>2. CASE k # m
      BY <3>2, <1>0, <1>2 DEF ExtractionTypes
    <3> QED BY <3>1, <3>2
  <2> QED BY <1>0, <1>1, <2>1, <2>2 DEF ExtractionTypes, readVars, liveVars
<1>6. \A w \in Passes : BatchShape(w)'
  <2>1. \A k \in Posts : RevisionOf(k) \in Int /\ RevisionOf(k)' \in Int /\ RevisionOf(k) <= RevisionOf(k)'
    BY <1>0, <1>4, TextIs, SMTT(30)
  <2> QED BY <1>0, <1>1, <2>1, ShapeRest
<1>7. OncePerPass'
  <2>1. ASSUME NEW k \in pass.left PROVE pass.rev[k] \in 0 .. RevisionOf(k)'
    <3>1. k \in Posts /\ pass.rev[k] \in 0 .. RevisionOf(k)
      BY <1>0 DEF OncePerPass, ExtractionTypes
    <3>2. CASE k = m
      BY <3>1, <3>2, <1>4
    <3>3. CASE k # m
      BY <3>1, <3>3, <1>4
    <3> QED BY <3>2, <3>3
  <2> QED BY <1>0, <1>1, <2>1 DEF OncePerPass, liveVars
<1>8. ASSUME NEW k \in Posts \ {m} PROVE PostStands(k)'
  <2>1. decision'[k].rev \in Never .. RevisionOf(k)
    BY <1>0, <1>1 DEF PostStands, readVars
  <2>2. k \in astray => k \in astray'
    BY <1>1
  <2> QED BY <1>0, <1>1, <1>2, <2>1, <2>2, PostRest DEF readVars, liveVars
<1>9. PostStands(m)'
  <2>1. /\ extractedAt[m] \in Never .. RevisionOf(m) /\ asksFrom[m] \in Never .. RevisionOf(m)
        /\ decision[m].rev \in Never .. RevisionOf(m)
    BY <1>0 DEF PostStands
  <2>2. {extractedAt[m], asksFrom[m], decision[m].rev}' \subseteq Never .. RevisionOf(m)'
    <3>1. UNCHANGED <<extractedAt, asksFrom, decision>>
      BY <1>1 DEF readVars
    <3>2. \A n \in Never .. RevisionOf(m) : n \in Never .. RevisionOf(m)'
      BY <1>4
    <3> QED BY <2>1, <3>1, <3>2
  <2>3. texts'[m] # <<>>
    <3>1. Len(texts'[m]) # 0
      BY <1>2, <1>3
    <3> QED BY <3>1
  <2>4. extractedAt'[m] # RevisionOf(m)'
    BY <1>1, <1>4, <2>1 DEF readVars
  <2>5. m \notin astray' => m \notin LiveSide'
    BY <1>1 DEF LiveSide, liveVars
  <2>6. ASSUME NEW w \in Passes, m \in Settled(w)' PROVE batch'[w].rev[m] # RevisionOf(m)'
    <3>1. m \in batch[w].whole
      BY <1>0, <1>1, <2>6 DEF Settled, BatchShape
    <3>2. batch[w].rev[m] \in 0 .. RevisionOf(m)
      BY <1>0, <3>1 DEF BatchShape
    <3> QED BY <1>1, <1>4, <3>2
  <2> QED BY <2>2, <2>3, <2>4, <2>5, <2>6 DEF PostStands
<1> QED BY <1>5, <1>6, <1>7, <1>8, <1>9 DEF ExtractionIInv

LEMMA ChannelGoesOn ==
    ASSUME ExtractionIInv,
           \/ \E m \in Posts : GrowsOld(m) \/ TombstonePost(m) \/ WithdrawMessage(m)
           \/ ResetExtraction
           \/ UNCHANGED extractionVars
    PROVE  ExtractionIInv'
<1> USE ExtractionNumbers
<1>0. /\ ExtractionTypes /\ (\A w \in Passes : BatchShape(w)) /\ OncePerPass
      /\ \A k \in Posts : PostStands(k)
      /\ decision \in [Posts -> [rev : Int, rests : SUBSET Posts]]
  BY DEF ExtractionIInv, ExtractionTypes
<1>1. ASSUME UNCHANGED <<texts, queued, buffered, batch, pass>>, alive' \subseteq alive,
             extractedAt' \in Revisions, asksFrom' \in Revisions,
             decision' \in [Posts -> [rev : Int, rests : SUBSET Posts]],
             \A k \in Posts : PostStands(k)'
      PROVE  ExtractionIInv'
  <2>1. ExtractionTypes'
    BY <1>0, <1>1 DEF ExtractionTypes
  <2>2. \A k \in Posts : RevisionOf(k) \in Int /\ RevisionOf(k)' = RevisionOf(k)
    BY <1>0, <1>1, TextIs DEF RevisionOf
  <2>3. \A w \in Passes : BatchShape(w)'
    <3>1. \A k \in Posts : RevisionOf(k) \in Int /\ RevisionOf(k)' \in Int /\ RevisionOf(k) <= RevisionOf(k)'
      BY <2>2
    <3> QED BY <1>0, <1>1, <3>1, ShapeRest
  <2>4. OncePerPass'
    <3>1. \A k \in pass.left : k \in Posts
      BY <1>0 DEF ExtractionTypes
    <3> QED BY <1>0, <1>1, <2>2, <3>1 DEF OncePerPass
  <2> QED BY <1>1, <2>1, <2>3, <2>4 DEF ExtractionIInv
<1>2. ASSUME UNCHANGED <<texts, extractedAt, asksFrom, queued, buffered, batch, pass, astray>>,
             alive' \subseteq alive,
             decision' \in [Posts -> [rev : Int, rests : SUBSET Posts]],
             \A k \in Posts : decision'[k] = decision[k] \/ decision'[k].rev = Never
      PROVE  ExtractionIInv'
  <2>1. ASSUME NEW k \in Posts PROVE PostStands(k)'
    <3>1. decision[k].rev \in Never .. RevisionOf(k) /\ RevisionOf(k) \in Int
      BY <1>0, TextIs DEF PostStands
    <3>2. decision'[k].rev \in Never .. RevisionOf(k)
      BY <1>2, <3>1
    <3> QED BY <1>0, <1>2, <3>2, PostRest
  <2>2. extractedAt \in Revisions /\ asksFrom \in Revisions
    BY <1>0 DEF ExtractionTypes
  <2> QED BY <1>1, <1>2, <2>1, <2>2
<1>3. ASSUME NEW m \in Posts, GrowsOld(m) \/ TombstonePost(m) PROVE ExtractionIInv'
  <2>1. /\ UNCHANGED <<texts, extractedAt, asksFrom, queued, buffered, batch, pass, astray>>
        /\ alive' \subseteq alive /\ decision' = decision
    BY <1>3 DEF GrowsOld, TombstonePost, readVars, liveVars
  <2> QED BY <1>0, <1>2, <2>1
<1>4. ASSUME NEW m \in Posts, WithdrawMessage(m) PROVE ExtractionIInv'
  <2>1. /\ UNCHANGED <<texts, extractedAt, asksFrom, queued, buffered, batch, pass, astray>>
        /\ alive' \subseteq alive
        /\ decision' = [d \in Posts |-> IF m \in decision[d].rests THEN NoDecision ELSE decision[d]]
    BY <1>4 DEF WithdrawMessage, channelVars, liveVars
  <2>2. NoDecision \in [rev : Int, rests : SUBSET Posts] /\ NoDecision.rev = Never
    BY DEF NoDecision
  <2>3. /\ decision' \in [Posts -> [rev : Int, rests : SUBSET Posts]]
        /\ \A k \in Posts : decision'[k] = decision[k] \/ decision'[k].rev = Never
    BY <1>0, <2>1, <2>2
  <2> QED BY <1>2, <2>1, <2>3
<1>5. ASSUME UNCHANGED extractionVars PROVE ExtractionIInv'
  <2>1. /\ UNCHANGED <<texts, extractedAt, asksFrom, queued, buffered, batch, pass, astray>>
        /\ alive' \subseteq alive /\ decision' = decision
    BY <1>5 DEF extractionVars, channelVars, readVars, liveVars
  <2> QED BY <1>0, <1>2, <2>1
<1>6. ASSUME ResetExtraction PROVE ExtractionIInv'
  <2>0. PICK S : S = {m \in alive : Says(m, RevisionOf(m)) = "decision" /\ ~ExtractionPending(m)}
    OBVIOUS
  <2>1. /\ extractedAt' = [m \in Posts |-> IF m \in S THEN Never ELSE extractedAt[m]]
        /\ astray' = {m \in astray : m \notin S \/ InHand(m)}
        /\ UNCHANGED <<channelVars, asksFrom, decision, liveVars, batch, pass>>
    BY <1>6, <2>0 DEF ResetExtraction
  <2>2. UNCHANGED <<texts, alive, queued, buffered, batch, pass, asksFrom, decision>>
    BY <2>1 DEF channelVars, liveVars
  <2>3. extractedAt' \in Revisions /\ asksFrom \in Revisions
    BY <1>0, <2>1, SMTT(30) DEF ExtractionTypes, Revisions
  <2>4. S \subseteq alive
    BY <2>0
  <2>5. ASSUME NEW k \in Posts, k \notin S PROVE PostStands(k)'
    <3>1. extractedAt'[k] = extractedAt[k] /\ (k \in astray => k \in astray')
      BY <2>1, <2>5
    <3>2. decision'[k].rev \in Never .. RevisionOf(k)
      BY <1>0, <2>2 DEF PostStands
    <3> QED BY <1>0, <2>2, <3>1, <3>2, PostRest
  <2>6. ASSUME NEW k \in Posts, k \in S PROVE PostStands(k)'
    <3>1. extractedAt'[k] = -1
      BY <2>1, <2>6
    <3>2. texts[k] # <<>> /\ RevisionOf(k) >= 0 /\ RevisionOf(k) \in Int
      BY <1>0, <2>4, <2>6, TextIs DEF PostStands
    <3>3. RevisionOf(k)' = RevisionOf(k) /\ (RightAsks(k)' <=> RightAsks(k))
      BY <2>2 DEF RevisionOf, RightAsks, Candidate, Says, AsksOfText
    <3>4. asksFrom[k] \in Never .. RevisionOf(k) /\ decision[k].rev \in Never .. RevisionOf(k)
      BY <1>0 DEF PostStands
    <3>5. {extractedAt[k], asksFrom[k], decision[k].rev}' \subseteq Never .. RevisionOf(k)'
      BY <2>2, <3>1, <3>2, <3>3, <3>4
    <3>6. /\ (k \in LiveSide)' <=> k \in LiveSide
          /\ \A w \in Passes : k \in Settled(w)' <=> k \in Settled(w)
      BY <2>2 DEF LiveSide, Settled
    <3>7. \A w \in Passes : k \in Settled(w) => k \in batch[w].whole
      BY <1>0 DEF Settled, BatchShape
    <3>8. CASE k \in astray
      <4>1. k \notin astray' => ~InHand(k)
        BY <2>1, <3>8
      <4>2. k \notin astray' => \A w \in Passes : k \notin Settled(w)
        BY <3>7, <4>1 DEF InHand, LiveSide, Passes
      <4> QED BY <2>2, <3>1, <3>2, <3>3, <3>5, <3>6, <4>1, <4>2 DEF PostStands, InHand
    <3>9. CASE k \notin astray
      <4>1. /\ k \in LiveSide => RevisionOf(k) = 0
            /\ \A w \in Passes :
                 k \in Settled(w) /\ batch[w].rev[k] = RevisionOf(k) => RightAsks(k)
        BY <1>0, <3>9 DEF PostStands
      <4> QED BY <2>2, <3>1, <3>2, <3>3, <3>5, <3>6, <4>1 DEF PostStands
    <3> QED BY <3>8, <3>9
  <2> QED BY <1>0, <1>1, <2>2, <2>3, <2>5, <2>6
<1> QED BY <1>3, <1>4, <1>5, <1>6

(* Work changes hands while texts and records stay.                         *)
LEMMA WorkMoves ==
    ASSUME ExtractionIInv, UNCHANGED <<texts, alive, extractedAt, asksFrom>>,
           decision' \in [Posts -> [rev : Int, rests : SUBSET Posts]],
           \A k \in Posts : decision'[k].rev \in Never .. RevisionOf(k),
           queued' \subseteq Posts, buffered' \subseteq Posts,
           batch' \in [Passes -> Batches], pass' \in [left : SUBSET Posts, rev : Revisions],
           \A w \in Passes : BatchShape(w)', OncePerPass',
           \A k \in astray : k \in astray',
           \A k \in Posts : (k \in LiveSide)' => k \in LiveSide,
           \A k \in Posts : \A w \in Passes : k \in Settled(w)' =>
              \/ k \in Settled(w) /\ batch'[w].rev[k] = batch[w].rev[k]
              \/ batch'[w].rev[k] = RevisionOf(k) => RightAsks(k),
           \A k \in Posts : k \in batch'["backlog"].whole =>
              \/ /\ k \in batch["backlog"].whole
                 /\ batch'["backlog"].rev[k] = batch["backlog"].rev[k]
              \/ k \in pass.left /\ batch'["backlog"].rev[k] = pass.rev[k],
           \A k \in Posts : k \in pass'.left =>
              \/ k \in pass.left /\ pass'.rev[k] = pass.rev[k]
              \/ k \in alive /\ pass'.rev[k] = RevisionOf(k)
    PROVE  ExtractionIInv'
<1>1. ExtractionTypes'
  BY DEF ExtractionIInv, ExtractionTypes
<1>2. ASSUME NEW k \in Posts PROVE PostStands(k)'
  <2>1. PostStands(k)
    BY DEF ExtractionIInv
  <2>2. (k \in alive \/ InHand(k))' => k \in alive \/ InHand(k)
    BY DEF InHand
  <2> QED BY <2>1, <2>2, PostFramed
<1> QED BY <1>1, <1>2 DEF ExtractionIInv

LEMMA NothingInHand ==
    /\ NoBatch \in Batches /\ NoBatch.at = "idle" /\ NoBatch.whole = {} /\ NoBatch.left = {}
    /\ NoBatch.failed = {}
    /\ NoPass \in [left : SUBSET Posts, rev : Revisions] /\ NoPass.left = {}
BY ExtractionNumbers DEF NoBatch, Batches, NoPass, Revisions, NoRevisions

CandidatesOf(whole, rev) == {m \in whole : Candidate(m, rev[m])}

LEMMA TakenIs ==
    ASSUME NEW whole, NEW rev, NEW shown, NEW b, b = Taken(whole, rev, shown)
    PROVE  /\ b.whole = whole /\ b.rev = rev /\ b.failed = {} /\ b.left = CandidatesOf(whole, rev)
           /\ b.at = IF b.left = {} THEN "withdraw" ELSE "asks"
           /\ whole \subseteq Posts /\ rev \in Revisions /\ shown \in [Posts -> SUBSET Posts]
                => b \in Batches
<1> DEFINE left == CandidatesOf(whole, rev)
<1>1. left \subseteq whole
  BY DEF CandidatesOf
<1>2. b = [NoBatch EXCEPT !.at = IF left = {} THEN "withdraw" ELSE "asks",
                          !.whole = whole, !.rev = rev, !.left = left, !.shown = shown]
  BY DEF Taken, CandidatesOf
<1> HIDE DEF left
<1>3. NoBatch = [at |-> "idle", whole |-> {}, rev |-> NoRevisions, left |-> {}, now |-> 0,
                 shown |-> [m \in Posts |-> {}], failed |-> {}]
  BY DEF NoBatch
<1>4. b = [at |-> IF left = {} THEN "withdraw" ELSE "asks", whole |-> whole, rev |-> rev,
           left |-> left, now |-> 0, shown |-> shown, failed |-> {}]
  BY <1>2, <1>3
<1>5. whole \subseteq Posts /\ rev \in Revisions /\ shown \in [Posts -> SUBSET Posts]
        => b \in Batches
  BY <1>1, <1>4 DEF Batches
<1>6. /\ b.whole = whole /\ b.rev = rev /\ b.failed = {} /\ b.left = left
      /\ b.at = IF left = {} THEN "withdraw" ELSE "asks"
  BY <1>4
<1> QED BY <1>5, <1>6 DEF left

LEMMA TakenType ==
    ASSUME NEW whole, whole \subseteq Posts, NEW rev \in Revisions, NEW shown \in [Posts -> SUBSET Posts],
           NEW b, b = Taken(whole, rev, shown)
    PROVE  b \in Batches /\ b.whole = whole /\ b.rev = rev
<1>1. b \in Batches
  BY TakenIs
<1>2. b.whole = whole /\ b.rev = rev
  BY TakenIs
<1> QED BY <1>1, <1>2

(* A batch that was just taken up stands, and what is behind it was left    *)
(* out as chatter.                                                          *)
LEMMA TakenStands ==
    ASSUME NEW w \in Passes, NEW whole, whole \subseteq Posts, whole # {}, NEW rev, NEW shown,
           \A m \in whole : rev[m] \in 0 .. RevisionOf(m), texts' = texts,
           batch'[w] = Taken(whole, rev, shown)
    PROVE  /\ BatchShape(w)'
           /\ \A m \in Posts : m \in Settled(w)' /\ batch'[w].rev[m] = RevisionOf(m)
                              => RightAsks(m)
<1>1. PICK b : b = Taken(whole, rev, shown)
  OBVIOUS
<1>2. /\ b.whole = whole /\ b.rev = rev /\ b.failed = {} /\ b.left = CandidatesOf(whole, rev)
      /\ b.at = IF b.left = {} THEN "withdraw" ELSE "asks"
  BY <1>1, TakenIs
<1>3. batch'[w] = b
  BY <1>1
<1>4. \A m \in Posts : RevisionOf(m)' = RevisionOf(m)
  BY DEF RevisionOf
<1>5. BatchShape(w)'
  BY <1>2, <1>3, <1>4 DEF BatchShape, CandidatesOf
<1>6. ASSUME NEW m \in Posts, m \in Settled(w)', batch'[w].rev[m] = RevisionOf(m)
      PROVE  RightAsks(m)
  <2>1. batch'[w].at # "decisions"
    BY <1>2, <1>3
  <2>2. m \in whole /\ ~Candidate(m, rev[m])
    BY <1>2, <1>3, <1>6, <2>1 DEF Settled, CandidatesOf
  <2> QED BY <1>2, <1>3, <1>6, <2>2 DEF RightAsks
<1> QED BY <1>5, <1>6

(* One worker goes on with its batch, or gives it up.                       *)
LEMMA BatchMoves ==
    ASSUME ExtractionIInv, NEW w \in Passes, NEW b, b \in Batches,
           batch' = [batch EXCEPT ![w] = b],
           UNCHANGED <<texts, alive, extractedAt, asksFrom, queued, buffered, pass, astray>>,
           decision' \in [Posts -> [rev : Int, rests : SUBSET Posts]],
           \A k \in Posts : decision'[k].rev \in Never .. RevisionOf(k),
           b.whole = {} \/ (b.whole = batch[w].whole /\ b.rev = batch[w].rev),
           b.at = "idle" <=> b.whole = {},
           b.left \cup b.failed \subseteq b.whole,
           b.at = "asks" => b.left # {},
           b.at = "decisions" => b.now \in b.left,
           b.at \in {"withdraw", "mark"} => b.left = {},
           \A k \in (b.whole \ b.left) \cup (IF b.at = "decisions" THEN {b.now} ELSE {}) :
              k \in b.failed \/ k \in Settled(w)
    PROVE  ExtractionIInv'
<1>0. /\ ExtractionTypes /\ (\A v \in Passes : BatchShape(v)) /\ OncePerPass
      /\ batch \in [Passes -> Batches]
  BY DEF ExtractionIInv, ExtractionTypes
<1>1. batch'[w] = b /\ \A v \in Passes \ {w} : batch'[v] = batch[v]
  BY <1>0
<1>2. batch' \in [Passes -> Batches]
  BY <1>0
<1>3. \A k \in Posts : RevisionOf(k)' = RevisionOf(k) /\ RevisionOf(k) \in Int
  BY <1>0, TextIs DEF RevisionOf
<1>4. BatchShape(w)'
  <2>1. \A k \in b.whole : k \in Posts /\ b.rev[k] \in 0 .. RevisionOf(k)
    BY <1>0 DEF BatchShape, Batches
  <2> QED BY <1>1, <1>3, <2>1 DEF BatchShape
<1>5. ASSUME NEW v \in Passes \ {w} PROVE BatchShape(v)'
  <2>1. \A k \in Posts : RevisionOf(k) \in Int /\ RevisionOf(k)' \in Int
                           /\ RevisionOf(k) <= RevisionOf(k)'
    BY <1>3
  <2> QED BY <1>0, <1>1, <2>1, ShapeRest
<1>6. \A v \in Passes : \/ batch'[v].whole = {}
                        \/ batch'[v].whole = batch[v].whole /\ batch'[v].rev = batch[v].rev
  <2>1. ASSUME NEW v \in Passes
        PROVE  \/ batch'[v].whole = {}
               \/ batch'[v].whole = batch[v].whole /\ batch'[v].rev = batch[v].rev
    <3>1. CASE v = w
      BY <1>1, <3>1
    <3>2. CASE v # w
      BY <1>1, <3>2
    <3> QED BY <3>1, <3>2
  <2> QED BY <2>1
<1>7. OncePerPass'
  <2>1. \A v \in Passes : batch'[v].whole \subseteq batch[v].whole
                          /\ \A k \in batch'[v].whole : batch'[v].rev[k] = batch[v].rev[k]
    BY <1>6
  <2>2. pass'.left \subseteq Posts
    BY <1>0 DEF ExtractionTypes
  <2> QED BY <1>0, <1>3, <2>1, <2>2 DEF OncePerPass, Passes
<1>8. \A k \in Posts : (k \in LiveSide)' => k \in LiveSide
  BY <1>6 DEF LiveSide, Passes
<1>9. ASSUME NEW k \in Posts, NEW v \in Passes, k \in Settled(v)'
      PROVE  k \in Settled(v) /\ batch'[v].rev[k] = batch[v].rev[k]
  <2>1. CASE v # w
    BY <1>1, <1>9, <2>1 DEF Settled
  <2>2. CASE v = w
    <3>1. k \in (b.whole \ b.left) \cup (IF b.at = "decisions" THEN {b.now} ELSE {})
          /\ k \notin b.failed
      BY <1>1, <1>9, <2>2 DEF Settled
    <3>2. k \in b.whole
      BY <3>1
    <3> QED BY <1>1, <2>2, <3>1, <3>2
  <2> QED BY <2>1, <2>2
<1>10. \A k \in Posts : k \in batch'["backlog"].whole =>
         k \in batch["backlog"].whole /\ batch'["backlog"].rev[k] = batch["backlog"].rev[k]
  BY <1>6 DEF Passes
<1>11. /\ queued' \subseteq Posts /\ buffered' \subseteq Posts
       /\ pass' \in [left : SUBSET Posts, rev : Revisions]
  BY <1>0 DEF ExtractionTypes
<1> QED BY <1>1, <1>2, <1>4, <1>5, <1>7, <1>8, <1>9, <1>10, <1>11, WorkMoves

LEMMA AfterIs ==
    ASSUME NEW b, b \in Batches, NEW m, NEW a, a = After(b, m)
    PROVE  /\ a \in Batches /\ a.whole = b.whole /\ a.rev = b.rev /\ a.failed = b.failed
           /\ a.left = b.left \ {m} /\ a.at \in {"asks", "withdraw"}
           /\ a.at = "withdraw" <=> b.left = {m}
<1>1. b = [at |-> b.at, whole |-> b.whole, rev |-> b.rev, left |-> b.left, now |-> b.now,
           shown |-> b.shown, failed |-> b.failed]
  BY DEF Batches
<1>2. a = [at |-> IF b.left = {m} THEN "withdraw" ELSE "asks", whole |-> b.whole,
           rev |-> b.rev, left |-> b.left \ {m}, now |-> 0, shown |-> b.shown,
           failed |-> b.failed]
  BY <1>1 DEF After
<1>3. a \in Batches
  BY <1>2 DEF Batches
<1> QED BY <1>2, <1>3

LEMMA FailedIs ==
    ASSUME NEW b, b \in Batches, NEW S, S \subseteq Posts,
           NEW a, a = [b EXCEPT !.failed = b.failed \cup S]
    PROVE  /\ a \in Batches /\ a.whole = b.whole /\ a.rev = b.rev /\ a.left = b.left
           /\ a.at = b.at /\ a.now = b.now /\ a.failed = b.failed \cup S
BY DEF Batches

(* Decisions are written, or withdrawn, or a step of a batch fails.         *)
LEMMA WorkerGoesOn ==
    ASSUME ExtractionIInv, NEW w \in Passes,
           RecordDecisions(w) \/ WithdrawSkipped(w) \/ StepFails(w) \/ BatchFails(w)
    PROVE  ExtractionIInv'
<1> USE ExtractionNumbers
<1>0. /\ ExtractionTypes /\ BatchShape(w) /\ batch[w] \in Batches
      /\ decision \in [Posts -> [rev : Int, rests : SUBSET Posts]]
      /\ \A k \in Posts : decision[k].rev \in Never .. RevisionOf(k) /\ RevisionOf(k) \in Int
  <2>1. ExtractionTypes /\ BatchShape(w) /\ \A k \in Posts : PostStands(k)
    BY DEF ExtractionIInv
  <2> QED BY <2>1, TextIs DEF ExtractionTypes, PostStands
<1>1. PICK b : b = batch[w]
  OBVIOUS
<1>2. /\ b \in Batches /\ b.left \cup b.failed \subseteq b.whole /\ b.whole \subseteq Posts
      /\ b.at = "idle" <=> b.whole = {}
      /\ b.at = "asks" => b.left # {}
      /\ b.at = "decisions" => b.now \in b.left
      /\ b.at \in {"withdraw", "mark"} => b.left = {}
      /\ \A k \in b.whole : b.rev[k] \in 0 .. RevisionOf(k)
  BY <1>0, <1>1 DEF BatchShape, Batches
<1>3. Settled(w) = ((b.whole \ b.left) \cup IF b.at = "decisions" THEN {b.now} ELSE {}) \ b.failed
  BY <1>1 DEF Settled
<1>4. NoDecision \in [rev : Int, rests : SUBSET Posts] /\ NoDecision.rev = Never
  BY DEF NoDecision
<1>5. CASE RecordDecisions(w)
  <2>1. PICK a : a = After(b, b.now)
    OBVIOUS
  <2>2. /\ b.at = "decisions" /\ batch' = [batch EXCEPT ![w] = a]
        /\ decision' = [decision EXCEPT ![b.now] =
                          IF Says(b.now, b.rev[b.now]) = "decision"
                          THEN [rev |-> b.rev[b.now], rests |-> b.shown[b.now]] ELSE NoDecision]
        /\ UNCHANGED <<texts, alive, extractedAt, asksFrom, queued, buffered, pass, astray>>
    BY <1>1, <1>5, <2>1 DEF RecordDecisions, channelVars, liveVars
  <2>3. /\ b.now \in Posts /\ b.now \in b.whole /\ b.rev[b.now] \in 0 .. RevisionOf(b.now)
        /\ RevisionOf(b.now) \in Int /\ b.shown[b.now] \subseteq Posts
    BY <1>0, <1>2, <2>2 DEF Batches
  <2>4. decision' \in [Posts -> [rev : Int, rests : SUBSET Posts]]
    BY <1>0, <1>4, <2>2, <2>3, SMTT(30)
  <2>5. ASSUME NEW k \in Posts PROVE decision'[k].rev \in Never .. RevisionOf(k)
    <3>1. CASE k = b.now
      BY <1>0, <1>4, <2>2, <2>3, <3>1, SMTT(30)
    <3>2. CASE k # b.now
      BY <1>0, <2>2, <3>2
    <3> QED BY <3>1, <3>2
  <2>6. /\ a \in Batches /\ a.whole = b.whole /\ a.rev = b.rev /\ a.failed = b.failed
        /\ a.left = b.left \ {b.now} /\ a.at \in {"asks", "withdraw"}
        /\ a.at = "withdraw" <=> b.left = {b.now}
    BY <1>2, <2>1, AfterIs
  <2>7. /\ a.at = "asks" => a.left # {}
        /\ a.at \in {"withdraw", "mark"} => a.left = {}
        /\ a.at # "idle" /\ a.at # "decisions" /\ a.whole # {}
        /\ a.left \cup a.failed \subseteq a.whole
    BY <1>2, <2>2, <2>3, <2>6
  <2>8. \A k \in (a.whole \ a.left) \cup (IF a.at = "decisions" THEN {a.now} ELSE {}) :
           k \in a.failed \/ k \in Settled(w)
    BY <1>3, <2>2, <2>6, <2>7
  <2> QED BY <1>1, <2>2, <2>4, <2>5, <2>6, <2>7, <2>8, BatchMoves
<1>6. ASSUME UNCHANGED <<texts, alive, extractedAt, asksFrom, queued, buffered, pass, astray>>,
             b.at = "withdraw", NEW F, F \subseteq b.whole,
             batch' = [batch EXCEPT ![w] = [b EXCEPT !.failed = b.failed \cup F, !.at = "mark"]],
             \A k \in Posts : decision'[k] = decision[k] \/ decision'[k] = NoDecision,
             decision' \in [Posts -> [rev : Int, rests : SUBSET Posts]]
      PROVE  ExtractionIInv'
  <2>1. PICK a : a = [b EXCEPT !.failed = b.failed \cup F, !.at = "mark"]
    OBVIOUS
  <2>2. /\ a \in Batches /\ a.whole = b.whole /\ a.rev = b.rev /\ a.failed = b.failed \cup F
        /\ a.left = b.left /\ a.at = "mark"
    BY <1>2, <1>6, <2>1 DEF Batches
  <2>3. \A k \in Posts : decision'[k].rev \in Never .. RevisionOf(k)
    BY <1>0, <1>4, <1>6
  <2>4. \A k \in (a.whole \ a.left) \cup (IF a.at = "decisions" THEN {a.now} ELSE {}) :
           k \in a.failed \/ k \in Settled(w)
    BY <1>3, <1>6, <2>2
  <2>5. /\ a.left = {} /\ a.whole # {} /\ a.left \cup a.failed \subseteq a.whole
    BY <1>2, <1>6, <2>2
  <2> QED BY <1>1, <1>6, <2>1, <2>2, <2>3, <2>4, <2>5, BatchMoves
<1>7. CASE WithdrawSkipped(w)
  <2>1. PICK S : S = Skipped(b)
    OBVIOUS
  <2>2. /\ UNCHANGED <<texts, alive, extractedAt, asksFrom, queued, buffered, pass, astray>>
        /\ b.at = "withdraw" /\ batch' = [batch EXCEPT ![w].at = "mark"]
        /\ decision' = [m \in Posts |-> IF m \in S THEN NoDecision ELSE decision[m]]
    BY <1>1, <1>7, <2>1 DEF WithdrawSkipped, channelVars, liveVars
  <2>3. PICK F : F = {}
    OBVIOUS
  <2>4. [b EXCEPT !.failed = b.failed \cup F, !.at = "mark"] = [b EXCEPT !.at = "mark"]
    <3>1. b.failed \cup F = b.failed
      BY <2>3
    <3> QED BY <1>2, <3>1 DEF Batches
  <2>5. batch' = [batch EXCEPT ![w] = [b EXCEPT !.failed = b.failed \cup F, !.at = "mark"]]
    BY <1>1, <2>2, <2>4
  <2>6. \A k \in Posts : decision'[k] = decision[k] \/ decision'[k] = NoDecision
    BY <1>0, <1>4, <2>2
  <2>7. decision' \in [Posts -> [rev : Int, rests : SUBSET Posts]]
    BY <1>0, <1>4, <2>2
  <2>8. F \subseteq b.whole /\ b.at = "withdraw"
    BY <2>2, <2>3
  <2>9. UNCHANGED <<texts, alive, extractedAt, asksFrom, queued, buffered, pass, astray>>
    BY <2>2
  <2> QED BY <1>6, <2>5, <2>6, <2>7, <2>8, <2>9
<1>8. CASE StepFails(w)
  <2>1. /\ UNCHANGED <<texts, alive, extractedAt, asksFrom, queued, buffered, pass, astray>>
        /\ decision' = decision
    BY <1>8 DEF StepFails, channelVars, readVars, liveVars
  <2>2. ASSUME NEW m \in b.left, b.at \in {"asks", "decisions"},
               batch' = [batch EXCEPT ![w] = After([b EXCEPT !.failed = b.failed \cup {m}], m)]
        PROVE  ExtractionIInv'
    <3>1. PICK f : f = [b EXCEPT !.failed = b.failed \cup {m}]
      OBVIOUS
    <3>2. PICK a : a = After(f, m)
      OBVIOUS
    <3>3. m \in Posts /\ b.whole # {}
      BY <1>2, <2>2
    <3>4. /\ f \in Batches /\ f.whole = b.whole /\ f.rev = b.rev /\ f.left = b.left
          /\ f.failed = b.failed \cup {m}
      BY <1>2, <3>1, <3>3 DEF Batches
    <3>5. /\ a \in Batches /\ a.whole = f.whole /\ a.rev = f.rev /\ a.failed = f.failed
          /\ a.left = f.left \ {m} /\ a.at \in {"asks", "withdraw"}
          /\ a.at = "withdraw" <=> f.left = {m}
      BY <3>2, <3>4, AfterIs
    <3>6. /\ a.at = "asks" => a.left # {}
          /\ a.at \in {"withdraw", "mark"} => a.left = {}
          /\ a.at # "idle" /\ a.at # "decisions" /\ a.whole # {}
          /\ a.left \cup a.failed \subseteq a.whole
      BY <1>2, <3>3, <3>4, <3>5
    <3>7. \A k \in (a.whole \ a.left) \cup (IF a.at = "decisions" THEN {a.now} ELSE {}) :
             k \in a.failed \/ k \in Settled(w)
      BY <1>3, <3>4, <3>5, <3>6
    <3>8. batch' = [batch EXCEPT ![w] = a]
      BY <2>2, <3>1, <3>2
    <3> QED BY <1>0, <1>1, <2>1, <3>4, <3>5, <3>6, <3>7, <3>8, BatchMoves
  <2>3. CASE /\ b.at = "asks"
             /\ batch' = [batch EXCEPT ![w] =
                            After([b EXCEPT !.failed = b.failed \cup {Min(b.left)}], Min(b.left))]
    <3>1. Min(b.left) \in b.left
      <4>1. b.left # {} /\ b.left \subseteq Posts
        BY <1>2, <2>3
      <4> QED BY <4>1, LeastPost
    <3> QED BY <2>2, <2>3, <3>1
  <2>4. CASE /\ b.at = "decisions"
             /\ batch' = [batch EXCEPT ![w] =
                            After([b EXCEPT !.failed = b.failed \cup {b.now}], b.now)]
    BY <1>2, <2>2, <2>4
  <2>5. CASE /\ b.at = "withdraw"
             /\ batch' = [batch EXCEPT ![w].failed = b.failed \cup Skipped(b), ![w].at = "mark"]
    <3>1. PICK F : F = Skipped(b)
      OBVIOUS
    <3>2. F \subseteq b.whole
      BY <3>1 DEF Skipped
    <3>3. batch' = [batch EXCEPT ![w] = [b EXCEPT !.failed = b.failed \cup F, !.at = "mark"]]
      BY <1>0, <1>1, <2>5, <3>1 DEF ExtractionTypes
    <3> QED BY <1>0, <1>6, <2>1, <2>5, <3>2, <3>3
  <2> QED BY <1>1, <1>8, <2>3, <2>4, <2>5 DEF StepFails
<1>9. CASE BatchFails(w)
  <2>1. /\ UNCHANGED <<texts, alive, extractedAt, asksFrom, queued, buffered, pass, astray>>
        /\ decision' = decision /\ batch' = [batch EXCEPT ![w] = NoBatch]
    BY <1>9 DEF BatchFails, channelVars, readVars, liveVars
  <2>2. PICK n : n = NoBatch
    OBVIOUS
  <2>3. n \in Batches /\ n.at = "idle" /\ n.whole = {} /\ n.left = {} /\ n.failed = {}
    BY <2>2, NothingInHand
  <2>4. (n.whole \ n.left) \cup (IF n.at = "decisions" THEN {n.now} ELSE {}) = {}
    BY <2>3
  <2>5. /\ n.left \cup n.failed \subseteq n.whole
        /\ n.at = "idle" <=> n.whole = {}
        /\ n.at = "asks" => n.left # {}
        /\ n.at = "decisions" => n.now \in n.left
        /\ n.at \in {"withdraw", "mark"} => n.left = {}
        /\ n.whole = {}
    BY <2>3
  <2>6. UNCHANGED <<texts, alive, extractedAt, asksFrom, queued, buffered, pass, astray>>
    BY <2>1
  <2>7. /\ decision' \in [Posts -> [rev : Int, rests : SUBSET Posts]]
        /\ \A k \in Posts : decision'[k].rev \in Never .. RevisionOf(k)
    BY <1>0, <2>1
  <2>8. \A k \in (n.whole \ n.left) \cup (IF n.at = "decisions" THEN {n.now} ELSE {}) :
           k \in n.failed \/ k \in Settled(w)
    BY <2>4
  <2>9. batch' = [batch EXCEPT ![w] = n]
    BY <2>1, <2>2
  <2>10. n \in Batches
    BY <2>3
  <2> QED BY <2>5, <2>6, <2>7, <2>8, <2>9, <2>10, BatchMoves
<1> QED BY <1>5, <1>7, <1>8, <1>9

LEMMA PassWithoutIs ==
    ASSUME ExtractionTypes, NEW S, NEW p, p = PassWithout(S)
    PROVE  /\ p \in [left : SUBSET Posts, rev : Revisions] /\ p.left = pass.left \ S
           /\ \A k \in p.left : p.rev[k] = pass.rev[k]
<1>1. pass \in [left : SUBSET Posts, rev : Revisions]
  BY DEF ExtractionTypes
<1>2. CASE pass.left \subseteq S
  <2>1. p = NoPass
    BY <1>2 DEF PassWithout
  <2>2. p.left = {} /\ p \in [left : SUBSET Posts, rev : Revisions]
    BY <2>1, NothingInHand
  <2> QED BY <1>2, <2>2
<1>3. CASE ~(pass.left \subseteq S)
  <2>1. p = [left |-> pass.left \ S, rev |-> [m \in Posts |-> IF m \in S THEN Never ELSE pass.rev[m]]]
    BY <1>3 DEF PassWithout
  <2>2. [m \in Posts |-> IF m \in S THEN Never ELSE pass.rev[m]] \in Revisions
    BY <1>1, ExtractionNumbers DEF Revisions
  <2>3. p.left = pass.left \ S /\ p \in [left : SUBSET Posts, rev : Revisions]
    BY <1>1, <2>1, <2>2
  <2>4. \A k \in p.left : p.rev[k] = pass.rev[k]
    BY <1>1, <2>1, <2>3
  <2> QED BY <2>3, <2>4
<1> QED BY <1>2, <1>3

LEMMA OldestExist ==
    ASSUME NEW S, S \subseteq Posts, S # {}
    PROVE  OldestOf(S, BatchMessages) \subseteq S /\ OldestOf(S, BatchMessages) # {}
<1> USE ExtractionNumbers
<1>1. Min(S) \in S /\ \A k \in S : Min(S) <= k
  BY LeastPost
<1>2. {k \in S : k < Min(S)} = {}
  <2>1. ASSUME NEW k \in S PROVE ~(k < Min(S))
    <3>1. k \in Posts /\ Min(S) \in Posts
      BY <1>1, <2>1
    <3>2. k \in Int /\ Min(S) \in Int
      BY <3>1
    <3> QED BY <1>1, <2>1, <3>2
  <2> QED BY <2>1
<1>3. Cardinality({k \in S : k < Min(S)}) = 0
  BY <1>2, FS_EmptySet
<1>4. Min(S) \in OldestOf(S, BatchMessages)
  BY <1>1, <1>3 DEF OldestOf
<1> QED BY <1>4 DEF OldestOf

(* What a worker does not touch of its batch stands.                        *)
LEMMA BatchRests ==
    ASSUME ExtractionIInv, texts' = texts, NEW w \in Passes, batch'[w] = batch[w]
    PROVE  /\ BatchShape(w)'
           /\ \A k \in Posts : k \in Settled(w)' <=> k \in Settled(w)
<1>1. ExtractionTypes /\ BatchShape(w)
  BY DEF ExtractionIInv
<1>2. \A k \in Posts : RevisionOf(k) \in Int /\ RevisionOf(k)' \in Int /\ RevisionOf(k) <= RevisionOf(k)'
  BY <1>1, TextIs DEF RevisionOf
<1>3. BatchShape(w)'
  BY <1>1, <1>2, ShapeRest
<1> QED BY <1>3 DEF Settled

LEMMA WorkIsRead ==
    ASSUME ExtractionIInv, ReadPending \/ ContextFails
    PROVE  ExtractionIInv'
<1> USE ExtractionNumbers
<1>0. /\ ExtractionTypes /\ OncePerPass
      /\ \A k \in Posts : decision[k].rev \in Never .. RevisionOf(k)
      /\ \A k \in Posts : RevisionOf(k) \in Int /\ (k \in alive => RevisionOf(k) >= 0)
  <2>1. ExtractionTypes /\ OncePerPass /\ \A k \in Posts : PostStands(k)
    BY DEF ExtractionIInv
  <2> QED BY <2>1, TextIs DEF PostStands
<1>1. UNCHANGED <<texts, alive, extractedAt, asksFrom, decision, queued, buffered, batch, astray>>
  BY DEF ReadPending, ContextFails, channelVars, readVars, liveVars
<1>2. ASSUME NEW p, p \in [left : SUBSET Posts, rev : Revisions], pass' = p,
             p.left \cap batch["backlog"].whole = {},
             \A k \in p.left : p.rev[k] \in 0 .. RevisionOf(k),
             \A k \in p.left : \/ k \in pass.left /\ p.rev[k] = pass.rev[k]
                               \/ k \in alive /\ p.rev[k] = RevisionOf(k)
      PROVE  ExtractionIInv'
  <2>1. \A k \in Posts : RevisionOf(k)' = RevisionOf(k)
    BY <1>1 DEF RevisionOf
  <2>2. OncePerPass'
    BY <1>0, <1>1, <1>2, <2>1 DEF OncePerPass
  <2>3. \A w \in Passes : BatchShape(w)' /\ \A k \in Posts : k \in Settled(w)' <=> k \in Settled(w)
    BY <1>1, BatchRests
  <2>4. /\ queued' \subseteq Posts /\ buffered' \subseteq Posts /\ batch' \in [Passes -> Batches]
        /\ decision' \in [Posts -> [rev : Int, rests : SUBSET Posts]]
    BY <1>0, <1>1 DEF ExtractionTypes
  <2>5. \A k \in Posts : (k \in LiveSide)' => k \in LiveSide
    BY <1>1 DEF LiveSide
  <2> QED BY <1>0, <1>1, <1>2, <2>2, <2>3, <2>4, <2>5, WorkMoves
<1>3. CASE ReadPending
  <2>1. PICK S : S = NewestOf({m \in oldEnough : ExtractionPending(m)}, PerPass)
    OBVIOUS
  <2>2. PICK p : p = [left |-> S, rev |-> [m \in Posts |-> IF m \in S THEN RevisionOf(m) ELSE Never]]
    OBVIOUS
  <2>3. batch["backlog"].at = "idle" /\ pass' = p
    BY <1>3, <2>1, <2>2 DEF ReadPending
  <2>4. S \subseteq alive
    BY <2>1 DEF NewestOf, ExtractionPending
  <2>5. S \subseteq Posts
    BY <1>0, <2>4 DEF ExtractionTypes
  <2>6. [m \in Posts |-> IF m \in S THEN RevisionOf(m) ELSE Never] \in Revisions
    BY <1>0 DEF Revisions
  <2>7. p \in [left : SUBSET Posts, rev : Revisions] /\ p.left = S
    BY <2>2, <2>5, <2>6
  <2>8. \A k \in p.left : k \in alive /\ p.rev[k] = RevisionOf(k) /\ RevisionOf(k) \in 0 .. RevisionOf(k)
    BY <1>0, <2>2, <2>4, <2>5, <2>7
  <2>9. batch["backlog"].whole = {}
    BY <2>3 DEF ExtractionIInv, BatchShape, Passes
  <2> QED BY <1>2, <2>3, <2>7, <2>8, <2>9
<1>4. CASE ContextFails
  <2>1. PICK S : S = OldestOf(pass.left, BatchMessages)
    OBVIOUS
  <2>2. PICK p : p = PassWithout(S)
    OBVIOUS
  <2>3. batch["backlog"].at = "idle" /\ pass' = p
    BY <1>4, <2>1, <2>2 DEF ContextFails
  <2>4. /\ p \in [left : SUBSET Posts, rev : Revisions] /\ p.left = pass.left \ S
        /\ \A k \in p.left : p.rev[k] = pass.rev[k]
    BY <1>0, <2>2, PassWithoutIs
  <2>5. \A k \in p.left : k \in pass.left /\ p.rev[k] \in 0 .. RevisionOf(k)
    BY <1>0, <2>4 DEF OncePerPass
  <2>6. p.left \cap batch["backlog"].whole = {}
    BY <1>0, <2>4 DEF OncePerPass
  <2> QED BY <1>2, <2>3, <2>4, <2>5, <2>6
<1> QED BY <1>3, <1>4

LEMMA WorkIsTaken ==
    ASSUME ExtractionIInv, NEW flush1 \in BOOLEAN, RunLive(flush1) \/ TakeChunk
    PROVE  ExtractionIInv'
<1> USE ExtractionNumbers
<1>0. /\ ExtractionTypes /\ OncePerPass /\ batch \in [Passes -> Batches]
      /\ \A k \in Posts : decision[k].rev \in Never .. RevisionOf(k)
      /\ \A k \in Posts : RevisionOf(k) \in Int /\ (InHand(k) => RevisionOf(k) >= 0)
  <2>1. ExtractionTypes /\ OncePerPass /\ \A k \in Posts : PostStands(k)
    BY DEF ExtractionIInv
  <2> QED BY <2>1, TextIs DEF PostStands, ExtractionTypes
<1>1. /\ UNCHANGED <<texts, alive, extractedAt, asksFrom, decision, astray>>
      /\ \A k \in Posts : RevisionOf(k)' = RevisionOf(k)
  BY DEF RunLive, TakeChunk, channelVars, readVars, RevisionOf
<1>2. /\ decision' \in [Posts -> [rev : Int, rests : SUBSET Posts]]
      /\ queued \subseteq Posts /\ buffered \subseteq Posts
      /\ pass \in [left : SUBSET Posts, rev : Revisions]
  BY <1>0, <1>1 DEF ExtractionTypes
<1>3. CASE TakeChunk
  <2>1. PICK S : S = OldestOf(pass.left, BatchMessages)
    OBVIOUS
  <2>2. PICK rev : rev = [m \in Posts |-> IF m \in S THEN pass.rev[m] ELSE Never]
    OBVIOUS
  <2>3. PICK shown : shown = [m \in Posts |-> {m} \cup {c \in alive : c < m}]
    OBVIOUS
  <2>4. PICK b : b = Taken(S, rev, shown)
    OBVIOUS
  <2>5. PICK p : p = PassWithout(S)
    OBVIOUS
  <2>6. /\ pass.left # {} /\ pass' = p /\ batch' = [batch EXCEPT !["backlog"] = b]
        /\ queued' = queued /\ buffered' = buffered
    BY <1>3, <2>1, <2>2, <2>3, <2>4, <2>5 DEF TakeChunk, liveVars
  <2>7. S \subseteq pass.left /\ S # {} /\ S \subseteq Posts
    <3>1. pass.left \subseteq Posts
      BY <1>2
    <3>2. S \subseteq pass.left /\ S # {}
      BY <2>1, <2>6, <3>1, OldestExist
    <3> QED BY <3>1, <3>2
  <2>8. rev \in Revisions /\ \A m \in S : rev[m] = pass.rev[m] /\ rev[m] \in 0 .. RevisionOf(m)
    <3>1. \A m \in S : m \in Posts /\ m \in pass.left
      BY <2>7
    <3>2. rev \in Revisions
      BY <1>2, <2>2 DEF Revisions
    <3>3. \A m \in S : rev[m] = pass.rev[m]
      BY <2>2, <3>1
    <3> QED BY <1>0, <3>1, <3>2, <3>3 DEF OncePerPass
  <2>9. shown \in [Posts -> SUBSET Posts]
    BY <1>0, <2>3 DEF ExtractionTypes
  <2>10. b \in Batches /\ b.whole = S /\ b.rev = rev
    <3>1. S \subseteq Posts /\ rev \in Revisions
      BY <2>7, <2>8
    <3>2. b.whole = S /\ b.rev = rev
      BY <2>4, TakenIs
    <3>3. b \in Batches
      BY <2>4, <2>9, <3>1, TakenIs
    <3> QED BY <3>2, <3>3
  <2>11. batch'["backlog"] = b /\ batch'["live"] = batch["live"]
    BY <1>0, <2>6 DEF Passes
  <2>12. batch' \in [Passes -> Batches]
    BY <1>0, <2>6, <2>10
  <2>13. /\ p \in [left : SUBSET Posts, rev : Revisions] /\ p.left = pass.left \ S
         /\ \A k \in p.left : p.rev[k] = pass.rev[k]
    BY <1>0, <2>5, PassWithoutIs
  <2>14. OncePerPass'
    <3>1. \A k \in p.left : k \in Posts /\ k \in pass.left /\ p.rev[k] \in 0 .. RevisionOf(k)
      BY <1>0, <2>13 DEF OncePerPass
    <3> QED BY <1>0, <1>1, <2>6, <2>10, <2>11, <2>13, <3>1 DEF OncePerPass
  <2>15. /\ BatchShape("backlog")'
         /\ \A k \in Posts : k \in Settled("backlog")' /\ batch'["backlog"].rev[k] = RevisionOf(k)
                              => RightAsks(k)
    <3>1. "backlog" \in Passes /\ batch'["backlog"] = Taken(S, rev, shown)
      BY <2>4, <2>11 DEF Passes
    <3> QED BY <1>1, <2>7, <2>8, <3>1, TakenStands
  <2>16. BatchShape("live")' /\ \A k \in Posts : k \in Settled("live")' <=> k \in Settled("live")
    BY <1>1, <2>11, BatchRests DEF Passes
  <2>17. \A w \in Passes : BatchShape(w)'
    BY <2>15, <2>16 DEF Passes
  <2>18. ASSUME NEW k \in Posts, NEW w \in Passes, k \in Settled(w)'
         PROVE  \/ k \in Settled(w) /\ batch'[w].rev[k] = batch[w].rev[k]
                \/ batch'[w].rev[k] = RevisionOf(k) => RightAsks(k)
    BY <2>11, <2>15, <2>16, <2>18 DEF Passes
  <2>19. \A k \in Posts : (k \in LiveSide)' => k \in LiveSide
    BY <2>6, <2>11 DEF LiveSide
  <2>20. \A k \in Posts : k \in batch'["backlog"].whole =>
           k \in pass.left /\ batch'["backlog"].rev[k] = pass.rev[k]
    BY <2>7, <2>8, <2>10, <2>11
  <2>21. \A k \in Posts : k \in pass'.left => k \in pass.left /\ pass'.rev[k] = pass.rev[k]
    BY <2>6, <2>13
  <2>22. /\ queued' \subseteq Posts /\ buffered' \subseteq Posts
         /\ pass' \in [left : SUBSET Posts, rev : Revisions]
    BY <1>2, <2>6, <2>13
  <2> QED BY <1>0, <1>1, <1>2, <2>12, <2>14, <2>17, <2>18, <2>19, <2>20, <2>21, <2>22, WorkMoves
<1>4. ASSUME NEW waiting, waiting = buffered \cup queued, waiting # {},
             queued' = {}, pass' = pass, batch' \in [Passes -> Batches],
             batch'["backlog"] = batch["backlog"],
             buffered' \cup batch'["live"].whole = waiting \cup batch["live"].whole,
             buffered' \cap batch'["live"].whole = {},
             \A m \in batch'["live"].whole : batch'["live"].rev[m] = 0,
             BatchShape("live")',
             \A k \in Posts : k \in Settled("live")' =>
                \/ k \in Settled("live") /\ batch'["live"].rev[k] = batch["live"].rev[k]
                \/ batch'["live"].rev[k] = RevisionOf(k) => RightAsks(k)
      PROVE  ExtractionIInv'
  <2>1. BatchShape("backlog")' /\ \A k \in Posts : k \in Settled("backlog")' <=> k \in Settled("backlog")
    BY <1>1, <1>4, BatchRests DEF Passes
  <2>2. \A w \in Passes : BatchShape(w)'
    BY <1>4, <2>1 DEF Passes
  <2>3. OncePerPass'
    <3>1. Cardinality(queued') = 0
      BY <1>4, FS_EmptySet
    <3>2. \A k \in pass.left : k \in Posts /\ pass.rev[k] \in 0 .. RevisionOf(k)
      BY <1>0, <1>2 DEF OncePerPass
    <3> QED BY <1>0, <1>1, <1>4, <3>1, <3>2 DEF OncePerPass
  <2>4. \A k \in Posts : (k \in LiveSide)' => k \in LiveSide
    BY <1>4 DEF LiveSide
  <2>5. ASSUME NEW k \in Posts, NEW w \in Passes, k \in Settled(w)'
        PROVE  \/ k \in Settled(w) /\ batch'[w].rev[k] = batch[w].rev[k]
               \/ batch'[w].rev[k] = RevisionOf(k) => RightAsks(k)
    BY <1>4, <2>1, <2>5 DEF Passes
  <2>6. /\ queued' \subseteq Posts /\ buffered' \subseteq Posts
        /\ pass' \in [left : SUBSET Posts, rev : Revisions]
    <3>1. buffered' \subseteq waiting \cup batch["live"].whole
      BY <1>4
    <3>2. batch["live"].whole \subseteq Posts
      BY <1>0 DEF Passes, Batches
    <3> QED BY <1>2, <1>4, <3>1, <3>2
  <2>7. \A k \in Posts : k \in batch'["backlog"].whole =>
          k \in batch["backlog"].whole /\ batch'["backlog"].rev[k] = batch["backlog"].rev[k]
    BY <1>4
  <2>8. \A k \in Posts : k \in pass'.left => k \in pass.left /\ pass'.rev[k] = pass.rev[k]
    BY <1>4
  <2> QED BY <1>0, <1>1, <1>2, <1>4, <2>2, <2>3, <2>4, <2>5, <2>6, <2>7, <2>8, WorkMoves
<1>5. CASE RunLive(flush1)
  <2>1. PICK waiting : waiting = buffered \cup queued
    OBVIOUS
  <2>2. /\ batch["live"].at = "idle" /\ waiting # {} /\ queued' = {} /\ pass' = pass
        /\ waiting \subseteq Posts
    BY <1>2, <1>5, <2>1 DEF RunLive
  <2>3. batch["live"].whole = {}
    BY <2>2 DEF ExtractionIInv, BatchShape, Passes
  <2>4. CASE ~flush1
    <3>1. buffered' = waiting /\ batch' = batch
      BY <1>5, <2>1, <2>4 DEF RunLive
    <3>2. BatchShape("live")' /\ \A k \in Posts : k \in Settled("live")' <=> k \in Settled("live")
      BY <1>1, <3>1, BatchRests DEF Passes
    <3> QED BY <1>0, <1>4, <2>1, <2>2, <2>3, <3>1, <3>2
  <2>5. CASE flush1
    <3>1. PICK rev : rev = [m \in Posts |-> IF m \in waiting THEN 0 ELSE Never]
      OBVIOUS
    <3>2. PICK shown : shown = [m \in Posts |-> {c \in waiting : c <= m}]
      OBVIOUS
    <3>3. PICK b : b = Taken(waiting, rev, shown)
      OBVIOUS
    <3>4. buffered' = {} /\ batch' = [batch EXCEPT !["live"] = b]
      BY <1>5, <2>1, <2>5, <3>1, <3>2, <3>3 DEF RunLive
    <3>5. rev \in Revisions /\ shown \in [Posts -> SUBSET Posts]
      <4>1. rev \in Revisions
        BY <3>1 DEF Revisions
      <4>2. \A m \in Posts : {c \in waiting : c <= m} \in SUBSET Posts
        BY <2>2
      <4> QED BY <3>2, <4>1, <4>2
    <3>6. \A m \in waiting : rev[m] = 0 /\ rev[m] \in 0 .. RevisionOf(m)
      <4>1. ASSUME NEW m \in waiting PROVE m \in Posts /\ InHand(m)
        BY <2>1, <2>2 DEF InHand, LiveSide
      <4>2. ASSUME NEW m \in waiting PROVE RevisionOf(m) \in Int /\ RevisionOf(m) >= 0
        BY <1>0, <4>1
      <4>3. \A m \in waiting : rev[m] = 0
        BY <3>1, <4>1
      <4> QED BY <4>2, <4>3
    <3>7. b \in Batches /\ b.whole = waiting /\ b.rev = rev
      <4>1. waiting \subseteq Posts
        BY <2>2
      <4>2. rev \in Revisions
        BY <3>5
      <4>3. shown \in [Posts -> SUBSET Posts]
        BY <3>5
      <4>4. b \in Batches
        BY <3>3, <4>1, <4>2, <4>3, TakenType
      <4>5. b.whole = waiting /\ b.rev = rev
        BY <3>3, TakenIs
      <4> QED BY <4>4, <4>5
    <3>8. /\ batch'["live"] = b /\ batch'["backlog"] = batch["backlog"]
          /\ batch' \in [Passes -> Batches]
      BY <1>0, <3>4, <3>7 DEF Passes
    <3>9. /\ BatchShape("live")'
          /\ \A k \in Posts : k \in Settled("live")' /\ batch'["live"].rev[k] = RevisionOf(k)
                               => RightAsks(k)
      <4>1. "live" \in Passes /\ batch'["live"] = Taken(waiting, rev, shown)
        BY <3>3, <3>8 DEF Passes
      <4> QED BY <1>1, <2>2, <3>6, <4>1, TakenStands
    <3>10. /\ buffered' \cup batch'["live"].whole = waiting \cup batch["live"].whole
           /\ buffered' \cap batch'["live"].whole = {}
           /\ \A m \in batch'["live"].whole : batch'["live"].rev[m] = 0
      BY <2>3, <3>4, <3>6, <3>7, <3>8
    <3> QED BY <1>4, <2>1, <2>2, <3>8, <3>9, <3>10
  <2> QED BY <2>4, <2>5
<1> QED BY <1>3, <1>5

(* The process stops: nobody has anything in hand.                          *)
LEMMA WorkIsLost ==
    ASSUME ExtractionIInv, IngestStops
    PROVE  ExtractionIInv'
<1> USE ExtractionNumbers
<1>0. /\ ExtractionTypes /\ \A k \in Posts : decision[k].rev \in Never .. RevisionOf(k)
  BY DEF ExtractionIInv, PostStands
<1>1. /\ UNCHANGED <<texts, alive, extractedAt, asksFrom, decision, astray>>
      /\ queued' = {} /\ buffered' = {} /\ pass' = NoPass
      /\ batch' = [w \in Passes |-> NoBatch]
  BY DEF IngestStops, channelVars, readVars
<1>2. PICK n : n = NoBatch
  OBVIOUS
<1>3. n \in Batches /\ n.at = "idle" /\ n.whole = {} /\ n.left = {} /\ n.failed = {}
  BY <1>2, NothingInHand
<1>4. \A w \in Passes : batch'[w] = n
  BY <1>1, <1>2
<1>5. batch' \in [Passes -> Batches]
  BY <1>1, <1>2, <1>3
<1>6. pass' \in [left : SUBSET Posts, rev : Revisions] /\ pass'.left = {}
  BY <1>1, NothingInHand
<1>7. \A w \in Passes : BatchShape(w)'
  BY <1>3, <1>4 DEF BatchShape
<1>8. OncePerPass'
  <2>1. Cardinality(queued') = 0
    BY <1>1, FS_EmptySet
  <2> QED BY <1>1, <1>3, <1>4, <1>6, <2>1 DEF OncePerPass, Passes
<1>9. \A w \in Passes : Settled(w)' = {}
  BY <1>3, <1>4 DEF Settled
<1>10. \A k \in Posts : k \notin LiveSide' /\ k \notin batch'["backlog"].whole
  BY <1>1, <1>3, <1>4 DEF LiveSide, Passes
<1>11. /\ queued' \subseteq Posts /\ buffered' \subseteq Posts
       /\ decision' \in [Posts -> [rev : Int, rests : SUBSET Posts]]
       /\ \A k \in Posts : decision'[k].rev \in Never .. RevisionOf(k)
  BY <1>0, <1>1 DEF ExtractionTypes
<1> QED BY <1>1, <1>5, <1>6, <1>7, <1>8, <1>9, <1>10, <1>11, WorkMoves

(* Asks of an older revision are written only over a message that the live  *)
(* pass does not hold and that is not on record as read.                    *)
LEMMA AsksAreRecorded ==
    ASSUME ExtractionIInv, NEW w \in Passes, RecordAsks(w)
    PROVE  ExtractionIInv'
<1> USE ExtractionNumbers
<1>0. /\ ExtractionTypes /\ (\A v \in Passes : BatchShape(v)) /\ OncePerPass
      /\ (\A k \in Posts : PostStands(k)) /\ batch \in [Passes -> Batches]
      /\ \A k \in Posts : RevisionOf(k) \in Int
  BY TextIs DEF ExtractionIInv, ExtractionTypes
<1>1. PICK b : b = batch[w]
  OBVIOUS
<1>2. PICK m : m = Min(b.left)
  OBVIOUS
<1>3. PICK a : a = [b EXCEPT !.at = "decisions", !.now = m]
  OBVIOUS
<1>4. /\ b.at = "asks"
      /\ asksFrom' = [asksFrom EXCEPT ![m] = IF Says(m, b.rev[m]) = "ask" THEN b.rev[m] ELSE Never]
      /\ batch' = [batch EXCEPT ![w].at = "decisions", ![w].now = m]
      /\ UNCHANGED <<texts, alive, extractedAt, decision, queued, buffered, pass, astray>>
  BY <1>1, <1>2 DEF RecordAsks, channelVars, liveVars
<1>5. /\ b \in Batches /\ b.left \cup b.failed \subseteq b.whole /\ b.whole \subseteq Posts
      /\ b.left # {} /\ \A k \in b.whole : b.rev[k] \in 0 .. RevisionOf(k)
  BY <1>0, <1>1, <1>4 DEF BatchShape, Batches
<1>6. m \in b.left /\ m \in b.whole /\ m \in Posts /\ b.rev[m] \in 0 .. RevisionOf(m)
  <2>1. m \in b.left
    BY <1>2, <1>5, LeastPost
  <2> QED BY <1>5, <2>1
<1>7. batch' = [batch EXCEPT ![w] = a]
  BY <1>0, <1>1, <1>3, <1>4
<1>8. /\ a \in Batches /\ a.at = "decisions" /\ a.now = m /\ a.whole = b.whole
      /\ a.rev = b.rev /\ a.left = b.left /\ a.failed = b.failed
  BY <1>3, <1>5, <1>6 DEF Batches
<1>9. /\ batch'[w] = a /\ batch' \in [Passes -> Batches]
      /\ \A v \in Passes : v # w => batch'[v] = batch[v]
  BY <1>0, <1>7, <1>8
<1>10. \A v \in Passes : batch'[v].whole = batch[v].whole /\ batch'[v].rev = batch[v].rev
  <2>1. ASSUME NEW v \in Passes PROVE batch'[v].whole = batch[v].whole /\ batch'[v].rev = batch[v].rev
    <3>1. CASE v = w
      BY <1>1, <1>8, <1>9, <3>1
    <3>2. CASE v # w
      BY <1>9, <3>2
    <3> QED BY <3>1, <3>2
  <2> QED BY <2>1
<1>11. \A k \in Posts : RevisionOf(k)' = RevisionOf(k)
  BY <1>4 DEF RevisionOf
<1>12. ExtractionTypes'
  <2>1. asksFrom' \in Revisions
    <3>1. asksFrom \in [Posts -> Int]
      BY <1>0 DEF ExtractionTypes, Revisions
    <3>2. (IF Says(m, b.rev[m]) = "ask" THEN b.rev[m] ELSE Never) \in Int
      BY <1>6
    <3> QED BY <1>4, <3>1, <3>2 DEF Revisions
  <2> QED BY <1>0, <1>4, <1>9, <2>1 DEF ExtractionTypes
<1>13. \A v \in Passes : BatchShape(v)'
  <2>1. BatchShape(w)'
    BY <1>5, <1>6, <1>8, <1>9, <1>11 DEF BatchShape
  <2>2. ASSUME NEW v \in Passes, v # w PROVE BatchShape(v)'
    BY <1>4, <1>9, <2>2, BatchRests
  <2> QED BY <2>1, <2>2
<1>14. OncePerPass'
  <2>1. \A k \in pass.left : k \in Posts
    BY <1>0 DEF ExtractionTypes
  <2> QED BY <1>0, <1>4, <1>10, <1>11, <2>1 DEF OncePerPass, Passes
<1>15. \A k \in Posts : k \in LiveSide' <=> k \in LiveSide
  BY <1>4, <1>10 DEF LiveSide, Passes
<1>16. \A k \in Posts : \A v \in Passes : k \in Settled(v)' => k \in Settled(v) \/ (v = w /\ k = m)
  <2>1. ASSUME NEW k \in Posts, NEW v \in Passes, k \in Settled(v)'
        PROVE  k \in Settled(v) \/ (v = w /\ k = m)
    <3>1. CASE v = w
      BY <1>1, <1>8, <1>9, <2>1, <3>1 DEF Settled
    <3>2. CASE v # w
      BY <1>9, <2>1, <3>2 DEF Settled
    <3> QED BY <3>1, <3>2
  <2> QED BY <2>1
<1>17. ASSUME NEW k \in Posts, k # m PROVE PostStands(k)'
  <2>1. asksFrom'[k] = asksFrom[k]
    BY <1>0, <1>4, <1>17 DEF ExtractionTypes, Revisions
  <2>2. PostStands(k) /\ decision'[k].rev \in Never .. RevisionOf(k)
    BY <1>0, <1>4 DEF PostStands
  <2>3. (k \in alive \/ InHand(k))' => k \in alive \/ InHand(k)
    BY <1>4, <1>10, <1>15 DEF InHand, Passes
  <2>4. \A v \in Passes : k \in Settled(v)' => k \in Settled(v) /\ batch'[v].rev[k] = batch[v].rev[k]
    BY <1>10, <1>16, <1>17
  <2>5. k \in batch'["backlog"].whole =>
          k \in batch["backlog"].whole /\ batch'["backlog"].rev[k] = batch["backlog"].rev[k]
    BY <1>10 DEF Passes
  <2> QED BY <1>4, <1>15, <2>1, <2>2, <2>3, <2>4, <2>5, PostFramed
<1>18. PostStands(m)'
  <2>1. /\ PostStands(m) /\ RevisionOf(m) \in Int /\ RevisionOf(m)' = RevisionOf(m)
        /\ InHand(m) /\ texts[m] # <<>>
    <3>1. InHand(m)
      BY <1>1, <1>6 DEF InHand, LiveSide, Passes
    <3> QED BY <1>0, <1>6, <1>11, <3>1 DEF PostStands
  <2>2. asksFrom'[m] = IF Says(m, b.rev[m]) = "ask" THEN b.rev[m] ELSE Never
    BY <1>0, <1>4, <1>6 DEF ExtractionTypes, Revisions
  <2>3. {extractedAt[m], asksFrom[m], decision[m].rev}' \subseteq Never .. RevisionOf(m)'
    <3>1. extractedAt[m] \in Never .. RevisionOf(m) /\ decision[m].rev \in Never .. RevisionOf(m)
      BY <2>1 DEF PostStands
    <3>2. asksFrom'[m] \in Never .. RevisionOf(m)
      BY <1>6, <2>1, <2>2
    <3> QED BY <1>4, <2>1, <3>1, <3>2
  <2>4. b.rev[m] = RevisionOf(m) => RightAsks(m)'
    <3>1. Says(m, RevisionOf(m))' = Says(m, RevisionOf(m))
      BY <1>4, <2>1 DEF Says
    <3> QED BY <2>1, <2>2, <3>1 DEF RightAsks, AsksOfText
  <2>5. ASSUME m \notin astray
        PROVE  b.rev[m] # RevisionOf(m) =>
                 m \notin LiveSide /\ w = "backlog" /\ extractedAt[m] # RevisionOf(m)
    <3>1. m \in LiveSide => RevisionOf(m) = 0
      BY <2>1, <2>5 DEF PostStands
    <3>2. m \in LiveSide => b.rev[m] = RevisionOf(m)
      BY <1>6, <2>1, <3>1
    <3>3. w = "live" => m \in LiveSide
      BY <1>1, <1>6 DEF LiveSide
    <3>4. w = "backlog" /\ b.rev[m] # RevisionOf(m) => extractedAt[m] # RevisionOf(m)
      BY <1>1, <1>6, <2>1, <2>5 DEF PostStands
    <3> QED BY <3>2, <3>3, <3>4 DEF Passes
  <2>6. SUFFICES ASSUME m \notin astray'
                 PROVE  /\ (m \in LiveSide => RevisionOf(m) = 0)'
                        /\ (texts[m] # <<>> /\ extractedAt[m] = RevisionOf(m) => RightAsks(m))'
                        /\ \A v \in Passes :
                             (m \in Settled(v) /\ batch[v].rev[m] = RevisionOf(m) => RightAsks(m))'
                        /\ ((\/ m \in batch["backlog"].whole /\ batch["backlog"].rev[m] # RevisionOf(m)
                             \/ m \in pass.left /\ pass.rev[m] # RevisionOf(m))
                              => extractedAt[m] # RevisionOf(m))'
    BY <1>4, <2>1, <2>3 DEF PostStands
  <2>7. m \notin astray
    BY <1>4, <2>6
  <2>8. (m \in LiveSide => RevisionOf(m) = 0)'
    BY <1>6, <1>15, <2>1, <2>7 DEF PostStands
  <2>9. (texts[m] # <<>> /\ extractedAt[m] = RevisionOf(m) => RightAsks(m))'
    BY <1>4, <2>1, <2>4, <2>5, <2>7
  <2>10. ASSUME NEW v \in Passes, m \in Settled(v)', batch'[v].rev[m] = RevisionOf(m)'
         PROVE  RightAsks(m)'
    <3>1. CASE b.rev[m] = RevisionOf(m)
      BY <2>4, <3>1
    <3>2. CASE b.rev[m] # RevisionOf(m)
      <4>1. v # w
        BY <1>1, <1>10, <2>1, <2>10, <3>2
      <4>2. v = "live" /\ m \notin LiveSide
        BY <2>5, <2>7, <3>2, <4>1 DEF Passes
      <4>3. m \in batch["live"].whole
        <5>1. m \in Settled(v)
          BY <1>6, <1>16, <2>10, <4>1
        <5> QED BY <1>0, <4>2, <5>1 DEF Settled, BatchShape
      <4> QED BY <4>2, <4>3 DEF LiveSide
    <3> QED BY <3>1, <3>2
  <2>11. ((\/ m \in batch["backlog"].whole /\ batch["backlog"].rev[m] # RevisionOf(m)
           \/ m \in pass.left /\ pass.rev[m] # RevisionOf(m))
            => extractedAt[m] # RevisionOf(m))'
    <3>1. batch'["backlog"].whole = batch["backlog"].whole /\ batch'["backlog"].rev = batch["backlog"].rev
      BY <1>10 DEF Passes
    <3> QED BY <1>4, <2>1, <2>7, <3>1 DEF PostStands
  <2> QED BY <2>8, <2>9, <2>10, <2>11
<1> QED BY <1>12, <1>13, <1>14, <1>17, <1>18 DEF ExtractionIInv

(* A batch goes on record as read: what of it is current was settled.       *)
LEMMA BatchIsRecorded ==
    ASSUME ExtractionIInv, NEW w \in Passes, MarkExtracted(w)
    PROVE  ExtractionIInv'
<1> USE ExtractionNumbers
<1>0. /\ ExtractionTypes /\ (\A v \in Passes : BatchShape(v)) /\ OncePerPass
      /\ (\A k \in Posts : PostStands(k)) /\ batch \in [Passes -> Batches]
      /\ \A k \in Posts : RevisionOf(k) \in Int
  BY TextIs DEF ExtractionIInv, ExtractionTypes
<1>1. PICK b : b = batch[w]
  OBVIOUS
<1>2. PICK rec : rec = [m \in Posts |-> RecordedRevision(w, m)]
  OBVIOUS
<1>3. /\ b.at = "mark"
      /\ extractedAt' = [m \in Posts |-> IF m \in b.whole THEN rec[m] ELSE extractedAt[m]]
      /\ batch' = [batch EXCEPT ![w] = NoBatch]
      /\ UNCHANGED <<texts, alive, asksFrom, decision, queued, buffered, pass>>
  BY <1>1, <1>2 DEF MarkExtracted, channelVars, liveVars
<1>4. astray \subseteq astray' /\ \A k \in b.failed : rec[k] = RevisionOf(k) => k \in astray'
  <2>1. \A k \in b.failed : k \in Posts
    BY <1>0, <1>1 DEF Batches
  <2> QED BY <1>1, <1>2, <2>1 DEF MarkExtracted
<1>5. /\ b \in Batches /\ b.failed \subseteq b.whole /\ b.whole \subseteq Posts /\ b.left = {}
      /\ \A k \in b.whole : b.rev[k] \in 0 .. RevisionOf(k)
  BY <1>0, <1>1, <1>3 DEF BatchShape, Batches
<1>6. \A k \in Posts : /\ w = "live" => rec[k] = RevisionOf(k)
                       /\ w = "backlog" => rec[k] = b.rev[k]
  BY <1>1, <1>2 DEF RecordedRevision
<1>7. \A k \in b.whole : k \in Settled(w) \/ k \in b.failed
  BY <1>1, <1>5 DEF Settled
<1>8. /\ batch'[w] = NoBatch /\ batch' \in [Passes -> Batches]
      /\ \A v \in Passes : v # w => batch'[v] = batch[v]
  BY <1>0, <1>3, NothingInHand
<1>9. \A k \in Posts : RevisionOf(k)' = RevisionOf(k)
  BY <1>3 DEF RevisionOf
<1>10. \A k \in b.whole : rec[k] \in Never .. RevisionOf(k)
  <2>1. ASSUME NEW k \in b.whole PROVE rec[k] \in Never .. RevisionOf(k)
    <3>1. k \in Posts /\ RevisionOf(k) \in Int /\ b.rev[k] \in 0 .. RevisionOf(k)
      BY <1>0, <1>5
    <3>2. rec[k] = RevisionOf(k) \/ rec[k] = b.rev[k]
      BY <1>6, <3>1 DEF Passes
    <3> QED BY <3>1, <3>2
  <2> QED BY <2>1
<1>11. ExtractionTypes'
  <2>1. extractedAt' \in Revisions
    <3>1. extractedAt \in [Posts -> Int]
      BY <1>0 DEF ExtractionTypes, Revisions
    <3>2. \A k \in b.whole : rec[k] \in Int
      BY <1>0, <1>5, <1>10
    <3> QED BY <1>3, <3>1, <3>2 DEF Revisions
  <2> QED BY <1>0, <1>3, <1>8, <2>1 DEF ExtractionTypes
<1>12. \A v \in Passes : BatchShape(v)'
  <2>1. BatchShape(w)'
    BY <1>8, NothingInHand DEF BatchShape
  <2>2. ASSUME NEW v \in Passes, v # w PROVE BatchShape(v)'
    BY <1>3, <1>8, <2>2, BatchRests
  <2> QED BY <2>1, <2>2
<1>13. \A v \in Passes : /\ batch'[v].whole \subseteq batch[v].whole
                         /\ v # w => batch'[v].rev = batch[v].rev /\ batch'[v].whole = batch[v].whole
                         /\ v = w => batch'[v].whole = {}
  BY <1>8, NothingInHand
<1>14. OncePerPass'
  <2>1. \A k \in pass.left : k \in Posts
    BY <1>0 DEF ExtractionTypes
  <2>2. /\ batch'["live"].whole \subseteq batch["live"].whole
        /\ batch'["backlog"].whole \subseteq batch["backlog"].whole
        /\ \A k \in batch'["live"].whole : batch'["live"].rev[k] = batch["live"].rev[k]
    BY <1>13 DEF Passes
  <2> QED BY <1>0, <1>3, <1>9, <2>1, <2>2 DEF OncePerPass
<1>15. \A k \in Posts : k \in LiveSide' => k \in LiveSide
  BY <1>3, <1>13 DEF LiveSide, Passes
<1>16. \A k \in Posts : InHand(k)' => InHand(k)
  BY <1>3, <1>13, <1>15 DEF InHand, Passes
<1>17. \A k \in Posts : \A v \in Passes :
          k \in Settled(v)' => v # w /\ k \in Settled(v) /\ batch'[v].rev[k] = batch[v].rev[k]
  <2>1. ASSUME NEW k \in Posts, NEW v \in Passes, k \in Settled(v)'
        PROVE  v # w /\ k \in Settled(v) /\ batch'[v].rev[k] = batch[v].rev[k]
    <3>1. v # w
      BY <1>8, <2>1, NothingInHand DEF Settled
    <3> QED BY <1>8, <2>1, <3>1 DEF Settled
  <2> QED BY <2>1
<1>18. ASSUME NEW k \in Posts, k \notin b.whole PROVE PostStands(k)'
  <2>1. PostStands(k) /\ decision'[k].rev \in Never .. RevisionOf(k)
    BY <1>0, <1>3 DEF PostStands
  <2>2. extractedAt'[k] = extractedAt[k] /\ (k \in astray => k \in astray')
    BY <1>3, <1>4, <1>18
  <2>3. k \in batch'["backlog"].whole =>
          k \in batch["backlog"].whole /\ batch'["backlog"].rev[k] = batch["backlog"].rev[k]
    BY <1>13 DEF Passes
  <2> QED BY <1>3, <1>15, <1>16, <1>17, <2>1, <2>2, <2>3, PostFramed
<1>19. ASSUME NEW k \in Posts, k \in b.whole PROVE PostStands(k)'
  <2>1. /\ PostStands(k) /\ RevisionOf(k) \in Int /\ RevisionOf(k)' = RevisionOf(k)
        /\ texts[k] # <<>>
    <3>1. InHand(k)
      BY <1>1, <1>19 DEF InHand, LiveSide, Passes
    <3> QED BY <1>0, <1>9, <3>1 DEF PostStands
  <2>2. extractedAt'[k] = rec[k]
    BY <1>3, <1>19
  <2>3. {extractedAt[k], asksFrom[k], decision[k].rev}' \subseteq Never .. RevisionOf(k)'
    <3>1. asksFrom[k] \in Never .. RevisionOf(k) /\ decision[k].rev \in Never .. RevisionOf(k)
      BY <2>1 DEF PostStands
    <3>2. extractedAt'[k] \in Never .. RevisionOf(k)
      BY <1>10, <1>19, <2>2
    <3> QED BY <1>3, <2>1, <3>1, <3>2
  <2>4. RightAsks(k)' <=> RightAsks(k)
    BY <1>3 DEF RightAsks, RevisionOf, Candidate, Says, AsksOfText
  <2>5. SUFFICES ASSUME k \notin astray'
                 PROVE  /\ (k \in LiveSide => RevisionOf(k) = 0)'
                        /\ (texts[k] # <<>> /\ extractedAt[k] = RevisionOf(k) => RightAsks(k))'
                        /\ \A v \in Passes :
                             (k \in Settled(v) /\ batch[v].rev[k] = RevisionOf(k) => RightAsks(k))'
                        /\ ((\/ k \in batch["backlog"].whole /\ batch["backlog"].rev[k] # RevisionOf(k)
                             \/ k \in pass.left /\ pass.rev[k] # RevisionOf(k))
                              => extractedAt[k] # RevisionOf(k))'
    BY <1>3, <2>1, <2>3 DEF PostStands
  <2>6. k \notin astray
    BY <1>4, <2>5
  <2>7. w = "live" => RevisionOf(k) = 0 /\ b.rev[k] = 0
    <3>1. w = "live" => k \in LiveSide /\ b.rev[k] = 0
      BY <1>0, <1>1, <1>19 DEF LiveSide, OncePerPass
    <3> QED BY <2>1, <2>6, <3>1 DEF PostStands
  <2>8. (k \in LiveSide => RevisionOf(k) = 0)'
    BY <1>15, <2>1, <2>6 DEF PostStands
  <2>9. (texts[k] # <<>> /\ extractedAt[k] = RevisionOf(k) => RightAsks(k))'
    <3>1. SUFFICES ASSUME rec[k] = RevisionOf(k) PROVE RightAsks(k)
      BY <2>1, <2>2, <2>4
    <3>2. k \in Settled(w)
      BY <1>4, <1>7, <1>19, <2>5, <3>1
    <3>3. b.rev[k] = RevisionOf(k)
      BY <1>6, <2>7, <3>1 DEF Passes
    <3> QED BY <1>1, <2>1, <2>6, <3>2, <3>3 DEF PostStands
  <2>10. \A v \in Passes :
           (k \in Settled(v) /\ batch[v].rev[k] = RevisionOf(k) => RightAsks(k))'
    BY <1>17, <2>1, <2>4, <2>6 DEF PostStands
  <2>11. ((\/ k \in batch["backlog"].whole /\ batch["backlog"].rev[k] # RevisionOf(k)
           \/ k \in pass.left /\ pass.rev[k] # RevisionOf(k))
            => extractedAt[k] # RevisionOf(k))'
    <3>1. CASE w = "backlog"
      <4>1. k \notin batch'["backlog"].whole
        BY <1>13, <3>1 DEF Passes
      <4>2. k \notin pass.left
        BY <1>0, <1>1, <1>19, <3>1 DEF OncePerPass
      <4> QED BY <1>3, <4>1, <4>2
    <3>2. CASE w = "live"
      <4>1. /\ k \in pass.left => pass.rev[k] \in 0 .. RevisionOf(k)
            /\ k \in batch["backlog"].whole => batch["backlog"].rev[k] \in 0 .. RevisionOf(k)
        BY <1>0 DEF OncePerPass, BatchShape, Passes
      <4>2. /\ k \in pass.left => pass.rev[k] = RevisionOf(k)
            /\ k \in batch["backlog"].whole => batch["backlog"].rev[k] = RevisionOf(k)
        BY <2>7, <3>2, <4>1
      <4>3. batch'["backlog"] = batch["backlog"]
        BY <1>8, <3>2 DEF Passes
      <4> QED BY <1>3, <2>1, <4>2, <4>3
    <3> QED BY <3>1, <3>2 DEF Passes
  <2> QED BY <2>8, <2>9, <2>10, <2>11
<1> QED BY <1>11, <1>12, <1>14, <1>18, <1>19 DEF ExtractionIInv

LEMMA ExtractionStep ==
    ASSUME ExtractionIInv, [ExtractionNext]_extractionVars
    PROVE  ExtractionIInv'
<1>1. CASE \E m \in Posts, says \in Contents :
             CaptureText(m, says) \/ Import(m, says) \/ EditPost(m, says)
  BY <1>1, PostArrives, PostEdited
<1>2. CASE \/ \E m \in Posts : GrowsOld(m) \/ TombstonePost(m) \/ WithdrawMessage(m)
           \/ ResetExtraction
           \/ UNCHANGED extractionVars
  BY <1>2, ChannelGoesOn
<1>3. CASE \/ \E flush1 \in BOOLEAN : RunLive(flush1)
           \/ TakeChunk
  BY <1>3, WorkIsTaken
<1>4. CASE ReadPending \/ ContextFails
  BY <1>4, WorkIsRead
<1>5. CASE \E w \in Passes : ExtractStep(w) \/ StepFails(w) \/ BatchFails(w)
  BY <1>5, AsksAreRecorded, WorkerGoesOn, BatchIsRecorded DEF ExtractStep
<1>6. CASE IngestStops
  BY <1>6, WorkIsLost
<1> QED BY <1>1, <1>2, <1>3, <1>4, <1>5, <1>6 DEF ExtractionNext

LEMMA ExtractionMeans == ASSUME ExtractionIInv PROVE ExtractionTypeOK /\ MarkedIsRead
<1> USE ExtractionNumbers
<1>0. /\ ExtractionTypes /\ (\A w \in Passes : BatchShape(w)) /\ OncePerPass
      /\ \A m \in Posts : PostStands(m)
  BY DEF ExtractionIInv
<1>1. texts \in [Posts -> UNION {[1..n -> Contents] : n \in 0 .. MaxRevision + 1}]
  <2>1. ASSUME NEW m \in Posts
        PROVE  texts[m] \in UNION {[1..n -> Contents] : n \in 0 .. MaxRevision + 1}
    <3>1. texts[m] \in Seq(Contents) /\ Len(texts[m]) <= MaxRevision + 1
      BY <1>0 DEF ExtractionTypes
    <3>2. Len(texts[m]) \in 0 .. MaxRevision + 1 /\ texts[m] \in [1..Len(texts[m]) -> Contents]
      BY <3>1
    <3> QED BY <3>2
  <2> QED BY <1>0, <2>1 DEF ExtractionTypes
<1>2. alive \subseteq {m \in Posts : texts[m] # <<>>}
  BY <1>0 DEF ExtractionTypes, PostStands
<1>3. ExtractionTypeOK
  <2>1. \A m \in Posts : {extractedAt[m], asksFrom[m], decision[m].rev} \subseteq Never .. RevisionOf(m)
    BY <1>0 DEF PostStands
  <2>2. \A w \in Passes :
          /\ batch[w].at = "idle" <=> batch[w].whole = {}
          /\ batch[w].left \cup batch[w].failed \subseteq batch[w].whole
          /\ \A m \in batch[w].whole : batch[w].rev[m] \in 0 .. RevisionOf(m)
    BY <1>0 DEF BatchShape
  <2> QED BY <1>0, <1>1, <1>2, <2>1, <2>2 DEF ExtractionTypeOK, OncePerPass
<1>4. ASSUME NEW m \in alive \ astray, ~ExtractionPending(m), Candidate(m, RevisionOf(m))
      PROVE  asksFrom[m] = AsksOfText(m)
  <2>1. m \in Posts /\ texts[m] # <<>> /\ extractedAt[m] = RevisionOf(m)
    BY <1>2, <1>4 DEF ExtractionPending
  <2>2. RightAsks(m)
    BY <1>0, <1>4, <2>1 DEF PostStands
  <2> QED BY <1>4, <2>2 DEF RightAsks
<1> QED BY <1>3, <1>4 DEF MarkedIsRead

(* Whatever the captures, edits, deletions, failures and restarts, and      *)
(* however the live pass and the backlog's interleave: a message that is on *)
(* record as read has the asks of its text, unless the live pass read it    *)
(* under an edit or it could not be read (RECORD_EXTRACTION,                *)
(* ExtractionWorker, BacklogExtractionWorker).                              *)
THEOREM MarkedWasRead == ExtractionSpec => [](ExtractionTypeOK /\ MarkedIsRead)
<1>1. ExtractionInit => ExtractionIInv
  BY ExtractionInitially
<1>2. ExtractionIInv /\ [ExtractionNext]_extractionVars => ExtractionIInv'
  BY ExtractionStep
<1>3. ExtractionIInv => ExtractionTypeOK /\ MarkedIsRead
  BY ExtractionMeans
<1> QED BY <1>1, <1>2, <1>3, PTL DEF ExtractionSpec

-----------------------------------------------------------------------------
(* Documents                                                                *)

HandPlaces == {"idle", "fetch", "tombstone", "compare", "upsert", "replace", "replacing",
               "enter", "entering", "withdrawing", "purging"}
Records == {"none", "live", "withdrawn"}
HandRecords == [at : HandPlaces, share : Shares \cup {NoShare}, rev : 0 .. MaxSourceRevision,
                parsed : BOOLEAN, held : BOOLEAN, seen : BOOLEAN, snap : SUBSET Shares,
                from : SUBSET Shares, doomed : BOOLEAN]
DocumentRows == [rev : 0 .. MaxSourceRevision, deleted : BOOLEAN]
ChunkRows == [of : 0 .. MaxSourceRevision, channels : SUBSET Shares, deleted : BOOLEAN]

DocumentTypes ==
    /\ source \in 1 .. MaxSourceRevision /\ document \in DocumentRows /\ chunks \in ChunkRows
    /\ entry \in [Shares -> Records] /\ hand \in [Hands -> HandRecords]
    /\ removed \subseteq Shares /\ torn \in BOOLEAN /\ narrowed \in BOOLEAN

(* Whoever holds the document's id, there is one, and who saw its chunks,   *)
(* there are some; what was fetched is a revision there was, and what is    *)
(* entered is a share.                                                      *)
HandStands(r) ==
    /\ r.at \in {"compare", "upsert", "replace", "replacing", "enter", "entering"} => r.rev # 0
    /\ r.at \in {"enter", "entering", "withdrawing"} => r.share # NoShare
    /\ (r.held => document.rev # 0) /\ (r.seen => chunks.of # 0)

(* Chunks and entries go with their document.                               *)
RowsStand ==
    /\ document.rev = 0 => ~document.deleted /\ chunks.of = 0 /\ LiveOf(entry) = {}
    /\ chunks.of = 0 => chunks = NoChunks

(* An attempt is counted for a call that found some left.                   *)
InFlight == {h \in Hands : hand[h].at = "fetch" /\ hand[h].share # NoShare}
AttemptsCounted ==
    /\ failed \in Nat
    /\ failed + Cardinality(InFlight) < MaxAttempts + Cardinality(Hands)

DocumentsIInv ==
    /\ DocumentTypes /\ (\A h \in Hands : HandStands(hand[h])) /\ RowsStand /\ AttemptsCounted
    /\ (removed \ overtaken) \cap LiveOf(entry) = {}
    /\ SharesAreFound /\ ChunksAreOfTheRecord

LEMMA DocumentNumbers ==
    /\ MaxSourceRevision \in Nat /\ MaxSourceRevision >= 1 /\ MaxAttempts \in Nat /\ MaxAttempts >= 1
    /\ NoShare \notin Shares /\ IsFiniteSet(Hands) /\ Cardinality(Hands) \in Nat
<1>1. MaxSourceRevision \in Nat \ {0} /\ MaxAttempts \in Nat \ {0}
  BY DocumentsAssumption
<1> QED BY <1>1, DocumentsAssumption, FS_CardinalityType

(* NoDocument is the only row of revision 0.                                *)
LEMMA StoredIs ==
    ASSUME DocumentTypes, RowsStand
    PROVE  /\ Stored <=> document.rev # 0
           /\ chunks # NoChunks <=> chunks.of # 0
<1>1. document = [rev |-> document.rev, deleted |-> document.deleted]
  BY DEF DocumentTypes, DocumentRows
<1>2. document.rev = 0 => document = NoDocument
  <2>1. document.rev = 0 => document.deleted = FALSE
    BY DEF RowsStand, DocumentTypes, DocumentRows
  <2> QED BY <1>1, <2>1 DEF NoDocument
<1>3. NoDocument.rev = 0 /\ NoChunks.of = 0
  BY DEF NoDocument, NoChunks
<1> QED BY <1>2, <1>3 DEF Stored, RowsStand

LEMMA NobodysHand ==
    /\ Idle \in HandRecords /\ Idle.at = "idle" /\ ~Idle.held /\ ~Idle.seen /\ Idle.share = NoShare
    /\ NoDocument \in DocumentRows /\ NoDocument.rev = 0 /\ ~NoDocument.deleted
    /\ NoChunks \in ChunkRows /\ NoChunks.of = 0
BY DocumentNumbers DEF Idle, HandRecords, HandPlaces, NoDocument, DocumentRows, NoChunks, ChunkRows

LEMMA InFlightCounted ==
    ASSUME NEW S, S \subseteq Hands
    PROVE  IsFiniteSet(S) /\ Cardinality(S) \in Nat /\ Cardinality(S) <= Cardinality(Hands)
BY DocumentNumbers, FS_Subset, FS_CardinalityType

LEMMA DocumentsInitially == ASSUME DocumentsInit PROVE DocumentsIInv
<1> USE DocumentNumbers
<1>1. DocumentTypes
  <2>1. source \in 1 .. MaxSourceRevision
    BY DEF DocumentsInit
  <2>2. document \in DocumentRows /\ chunks \in ChunkRows /\ hand \in [Hands -> HandRecords]
    BY NobodysHand DEF DocumentsInit
  <2>3. entry \in [Shares -> Records] /\ removed \subseteq Shares /\ torn \in BOOLEAN
        /\ narrowed \in BOOLEAN
    BY DEF DocumentsInit, Records
  <2> QED BY <2>1, <2>2, <2>3 DEF DocumentTypes
<1>2. \A h \in Hands : hand[h] = Idle
  BY DEF DocumentsInit
<1>3. \A h \in Hands : HandStands(hand[h])
  BY <1>2, NobodysHand DEF HandStands
<1>4. LiveOf(entry) = {} /\ removed = {} /\ document.rev = 0 /\ ~document.deleted
      /\ chunks = NoChunks /\ chunks.of = 0
  BY NobodysHand DEF DocumentsInit, LiveOf
<1>5. RowsStand
  BY <1>4 DEF RowsStand
<1>6. AttemptsCounted
  <2>1. InFlight = {}
    BY <1>2, NobodysHand DEF InFlight
  <2>2. Cardinality(InFlight) = 0
    BY <2>1, FS_EmptySet
  <2>3. failed = 0
    BY DEF DocumentsInit
  <2> QED BY <2>2, <2>3 DEF AttemptsCounted
<1>7. SharesAreFound /\ ChunksAreOfTheRecord
  BY <1>1, <1>4, <1>5, StoredIs DEF SharesAreFound, ChunksAreOfTheRecord
<1> QED BY <1>1, <1>3, <1>4, <1>5, <1>6, <1>7 DEF DocumentsIInv

(* Somebody's hand moves on, over rows that stay as they are; who leaves    *)
(* the chunks' transaction in between is noticed.                           *)
LEMMA HandMoves ==
    ASSUME DocumentsIInv, NEW h \in Hands, NEW r \in HandRecords, HandStands(r),
           hand' = [hand EXCEPT ![h] = r],
           UNCHANGED <<source, document, chunks, entry, removed, overtaken, narrowed>>,
           torn' \in BOOLEAN, torn => torn',
           (hand[h].at \in Between /\ hand[h].held) => ((r.at \in Between /\ r.held) \/ torn'),
           AttemptsCounted'
    PROVE  DocumentsIInv'
<1>0. /\ DocumentTypes /\ (\A k \in Hands : HandStands(hand[k])) /\ RowsStand
      /\ (removed \ overtaken) \cap LiveOf(entry) = {}
      /\ SharesAreFound /\ ChunksAreOfTheRecord
  BY DEF DocumentsIInv
<1>1. hand'[h] = r /\ \A k \in Hands : k # h => hand'[k] = hand[k]
  BY <1>0 DEF DocumentTypes
<1>2. DocumentTypes'
  BY <1>0 DEF DocumentTypes
<1>3. ASSUME NEW k \in Hands PROVE HandStands(hand[k])'
  <2>1. HandStands(hand'[k])
    <3>1. CASE k = h
      BY <1>1, <3>1
    <3>2. CASE k # h
      BY <1>0, <1>1, <3>2
    <3> QED BY <3>1, <3>2
  <2> QED BY <2>1 DEF HandStands
<1>4. RowsStand' /\ ((removed \ overtaken) \cap LiveOf(entry) = {})'
  BY <1>0 DEF RowsStand, LiveOf
<1>5. SharesAreFound'
  BY <1>0 DEF SharesAreFound, Stored, LiveOf
<1>6. ChunksAreOfTheRecord'
  <2>1. SUFFICES ASSUME Stored', ~torn', \A k \in Hands : hand'[k].at \in Between => ~hand'[k].held
                 PROVE  chunks'.of = document'.rev
    BY DEF ChunksAreOfTheRecord
  <2>2. Stored /\ ~torn
    BY <2>1 DEF Stored
  <2>3. ASSUME NEW k \in Hands, hand[k].at \in Between PROVE ~hand[k].held
    <3>1. CASE k = h
      BY <1>1, <2>1, <2>3, <3>1
    <3>2. CASE k # h
      BY <1>1, <2>1, <2>3, <3>2
    <3> QED BY <3>1, <3>2
  <2> QED BY <1>0, <2>2, <2>3 DEF ChunksAreOfTheRecord
<1> QED BY <1>2, <1>3, <1>4, <1>5, <1>6 DEF DocumentsIInv

LEMMA NoneTaken ==
    ASSUME AttemptsCounted, failed' = failed,
           \A k \in Hands : hand'[k].at = "fetch" /\ hand'[k].share # NoShare => k \in InFlight
    PROVE  AttemptsCounted'
<1>1. InFlight' \subseteq InFlight /\ InFlight \subseteq Hands
  BY DEF InFlight
<1>2. IsFiniteSet(InFlight) /\ Cardinality(InFlight) \in Nat
  BY <1>1, InFlightCounted
<1>3. PICK S : S = InFlight'
  OBVIOUS
<1>4. S \in SUBSET InFlight
  BY <1>1, <1>3
<1>5. Cardinality(S) \in Nat /\ Cardinality(S) <= Cardinality(InFlight)
  BY <1>2, <1>4, FS_Subset, FS_CardinalityType
<1>6. AttemptsCounted' <=> failed' \in Nat /\ failed' + Cardinality(S) < MaxAttempts + Cardinality(Hands)
  BY <1>3 DEF AttemptsCounted
<1> QED BY <1>2, <1>5, <1>6, DocumentNumbers DEF AttemptsCounted

LEMMA HandGoesOn ==
    ASSUME DocumentsIInv, NEW h \in Hands, NEW r \in HandRecords, HandStands(r),
           hand' = [hand EXCEPT ![h] = r],
           UNCHANGED <<source, document, chunks, entry, failed, removed, overtaken, narrowed, torn>>,
           hand[h].at \in Between => r.at \in Between /\ r.held = hand[h].held,
           r.at = "fetch" => r.share = NoShare
    PROVE  DocumentsIInv'
<1>1. hand'[h] = r /\ \A k \in Hands : k # h => hand'[k] = hand[k]
  BY DEF DocumentsIInv, DocumentTypes
<1>2. ASSUME NEW k \in Hands, hand'[k].at = "fetch", hand'[k].share # NoShare PROVE k \in InFlight
  BY <1>1, <1>2 DEF InFlight
<1>3. AttemptsCounted'
  BY <1>2, NoneTaken DEF DocumentsIInv
<1>4. torn' \in BOOLEAN
  BY DEF DocumentsIInv, DocumentTypes
<1> QED BY <1>3, <1>4, HandMoves

(* What an attempt costs: one for a source that is down, one in all for a   *)
(* format that is not read.                                                 *)
LEMMA AttemptsTaken ==
    ASSUME DocumentsIInv, NEW h \in Hands,
           (\E s \in Shares : CaptureShare(h, s)) \/ Unretrievable(h) \/ Skip(h)
    PROVE  DocumentsIInv'
<1> USE DocumentNumbers
<1>0. /\ DocumentTypes /\ AttemptsCounted /\ failed \in Nat /\ hand \in [Hands -> HandRecords]
      /\ HandStands(hand[h])
  BY DEF DocumentsIInv, DocumentTypes, AttemptsCounted
<1>1. /\ UNCHANGED <<source, document, chunks, entry, removed, overtaken, narrowed, torn>>
      /\ torn' \in BOOLEAN
  BY <1>0 DEF CaptureShare, Unretrievable, Skip, doubtVars, DocumentTypes
<1>2. PICK S : S = InFlight'
  OBVIOUS
<1>3. /\ S = {k \in Hands : hand'[k].at = "fetch" /\ hand'[k].share # NoShare}
      /\ S \subseteq Hands /\ Cardinality(S) \in Nat
      /\ IsFiniteSet(InFlight) /\ Cardinality(InFlight) \in Nat /\ InFlight \subseteq Hands
      /\ Cardinality(S) <= Cardinality(Hands)
  <2>1. S = {k \in Hands : hand'[k].at = "fetch" /\ hand'[k].share # NoShare} /\ InFlight \subseteq Hands
    BY <1>2 DEF InFlight
  <2> QED BY <2>1, InFlightCounted
<1>4. AttemptsCounted' <=> failed' \in Nat /\ failed' + Cardinality(S) < MaxAttempts + Cardinality(Hands)
  BY <1>2 DEF AttemptsCounted
<1>5. ASSUME NEW s \in Shares, CaptureShare(h, s) PROVE DocumentsIInv'
  <2>1. PICK r : r = [Idle EXCEPT !.at = "fetch", !.share = s]
    OBVIOUS
  <2>2. hand[h] = Idle /\ failed < MaxAttempts /\ hand' = [hand EXCEPT ![h] = r] /\ failed' = failed
    BY <1>5, <2>1 DEF CaptureShare
  <2>3. r \in HandRecords /\ r.at = "fetch" /\ ~r.held /\ ~r.seen
    BY <2>1, NobodysHand DEF HandRecords, HandPlaces
  <2>4. HandStands(r)
    BY <2>3 DEF HandStands
  <2>5. AttemptsCounted'
    BY <1>0, <1>3, <1>4, <2>2
  <2>6. hand[h].at \notin Between
    BY <2>2, NobodysHand DEF Between
  <2> QED BY <1>1, <2>2, <2>3, <2>4, <2>5, <2>6, HandMoves
<1>6. CASE Skip(h)
  <2>1. PICK r : r = Idle
    OBVIOUS
  <2>2. /\ hand[h].at = "compare" /\ hand' = [hand EXCEPT ![h] = r]
        /\ failed' = failed \/ (failed = 0 /\ failed' = 1)
    BY <1>6, <2>1 DEF Skip
  <2>3. r \in HandRecords /\ r.at = "idle" /\ ~r.held /\ ~r.seen
    BY <2>1, NobodysHand
  <2>4. HandStands(r)
    BY <2>3 DEF HandStands
  <2>5. AttemptsCounted'
    <3>1. hand'[h] = r /\ \A k \in Hands : k # h => hand'[k] = hand[k]
      BY <1>0, <2>2
    <3>2. CASE failed' = failed
      <4>1. ASSUME NEW k \in Hands, hand'[k].at = "fetch", hand'[k].share # NoShare
            PROVE  k \in InFlight
        BY <2>3, <3>1, <4>1 DEF InFlight
      <4> QED BY <1>0, <3>2, <4>1, NoneTaken
    <3>3. CASE failed = 0 /\ failed' = 1
      <4>1. S \in SUBSET (Hands \ {h})
        BY <1>3, <2>3, <3>1
      <4>2. /\ IsFiniteSet(Hands \ {h})
            /\ Cardinality(Hands \ {h}) = Cardinality(Hands) - 1
        BY FS_RemoveElement
      <4>3. Cardinality(S) <= Cardinality(Hands \ {h})
        BY <4>1, <4>2, FS_Subset
      <4> QED BY <1>3, <1>4, <3>3, <4>2, <4>3
    <3> QED BY <2>2, <3>2, <3>3
  <2>6. hand[h].at \notin Between
    BY <2>2 DEF Between
  <2> QED BY <1>1, <2>2, <2>3, <2>4, <2>5, <2>6, HandMoves
<1>7. CASE Unretrievable(h) /\ hand[h].share # NoShare
  <2>1. PICK r : r = Idle
    OBVIOUS
  <2>2. /\ hand[h].at = "fetch" /\ hand' = [hand EXCEPT ![h] = r] /\ failed' = failed + 1
    BY <1>7, <2>1 DEF Unretrievable
  <2>3. r \in HandRecords /\ r.at = "idle" /\ ~r.held /\ ~r.seen
    BY <2>1, NobodysHand
  <2>4. HandStands(r)
    BY <2>3 DEF HandStands
  <2>5. AttemptsCounted'
    <3>1. hand'[h] = r /\ \A k \in Hands : k # h => hand'[k] = hand[k]
      BY <1>0, <2>2
    <3>2. h \in InFlight
      BY <1>7, <2>2 DEF InFlight
    <3>3. S = InFlight \ {h}
      BY <1>3, <2>3, <3>1 DEF InFlight
    <3>4. Cardinality(S) = Cardinality(InFlight) - 1
      BY <1>3, <3>2, <3>3, FS_RemoveElement
    <3> QED BY <1>0, <1>3, <1>4, <2>2, <3>4 DEF AttemptsCounted
  <2>6. hand[h].at \notin Between
    BY <2>2 DEF Between
  <2> QED BY <1>1, <2>2, <2>3, <2>4, <2>5, <2>6, HandMoves
<1>8. CASE Unretrievable(h) /\ hand[h].share = NoShare
  <2>1. PICK r : r = [hand[h] EXCEPT !.at = "tombstone"]
    OBVIOUS
  <2>2. hand[h].at = "fetch" /\ hand' = [hand EXCEPT ![h] = r] /\ failed' = failed
    BY <1>8, <2>1 DEF Unretrievable
  <2>3. r \in HandRecords /\ r.at = "tombstone" /\ r.held = hand[h].held
        /\ r.seen = hand[h].seen
    BY <1>0, <2>1 DEF HandRecords, HandPlaces
  <2>4. HandStands(r)
    BY <1>0, <2>3 DEF HandStands
  <2>5. hand[h].at \notin Between
    BY <2>2 DEF Between
  <2> QED BY <1>1, <2>2, <2>3, <2>4, <2>5, HandGoesOn
<1> QED BY <1>5, <1>6, <1>7, <1>8

LEMMA RefreshingIs ==
    ASSUME DocumentTypes, NEW h \in Hands, NEW at \in HandPlaces, NEW rows
    PROVE  \E r \in HandRecords :
             /\ Refreshing(h, at, rows) = [hand EXCEPT ![h] = r]
             /\ r.at = at /\ r.share = hand[h].share /\ r.rev = hand[h].rev
             /\ r.held = hand[h].held /\ r.seen = (chunks # NoChunks)
<1>1. hand[h] \in HandRecords /\ hand \in [Hands -> HandRecords]
  BY DEF DocumentTypes
<1>2. PICK r : r = [hand[h] EXCEPT !.at = at, !.snap = LiveOf(rows), !.seen = (chunks # NoChunks)]
  OBVIOUS
<1>3. LiveOf(rows) \in SUBSET Shares
  BY DEF LiveOf
<1>4. r \in HandRecords
  BY <1>1, <1>2, <1>3 DEF HandRecords
<1>5. r.at = at /\ r.share = hand[h].share /\ r.rev = hand[h].rev /\ r.held = hand[h].held
      /\ r.seen = (chunks # NoChunks)
  BY <1>1, <1>2 DEF HandRecords
<1>6. Refreshing(h, at, rows) = [hand EXCEPT ![h] = r]
  BY <1>1, <1>2 DEF Refreshing
<1> QED BY <1>4, <1>5, <1>6

(* What changes no row: the steps of a call before it commits.              *)
LEMMA CallsGoOn ==
    ASSUME DocumentsIInv, NEW h \in Hands,
           \/ Reconcile(h) \/ FetchDocument(h) \/ Compare(h) \/ ReplaceBegins(h) \/ EnterBegins(h)
           \/ Fails(h)
    PROVE  DocumentsIInv'
<1> USE DocumentNumbers
<1>0. /\ DocumentTypes /\ RowsStand /\ hand \in [Hands -> HandRecords] /\ hand[h] \in HandRecords
      /\ HandStands(hand[h]) /\ source \in 1 .. MaxSourceRevision
  BY DEF DocumentsIInv, DocumentTypes
<1>1. UNCHANGED <<source, document, chunks, entry, failed, removed, overtaken, narrowed>>
  BY DEF Reconcile, FetchDocument, Compare, ReplaceBegins, EnterBegins, Fails, doubtVars
<1>2. CASE Reconcile(h)
  <2>1. PICK r : r = [Idle EXCEPT !.at = "fetch", !.held = TRUE]
    OBVIOUS
  <2>2. /\ hand[h] = Idle /\ Stored /\ hand' = [hand EXCEPT ![h] = r] /\ torn' = torn
    BY <1>2, <2>1 DEF Reconcile, doubtVars
  <2>3. r \in HandRecords /\ r.at = "fetch" /\ r.share = NoShare /\ ~r.seen
    BY <2>1, NobodysHand DEF HandRecords, HandPlaces
  <2>4. HandStands(r)
    BY <1>0, <2>2, <2>3, StoredIs DEF HandStands
  <2>5. hand[h].at \notin Between
    BY <2>2, NobodysHand DEF Between
  <2> QED BY <1>1, <2>2, <2>3, <2>4, <2>5, HandGoesOn
<1>3. CASE FetchDocument(h)
  <2>1. PICK r : r = [hand[h] EXCEPT !.at = "compare", !.rev = source]
    OBVIOUS
  <2>2. hand[h].at = "fetch" /\ hand' = [hand EXCEPT ![h] = r] /\ torn' = torn
    BY <1>0, <1>3, <2>1 DEF FetchDocument, doubtVars
  <2>3. r \in HandRecords /\ r.at = "compare" /\ r.rev # 0 /\ r.held = hand[h].held
        /\ r.seen = hand[h].seen
    <3>1. source \in 0 .. MaxSourceRevision /\ source # 0
      BY <1>0
    <3>2. r \in HandRecords
      BY <1>0, <2>1, <3>1 DEF HandRecords, HandPlaces
    <3>3. r.at = "compare" /\ r.rev = source /\ r.held = hand[h].held /\ r.seen = hand[h].seen
      BY <1>0, <2>1 DEF HandRecords
    <3> QED BY <3>1, <3>2, <3>3
  <2>4. HandStands(r)
    BY <1>0, <2>3 DEF HandStands
  <2>5. hand[h].at \notin Between
    BY <2>2 DEF Between
  <2> QED BY <1>1, <2>2, <2>3, <2>4, <2>5, HandGoesOn
<1>4. CASE Compare(h)
  <2>1. PICK p \in BOOLEAN : hand' = [hand EXCEPT ![h].at = "upsert", ![h].parsed = p]
    BY <1>4 DEF Compare
  <2>2. PICK r : r = [hand[h] EXCEPT !.at = "upsert", !.parsed = p]
    OBVIOUS
  <2>3. hand[h].at = "compare" /\ hand' = [hand EXCEPT ![h] = r] /\ torn' = torn
    BY <1>0, <1>4, <2>1, <2>2 DEF Compare, doubtVars
  <2>4. r \in HandRecords /\ r.at = "upsert" /\ r.rev = hand[h].rev /\ r.held = hand[h].held
        /\ r.seen = hand[h].seen
    BY <1>0, <2>2 DEF HandRecords, HandPlaces
  <2>5. HandStands(r)
    BY <1>0, <2>3, <2>4 DEF HandStands
  <2>6. hand[h].at \notin Between
    BY <2>3 DEF Between
  <2> QED BY <1>1, <2>3, <2>4, <2>5, <2>6, HandGoesOn
<1>5. CASE ReplaceBegins(h)
  <2>1. /\ hand[h].at = "replace" /\ hand[h].held /\ hand' = Refreshing(h, "replacing", entry)
        /\ torn' = torn
    BY <1>5 DEF ReplaceBegins, doubtVars
  <2>2. PICK r \in HandRecords :
          /\ Refreshing(h, "replacing", entry) = [hand EXCEPT ![h] = r]
          /\ r.at = "replacing" /\ r.rev = hand[h].rev /\ r.held = hand[h].held
          /\ r.seen = (chunks # NoChunks)
    BY <1>0, RefreshingIs DEF HandPlaces
  <2>3. HandStands(r) /\ r.at \in Between
    BY <1>0, <2>1, <2>2, StoredIs DEF HandStands, Between
  <2> QED BY <1>1, <2>1, <2>2, <2>3, HandGoesOn
<1>6. CASE EnterBegins(h)
  <2>1. PICK rows : rows = Entered(hand[h].share)
    OBVIOUS
  <2>2. /\ hand[h].at = "enter" /\ hand' = Refreshing(h, "entering", rows) /\ torn' = torn
    BY <1>6, <2>1 DEF EnterBegins, doubtVars
  <2>3. PICK r \in HandRecords :
          /\ Refreshing(h, "entering", rows) = [hand EXCEPT ![h] = r]
          /\ r.at = "entering" /\ r.share = hand[h].share /\ r.rev = hand[h].rev
          /\ r.held = hand[h].held /\ r.seen = (chunks # NoChunks)
    BY <1>0, RefreshingIs DEF HandPlaces
  <2>4. HandStands(r) /\ hand[h].at \notin Between
    BY <1>0, <2>2, <2>3, StoredIs DEF HandStands, Between
  <2> QED BY <1>1, <2>2, <2>3, <2>4, HandGoesOn
<1>7. CASE Fails(h)
  <2>1. PICK r : r = Idle
    OBVIOUS
  <2>2. /\ hand' = [hand EXCEPT ![h] = r]
        /\ torn' = (torn \/ (hand[h].at \in Between /\ hand[h].held))
    BY <1>7, <2>1 DEF Fails
  <2>3. r \in HandRecords /\ r.at = "idle" /\ ~r.held /\ ~r.seen
    BY <2>1, NobodysHand
  <2>4. HandStands(r)
    BY <2>3 DEF HandStands
  <2>5. AttemptsCounted'
    <3>1. hand'[h] = r /\ \A k \in Hands : k # h => hand'[k] = hand[k]
      BY <1>0, <2>2
    <3>2. \A k \in Hands : hand'[k].at = "fetch" /\ hand'[k].share # NoShare => k \in InFlight
      BY <2>3, <3>1 DEF InFlight
    <3> QED BY <1>1, <3>2, NoneTaken DEF DocumentsIInv
  <2>6. /\ torn' \in BOOLEAN /\ (torn => torn')
        /\ hand[h].at \in Between /\ hand[h].held => torn'
    BY <1>0, <2>2 DEF DocumentTypes
  <2> QED BY <1>1, <2>2, <2>3, <2>4, <2>5, <2>6, HandMoves
<1> QED BY <1>2, <1>3, <1>4, <1>5, <1>6, <1>7

LEMMA WithdrawalsBegin ==
    ASSUME DocumentsIInv, NEW h \in Hands,
           (\E s \in Shares : WithdrawBegins(h, s)) \/ (\E S \in SUBSET Shares : PurgeBegins(h, S))
    PROVE  DocumentsIInv'
<1>0. /\ DocumentTypes /\ RowsStand /\ hand \in [Hands -> HandRecords] /\ hand[h] \in HandRecords
      /\ entry \in [Shares -> Records]
  BY DEF DocumentsIInv, DocumentTypes
<1>1. UNCHANGED <<source, document, chunks, entry, failed, removed, overtaken, narrowed, torn>>
  BY DEF WithdrawBegins, PurgeBegins, doubtVars
<1>2. hand[h] = Idle /\ hand[h].at \notin Between /\ hand[h].rev \in 0 .. MaxSourceRevision
  BY <1>0, NobodysHand DEF WithdrawBegins, PurgeBegins, Between, HandRecords
<1>3. ASSUME NEW s \in Shares, WithdrawBegins(h, s) PROVE DocumentsIInv'
  <2>1. PICK rows : rows = [entry EXCEPT ![s] = "withdrawn"]
    OBVIOUS
  <2>2. PICK F : F = {s} \cap LiveOf(entry)
    OBVIOUS
  <2>3. hand' = [Refreshing(h, "withdrawing", rows) EXCEPT ![h].share = s, ![h].from = F]
    BY <1>3, <2>1, <2>2 DEF WithdrawBegins
  <2>4. PICK q \in HandRecords :
          /\ Refreshing(h, "withdrawing", rows) = [hand EXCEPT ![h] = q]
          /\ q.at = "withdrawing" /\ q.held = hand[h].held
          /\ q.seen = (chunks # NoChunks)
    BY <1>0, RefreshingIs DEF HandPlaces
  <2>5. PICK r : r = [q EXCEPT !.share = s, !.from = F]
    OBVIOUS
  <2>6. hand' = [hand EXCEPT ![h] = r]
    BY <1>0, <2>3, <2>4, <2>5
  <2>7. r \in HandRecords /\ r.at = "withdrawing" /\ r.share = s /\ ~r.held
        /\ r.seen = (chunks # NoChunks)
    BY <1>2, <2>2, <2>4, <2>5, NobodysHand DEF HandRecords
  <2>8. HandStands(r)
    BY <1>0, <2>7, DocumentNumbers, StoredIs DEF HandStands
  <2> QED BY <1>1, <1>2, <2>6, <2>7, <2>8, HandGoesOn
<1>4. ASSUME NEW S \in SUBSET Shares, PurgeBegins(h, S) PROVE DocumentsIInv'
  <2>1. PICK rows : rows = [s \in Shares |-> IF s \in S THEN "none" ELSE entry[s]]
    OBVIOUS
  <2>2. PICK F : F = {s \in S : entry[s] # "none"}
    OBVIOUS
  <2>3. PICK d \in BOOLEAN :
          hand' = [Refreshing(h, "purging", rows)
                     EXCEPT ![h].from = F, ![h].doomed = d, ![h].held = TRUE]
    BY <1>4, <2>1, <2>2 DEF PurgeBegins
  <2>4. PICK q \in HandRecords :
          /\ Refreshing(h, "purging", rows) = [hand EXCEPT ![h] = q] /\ q.at = "purging"
          /\ q.seen = (chunks # NoChunks)
    BY <1>0, RefreshingIs DEF HandPlaces
  <2>5. PICK r : r = [q EXCEPT !.from = F, !.doomed = d, !.held = TRUE]
    OBVIOUS
  <2>6. hand' = [hand EXCEPT ![h] = r]
    BY <1>0, <2>3, <2>4, <2>5
  <2>7. r \in HandRecords /\ r.at = "purging" /\ r.seen = (chunks # NoChunks)
    BY <2>2, <2>4, <2>5 DEF HandRecords
  <2>8. HandStands(r)
    BY <1>0, <1>4, <2>7, StoredIs DEF HandStands, PurgeBegins
  <2> QED BY <1>1, <1>2, <2>6, <2>7, <2>8, HandGoesOn
<1> QED BY <1>3, <1>4

LEMMA SourceGoesOn == ASSUME DocumentsIInv, SourceChanges PROVE DocumentsIInv'
<1> USE DocumentNumbers
<1>1. /\ UNCHANGED <<document, chunks, entry, failed, hand, removed, overtaken, torn, narrowed>>
      /\ source' \in 1 .. MaxSourceRevision
  BY DEF SourceChanges, doubtVars, DocumentsIInv, DocumentTypes
<1>2. DocumentTypes' /\ AttemptsCounted' /\ RowsStand'
  BY <1>1 DEF DocumentsIInv, DocumentTypes, AttemptsCounted, InFlight, RowsStand, LiveOf
<1>3. \A h \in Hands : HandStands(hand[h])'
  BY <1>1 DEF DocumentsIInv, HandStands
<1>4. /\ ((removed \ overtaken) \cap LiveOf(entry) = {})'
      /\ SharesAreFound' /\ ChunksAreOfTheRecord'
  BY <1>1 DEF DocumentsIInv, LiveOf, SharesAreFound, ChunksAreOfTheRecord, Stored
<1> QED BY <1>2, <1>3, <1>4 DEF DocumentsIInv

(* The same of the rows that a step leaves.                                 *)
LEMMA StoredThen ==
    ASSUME DocumentTypes', RowsStand'
    PROVE  /\ Stored' <=> document'.rev # 0
           /\ chunks' # NoChunks <=> chunks'.of # 0
<1>1. PICK d : d = document'
  OBVIOUS
<1>2. d \in DocumentRows /\ (d.rev = 0 => ~d.deleted)
  BY <1>1 DEF DocumentTypes, RowsStand
<1>3. d = [rev |-> d.rev, deleted |-> d.deleted] /\ d.deleted \in BOOLEAN
  BY <1>2 DEF DocumentRows
<1>4. d.rev = 0 => d = NoDocument
  BY <1>2, <1>3 DEF NoDocument
<1>5. NoDocument.rev = 0 /\ NoChunks.of = 0
  BY DEF NoDocument, NoChunks
<1>6. Stored' <=> d # NoDocument
  BY <1>1 DEF Stored
<1>7. chunks'.of = 0 => chunks' = NoChunks
  BY DEF RowsStand
<1> QED BY <1>1, <1>4, <1>5, <1>6, <1>7

(* A call ends with rows of the same revisions.                             *)
LEMMA CallEnds ==
    ASSUME DocumentsIInv, NEW h \in Hands, hand[h].at \notin Between,
           hand' = [hand EXCEPT ![h] = Idle], UNCHANGED <<failed, torn>>,
           document'.rev = document.rev, chunks'.of = chunks.of,
           DocumentTypes', RowsStand', ((removed \ overtaken) \cap LiveOf(entry) = {})',
           SharesAreFound'
    PROVE  DocumentsIInv'
<1>0. /\ DocumentTypes /\ (\A k \in Hands : HandStands(hand[k])) /\ RowsStand /\ AttemptsCounted
      /\ ChunksAreOfTheRecord
  BY DEF DocumentsIInv
<1>1. hand'[h] = Idle /\ \A k \in Hands : k # h => hand'[k] = hand[k]
  BY <1>0 DEF DocumentTypes
<1>2. ASSUME NEW k \in Hands PROVE HandStands(hand[k])'
  <2>1. PICK r : r = hand'[k]
    OBVIOUS
  <2>2. CASE k = h
    BY <1>1, <2>1, <2>2, NobodysHand DEF HandStands
  <2>3. CASE k # h
    BY <1>0, <1>1, <2>1, <2>3 DEF HandStands
  <2> QED BY <2>2, <2>3
<1>3. AttemptsCounted'
  <2>1. \A k \in Hands : hand'[k].at = "fetch" /\ hand'[k].share # NoShare => k \in InFlight
    BY <1>1, NobodysHand DEF InFlight
  <2> QED BY <1>0, <2>1, NoneTaken
<1>4. ChunksAreOfTheRecord'
  <2>1. SUFFICES ASSUME Stored', ~torn', \A k \in Hands : hand'[k].at \in Between => ~hand'[k].held
                 PROVE  chunks'.of = document'.rev
    BY DEF ChunksAreOfTheRecord
  <2>2. Stored /\ ~torn
    BY <1>0, <2>1, StoredIs, StoredThen
  <2>3. ASSUME NEW k \in Hands, hand[k].at \in Between PROVE ~hand[k].held
    <3>1. k # h
      BY <2>3
    <3> QED BY <1>1, <2>1, <2>3, <3>1
  <2> QED BY <1>0, <2>2, <2>3 DEF ChunksAreOfTheRecord
<1> QED BY <1>2, <1>3, <1>4 DEF DocumentsIInv

(* What a refresh writes is what its commit finds, or it is said not to be. *)
LEMMA RefreshFinds ==
    ASSUME DocumentTypes, NEW h \in Hands, HandStands(hand[h]), RowsStand,
           chunks' = Refreshed(h), narrowed' = (narrowed \/ Stale(h))
    PROVE  /\ SharesAreFound'
           /\ chunks' \in ChunkRows /\ chunks'.of = chunks.of
           /\ chunks'.of = 0 => chunks' = NoChunks
<1>0. chunks \in ChunkRows /\ hand[h] \in HandRecords
  BY DEF DocumentTypes
<1>1. hand[h].snap \in SUBSET Shares
  BY <1>0 DEF HandRecords
<1>2. CASE hand[h].seen
  <2>1. chunks' = [chunks EXCEPT !.channels = hand[h].snap]
    BY <1>2 DEF Refreshed
  <2>2. chunks' \in ChunkRows /\ chunks'.of = chunks.of /\ chunks'.channels = hand[h].snap
    BY <1>0, <1>1, <2>1 DEF ChunkRows
  <2>3. chunks.of # 0
    BY <1>2 DEF HandStands
  <2>4. ~narrowed' => hand[h].snap = LiveOf(entry)'
    BY <1>2 DEF Stale, LiveOf
  <2> QED BY <2>2, <2>3, <2>4 DEF SharesAreFound
<1>3. CASE ~hand[h].seen
  <2>1. chunks' = chunks
    BY <1>3 DEF Refreshed
  <2>2. ~narrowed' => chunks' = NoChunks
    BY <1>3 DEF Stale
  <2> QED BY <1>0, <2>1, <2>2, NobodysHand DEF SharesAreFound, RowsStand
<1> QED BY <1>2, <1>3

LEMMA TombstoneStep ==
    ASSUME DocumentsIInv, NEW h \in Hands, Tombstone(h)
    PROVE  DocumentsIInv'
<1>0. /\ DocumentTypes /\ RowsStand /\ HandStands(hand[h]) /\ SharesAreFound
      /\ (removed \ overtaken) \cap LiveOf(entry) = {}
      /\ document \in DocumentRows /\ chunks \in ChunkRows /\ hand \in [Hands -> HandRecords]
  BY DEF DocumentsIInv, DocumentTypes
<1>1. /\ hand' = [hand EXCEPT ![h] = Idle] /\ hand[h].at = "tombstone"
      /\ UNCHANGED <<source, entry, failed, removed, overtaken, torn, narrowed>>
  BY DEF Tombstone, doubtVars
<1>2. /\ document' \in DocumentRows /\ document'.rev = document.rev
      /\ document'.rev = 0 => ~document'.deleted
      /\ chunks' \in ChunkRows /\ chunks'.of = chunks.of /\ chunks'.channels = chunks.channels
      /\ chunks'.of = 0 => chunks' = NoChunks
  <2>1. CASE hand[h].held
    <3>1. PICK gone \in BOOLEAN : gone = (chunks # NoChunks)
      OBVIOUS
    <3>2. /\ document' = [document EXCEPT !.deleted = TRUE]
          /\ chunks' = [chunks EXCEPT !.deleted = gone]
      BY <2>1, <3>1 DEF Tombstone
    <3>3. document' \in DocumentRows /\ document'.rev = document.rev
      BY <1>0, <3>2 DEF DocumentRows
    <3>4. chunks' \in ChunkRows /\ chunks'.of = chunks.of /\ chunks'.channels = chunks.channels
      BY <1>0, <3>2 DEF ChunkRows
    <3>5. document.rev # 0
      BY <1>0, <2>1 DEF HandStands
    <3>6. chunks.of = 0 => chunks' = NoChunks
      <4>1. SUFFICES ASSUME chunks.of = 0 PROVE chunks' = NoChunks
        OBVIOUS
      <4>2. chunks = NoChunks /\ ~gone
        BY <1>0, <3>1, <4>1 DEF RowsStand
      <4> QED BY <3>2, <4>2 DEF NoChunks
    <3> QED BY <3>3, <3>4, <3>5, <3>6
  <2>2. CASE ~hand[h].held
    <3>1. UNCHANGED <<document, chunks>>
      BY <2>2 DEF Tombstone
    <3> QED BY <1>0, <3>1 DEF RowsStand
  <2> QED BY <2>1, <2>2
<1>3. DocumentTypes'
  <2>1. hand' \in [Hands -> HandRecords]
    BY <1>0, <1>1, NobodysHand
  <2> QED BY <1>0, <1>1, <1>2, <2>1 DEF DocumentTypes
<1>4. RowsStand' /\ ((removed \ overtaken) \cap LiveOf(entry) = {})'
  BY <1>0, <1>1, <1>2 DEF RowsStand, LiveOf
<1>5. SharesAreFound'
  <2>1. Stored' => Stored
    BY <1>0, <1>2, <1>3, <1>4, StoredIs, StoredThen
  <2> QED BY <1>0, <1>1, <1>2, <2>1 DEF SharesAreFound, LiveOf
<1>6. hand[h].at \notin Between
  BY <1>1 DEF Between
<1> QED BY <1>1, <1>2, <1>3, <1>4, <1>5, <1>6, CallEnds

LEMMA EnterStep ==
    ASSUME DocumentsIInv, NEW h \in Hands, Enter(h)
    PROVE  DocumentsIInv'
<1>0. /\ DocumentTypes /\ RowsStand /\ HandStands(hand[h])
      /\ (removed \ overtaken) \cap LiveOf(entry) = {}
      /\ entry \in [Shares -> Records] /\ hand \in [Hands -> HandRecords]
      /\ hand[h] \in HandRecords
  BY DEF DocumentsIInv, DocumentTypes
<1>1. PICK s : s = hand[h].share
  OBVIOUS
<1>2. /\ hand[h].at = "entering" /\ hand[h].held /\ chunks' = Refreshed(h)
      /\ entry' = [entry EXCEPT ![s] = IF entry[s] = "none" THEN "live" ELSE entry[s]]
      /\ hand' = [hand EXCEPT ![h] = Idle] /\ narrowed' = (narrowed \/ Stale(h))
      /\ overtaken' = overtaken \cup (IF entry[s] = "none" THEN {s} \cap removed ELSE {})
      /\ UNCHANGED <<source, document, failed, removed, torn>>
  BY <1>1 DEF Enter, Entered
<1>3. s \in Shares
  BY <1>0, <1>1, <1>2, DocumentNumbers DEF HandStands, HandRecords
<1>4. /\ SharesAreFound' /\ chunks' \in ChunkRows /\ chunks'.of = chunks.of
      /\ chunks'.of = 0 => chunks' = NoChunks
  BY <1>0, <1>2, RefreshFinds
<1>5. DocumentTypes'
  <2>1. entry' \in [Shares -> Records] /\ hand' \in [Hands -> HandRecords]
    BY <1>0, <1>2, <1>3, NobodysHand DEF Records
  <2>2. narrowed' \in BOOLEAN
    BY <1>2
  <2> QED BY <1>0, <1>2, <1>4, <2>1, <2>2 DEF DocumentTypes
<1>6. RowsStand'
  <2>1. document.rev # 0
    BY <1>0, <1>2 DEF HandStands
  <2> QED BY <1>2, <1>4, <2>1 DEF RowsStand
<1>7. ((removed \ overtaken) \cap LiveOf(entry) = {})'
  <2>1. ASSUME NEW x \in Shares, x \in removed', x \notin overtaken', entry'[x] = "live" PROVE FALSE
    <3>1. x \in removed /\ x \notin overtaken
      BY <1>2, <2>1
    <3>2. entry[x] # "live"
      BY <1>0, <3>1 DEF LiveOf
    <3>3. x = s /\ entry[s] = "none"
      BY <1>0, <1>2, <2>1, <3>2
    <3> QED BY <1>2, <2>1, <3>1, <3>3
  <2> QED BY <2>1 DEF LiveOf
<1>8. hand[h].at \notin Between
  BY <1>2 DEF Between
<1> QED BY <1>2, <1>4, <1>5, <1>6, <1>7, <1>8, CallEnds

(* Entries are withdrawn or deleted, and the channels of those refreshed.   *)
LEMMA EntriesGo ==
    ASSUME DocumentsIInv, NEW h \in Hands, hand[h].at \notin Between,
           hand' = [hand EXCEPT ![h] = Idle], narrowed' = (narrowed \/ Stale(h)),
           chunks' = IF hand[h].from = {} THEN chunks ELSE Refreshed(h),
           entry' \in [Shares -> Records], LiveOf(entry)' \subseteq LiveOf(entry),
           hand[h].from = {} => entry' = entry,
           removed' \subseteq Shares, ((removed \ overtaken) \cap LiveOf(entry) = {})',
           UNCHANGED <<source, document, failed, torn>>
    PROVE  DocumentsIInv'
<1>0. /\ DocumentTypes /\ RowsStand /\ HandStands(hand[h]) /\ SharesAreFound
      /\ hand \in [Hands -> HandRecords] /\ chunks \in ChunkRows
  BY DEF DocumentsIInv, DocumentTypes
<1>1. /\ SharesAreFound' /\ chunks' \in ChunkRows /\ chunks'.of = chunks.of
      /\ chunks'.of = 0 => chunks' = NoChunks
  <2>1. CASE hand[h].from # {}
    BY <1>0, <2>1, RefreshFinds
  <2>2. CASE hand[h].from = {}
    <3>1. chunks' = chunks /\ entry' = entry /\ (narrowed => narrowed')
      BY <2>2
    <3> QED BY <1>0, <3>1 DEF SharesAreFound, RowsStand, Stored, LiveOf
  <2> QED BY <2>1, <2>2
<1>2. DocumentTypes'
  <2>1. hand' \in [Hands -> HandRecords]
    BY <1>0, NobodysHand
  <2>2. narrowed' \in BOOLEAN
    OBVIOUS
  <2> QED BY <1>0, <1>1, <2>1, <2>2 DEF DocumentTypes
<1>3. RowsStand'
  BY <1>0, <1>1 DEF RowsStand
<1> QED BY <1>1, <1>2, <1>3, CallEnds

LEMMA WithdrawStep ==
    ASSUME DocumentsIInv, NEW h \in Hands, Withdraw(h)
    PROVE  DocumentsIInv'
<1>0. /\ DocumentTypes /\ HandStands(hand[h]) /\ (removed \ overtaken) \cap LiveOf(entry) = {}
      /\ entry \in [Shares -> Records] /\ hand[h] \in HandRecords /\ removed \subseteq Shares
  BY DEF DocumentsIInv, DocumentTypes
<1>1. PICK s, mine : s = hand[h].share /\ mine = hand[h].from \cap LiveOf(entry)
  OBVIOUS
<1>2. /\ hand[h].at = "withdrawing" /\ hand' = [hand EXCEPT ![h] = Idle]
      /\ entry' = [x \in Shares |-> IF x \in mine THEN "withdrawn" ELSE entry[x]]
      /\ chunks' = IF hand[h].from = {} THEN chunks ELSE Refreshed(h)
      /\ removed' = removed \cup {s} /\ overtaken' = overtaken \cup ({s} \cap LiveOf(entry'))
      /\ narrowed' = (narrowed \/ Stale(h)) /\ UNCHANGED <<source, document, failed, torn>>
  BY <1>1 DEF Withdraw
<1>3. s \in Shares
  BY <1>0, <1>1, <1>2, DocumentNumbers DEF HandStands, HandRecords
<1>4. entry' \in [Shares -> Records]
  BY <1>0, <1>2 DEF Records
<1>5. LiveOf(entry)' \subseteq LiveOf(entry)
  BY <1>2 DEF LiveOf
<1>6. hand[h].from = {} => entry' = entry
  BY <1>0, <1>1, <1>2
<1>7. ((removed \ overtaken) \cap LiveOf(entry) = {})'
  <2>1. LiveOf(entry') = LiveOf(entry)'
    BY DEF LiveOf
  <2> QED BY <1>0, <1>2, <1>5, <2>1
<1>8. removed' \subseteq Shares /\ hand[h].at \notin Between
  BY <1>0, <1>2, <1>3 DEF Between
<1> QED BY <1>2, <1>4, <1>5, <1>6, <1>7, <1>8, EntriesGo

LEMMA PurgeStep ==
    ASSUME DocumentsIInv, NEW h \in Hands, Purge(h)
    PROVE  DocumentsIInv'
<1>0. /\ DocumentTypes /\ (\A k \in Hands : HandStands(hand[k])) /\ AttemptsCounted
      /\ (removed \ overtaken) \cap LiveOf(entry) = {} /\ removed \subseteq Shares
      /\ entry \in [Shares -> Records] /\ hand \in [Hands -> HandRecords]
  BY DEF DocumentsIInv, DocumentTypes
<1>1. hand[h].at = "purging" /\ UNCHANGED <<source, failed, removed, overtaken>>
  BY DEF Purge
<1>2. CASE hand[h].doomed /\ hand[h].held
  <2>1. /\ document' = NoDocument /\ chunks' = NoChunks /\ entry' = [s \in Shares |-> "none"]
        /\ hand' = [x \in Hands |-> IF x = h THEN Idle
                                    ELSE [hand[x] EXCEPT !.held = FALSE, !.seen = FALSE]]
        /\ torn' = FALSE /\ narrowed' = FALSE
    BY <1>2 DEF Purge, OthersHold
  <2>2. ASSUME NEW k \in Hands
        PROVE  /\ hand'[k] \in HandRecords /\ ~hand'[k].held /\ ~hand'[k].seen
               /\ k # h => /\ hand'[k].at = hand[k].at /\ hand'[k].rev = hand[k].rev
                           /\ hand'[k].share = hand[k].share
    <3>1. CASE k = h
      BY <2>1, <3>1, NobodysHand
    <3>2. CASE k # h
      <4>1. hand'[k] = [hand[k] EXCEPT !.held = FALSE, !.seen = FALSE] /\ hand[k] \in HandRecords
        BY <1>0, <2>1, <3>2
      <4> QED BY <4>1 DEF HandRecords
    <3> QED BY <3>1, <3>2
  <2>3. ASSUME NEW k \in Hands PROVE HandStands(hand[k])'
    <3>1. PICK r : r = hand'[k]
      OBVIOUS
    <3>2. CASE k = h
      BY <2>1, <3>1, <3>2, NobodysHand DEF HandStands
    <3>3. CASE k # h
      BY <1>0, <2>2, <3>1, <3>3 DEF HandStands
    <3> QED BY <3>2, <3>3
  <2>4. LiveOf(entry)' = {}
    BY <2>1 DEF LiveOf
  <2>5. RowsStand'
    BY <2>1, <2>4, NobodysHand DEF RowsStand
  <2>6. DocumentTypes'
    <3>1. hand' \in [Hands -> HandRecords]
      BY <2>1, <2>2
    <3>2. entry' \in [Shares -> Records]
      BY <2>1 DEF Records
    <3>3. torn' \in BOOLEAN /\ narrowed' \in BOOLEAN
      BY <2>1
    <3> QED BY <1>0, <1>1, <2>1, <3>1, <3>2, <3>3, NobodysHand DEF DocumentTypes
  <2>7. ~Stored'
    BY <2>1 DEF Stored
  <2>8. SharesAreFound' /\ ChunksAreOfTheRecord'
    BY <2>7 DEF SharesAreFound, ChunksAreOfTheRecord
  <2>9. AttemptsCounted'
    <3>1. ASSUME NEW k \in Hands, hand'[k].at = "fetch", hand'[k].share # NoShare
          PROVE  k \in InFlight
      <4>1. k # h
        BY <2>1, <3>1, NobodysHand
      <4> QED BY <2>2, <3>1, <4>1 DEF InFlight
    <3> QED BY <1>0, <1>1, <3>1, NoneTaken
  <2> QED BY <2>3, <2>4, <2>5, <2>6, <2>8, <2>9 DEF DocumentsIInv
<1>3. CASE ~(hand[h].doomed /\ hand[h].held)
  <2>1. /\ entry' = [s \in Shares |-> IF s \in hand[h].from THEN "none" ELSE entry[s]]
        /\ chunks' = IF hand[h].from = {} THEN chunks ELSE Refreshed(h)
        /\ hand' = [hand EXCEPT ![h] = Idle] /\ narrowed' = (narrowed \/ Stale(h))
        /\ UNCHANGED <<document, torn>>
    BY <1>3 DEF Purge
  <2>2. entry' \in [Shares -> Records]
    BY <1>0, <2>1 DEF Records
  <2>3. LiveOf(entry)' \subseteq LiveOf(entry)
    BY <2>1 DEF LiveOf
  <2>4. hand[h].from = {} => entry' = entry
    BY <1>0, <2>1
  <2>5. ((removed \ overtaken) \cap LiveOf(entry) = {})'
    BY <1>0, <1>1, <2>3
  <2>6. removed' \subseteq Shares /\ hand[h].at \notin Between
    BY <1>0, <1>1 DEF Between
  <2> QED BY <1>1, <2>1, <2>2, <2>3, <2>4, <2>5, <2>6, EntriesGo
<1> QED BY <1>2, <1>3

(* The two commits that another call can come between.                      *)
LEMMA UpsertStep ==
    ASSUME DocumentsIInv, NEW h \in Hands, UpsertDocument(h)
    PROVE  DocumentsIInv'
<1>0. /\ DocumentTypes /\ (\A k \in Hands : HandStands(hand[k])) /\ RowsStand /\ AttemptsCounted
      /\ (removed \ overtaken) \cap LiveOf(entry) = {} /\ SharesAreFound /\ ChunksAreOfTheRecord
      /\ hand \in [Hands -> HandRecords] /\ hand[h] \in HandRecords /\ document \in DocumentRows
  BY DEF DocumentsIInv, DocumentTypes
<1>1. /\ hand[h].at = "upsert"
      /\ document' = [rev |-> hand[h].rev, deleted |-> document.deleted]
      /\ torn' = \/ torn
                 \/ \E x \in Hands \ {h} : hand[x].at \in Between
                 \/ ~hand[h].parsed /\ document.rev # hand[h].rev
      /\ UNCHANGED <<source, chunks, entry, failed, removed, overtaken, narrowed>>
  BY DEF UpsertDocument
<1>2. document' \in DocumentRows /\ document'.rev = hand[h].rev /\ document'.rev # 0
  BY <1>0, <1>1 DEF DocumentRows, HandRecords, HandStands
<1>3. PICK r : /\ hand' = [hand EXCEPT ![h] = r] /\ r \in HandRecords
               /\ \/ r = Idle /\ ~hand[h].parsed
                  \/ /\ r.at = "replace" /\ r.held /\ hand[h].parsed
                  \/ /\ r.at = "enter" /\ r.held /\ ~hand[h].parsed /\ r.share # NoShare
               /\ r # Idle => r.rev = hand[h].rev /\ r.seen = hand[h].seen
  <2>1. CASE hand[h].parsed
    <3>1. PICK r : r = [hand[h] EXCEPT !.at = "replace", !.held = TRUE]
      OBVIOUS
    <3>2. hand' = [hand EXCEPT ![h] = r]
      BY <2>1, <3>1 DEF UpsertDocument
    <3>3. /\ r \in HandRecords /\ r.at = "replace" /\ r.held
          /\ r.rev = hand[h].rev /\ r.seen = hand[h].seen
      BY <1>0, <3>1 DEF HandRecords, HandPlaces
    <3> QED BY <2>1, <3>2, <3>3
  <2>2. CASE ~hand[h].parsed /\ hand[h].share = NoShare
    <3>1. hand' = [hand EXCEPT ![h] = Idle]
      BY <2>2 DEF UpsertDocument
    <3> QED BY <2>2, <3>1, NobodysHand
  <2>3. CASE ~hand[h].parsed /\ hand[h].share # NoShare
    <3>1. PICK r : r = [hand[h] EXCEPT !.at = "enter", !.held = TRUE]
      OBVIOUS
    <3>2. hand' = [hand EXCEPT ![h] = r]
      BY <2>3, <3>1 DEF UpsertDocument
    <3>3. /\ r \in HandRecords /\ r.at = "enter" /\ r.held /\ r.share = hand[h].share
          /\ r.rev = hand[h].rev /\ r.seen = hand[h].seen
      BY <1>0, <3>1 DEF HandRecords, HandPlaces
    <3> QED BY <2>3, <3>2, <3>3
  <2> QED BY <2>1, <2>2, <2>3
<1>4. hand'[h] = r /\ \A k \in Hands : k # h => hand'[k] = hand[k]
  BY <1>0, <1>3
<1>5. ASSUME NEW k \in Hands PROVE HandStands(hand[k])'
  <2>1. PICK q : q = hand'[k]
    OBVIOUS
  <2>2. CASE k # h
    BY <1>0, <1>1, <1>2, <1>4, <2>1, <2>2 DEF HandStands
  <2>3. CASE k = h /\ r = Idle
    BY <1>4, <2>1, <2>3, NobodysHand DEF HandStands
  <2>4. CASE k = h /\ r # Idle
    <3>1. q.at \in {"replace", "enter"} /\ q.rev # 0 /\ (q.at = "enter" => q.share # NoShare)
      BY <1>2, <1>3, <1>4, <2>1, <2>4
    <3>2. q.seen => chunks'.of # 0
      BY <1>0, <1>1, <1>3, <1>4, <2>1, <2>4 DEF HandStands
    <3> QED BY <1>2, <2>1, <3>1, <3>2 DEF HandStands
  <2> QED BY <2>2, <2>3, <2>4
<1>6. DocumentTypes'
  <2>1. hand' \in [Hands -> HandRecords]
    BY <1>0, <1>3
  <2>2. torn' \in BOOLEAN
    BY <1>0, <1>1 DEF DocumentTypes
  <2> QED BY <1>0, <1>1, <1>2, <2>1, <2>2 DEF DocumentTypes
<1>7. RowsStand' /\ ((removed \ overtaken) \cap LiveOf(entry) = {})'
  BY <1>0, <1>1, <1>2 DEF RowsStand, LiveOf
<1>8. AttemptsCounted'
  <2>1. r.at = "fetch" => r.share = NoShare
    BY <1>3, NobodysHand
  <2>2. \A k \in Hands : hand'[k].at = "fetch" /\ hand'[k].share # NoShare => k \in InFlight
    BY <1>4, <2>1 DEF InFlight
  <2> QED BY <1>0, <1>1, <2>2, NoneTaken
<1>9. SharesAreFound'
  <2>1. chunks.of # 0 => Stored
    BY <1>0, StoredIs DEF RowsStand
  <2> QED BY <1>0, <1>1, <2>1 DEF SharesAreFound, LiveOf
<1>10. ChunksAreOfTheRecord'
  <2>1. SUFFICES ASSUME ~torn', \A k \in Hands : hand'[k].at \in Between => ~hand'[k].held
                 PROVE  chunks'.of = document'.rev
    BY DEF ChunksAreOfTheRecord
  <2>2. ~hand[h].parsed
    BY <1>3, <1>4, <2>1 DEF Between
  <2>3. ~torn /\ document.rev = hand[h].rev /\ \A x \in Hands \ {h} : hand[x].at \notin Between
    BY <1>1, <2>1, <2>2
  <2>4. \A k \in Hands : hand[k].at \notin Between
    BY <1>1, <2>3 DEF Between
  <2>5. Stored
    BY <1>0, <1>2, <2>3, StoredIs
  <2> QED BY <1>0, <1>1, <1>2, <2>3, <2>4, <2>5 DEF ChunksAreOfTheRecord
<1> QED BY <1>5, <1>6, <1>7, <1>8, <1>9, <1>10 DEF DocumentsIInv

LEMMA ReplaceStep ==
    ASSUME DocumentsIInv, NEW h \in Hands, Replace(h)
    PROVE  DocumentsIInv'
<1>0. /\ DocumentTypes /\ (\A k \in Hands : HandStands(hand[k])) /\ RowsStand /\ AttemptsCounted
      /\ (removed \ overtaken) \cap LiveOf(entry) = {}
      /\ hand \in [Hands -> HandRecords] /\ hand[h] \in HandRecords
  BY DEF DocumentsIInv, DocumentTypes
<1>1. /\ hand[h].at = "replacing" /\ hand[h].held /\ hand[h].seen = (chunks # NoChunks)
      /\ chunks' = [of |-> hand[h].rev, channels |-> hand[h].snap, deleted |-> FALSE]
      /\ torn' = (document.rev # hand[h].rev \/ \E x \in Hands \ {h} : hand[x].at \in Between)
      /\ narrowed' = (hand[h].snap # LiveOf(entry))
      /\ UNCHANGED <<source, document, entry, failed, removed, overtaken>>
  BY DEF Replace, ChunksOf
<1>2. /\ chunks' \in ChunkRows /\ chunks'.of = hand[h].rev /\ chunks'.of # 0
      /\ chunks'.channels = hand[h].snap
  <2>1. hand[h].rev # 0
    BY <1>0, <1>1 DEF HandStands
  <2> QED BY <1>0, <1>1, <2>1 DEF ChunkRows, HandRecords
<1>3. PICK r : r = IF hand[h].share = NoShare THEN Idle ELSE [hand[h] EXCEPT !.at = "enter"]
  OBVIOUS
<1>4. /\ r \in HandRecords /\ r.at \in {"idle", "enter"}
      /\ r.at = "enter" => r.share # NoShare /\ r.rev # 0
      /\ r.held => document.rev # 0
  <2>1. CASE hand[h].share = NoShare
    BY <1>3, <2>1, NobodysHand
  <2>2. CASE hand[h].share # NoShare
    <3>1. r = [hand[h] EXCEPT !.at = "enter"]
      BY <1>3, <2>2
    <3>2. /\ r \in HandRecords /\ r.at = "enter" /\ r.share = hand[h].share
          /\ r.rev = hand[h].rev /\ r.held = hand[h].held
      BY <1>0, <3>1 DEF HandRecords, HandPlaces
    <3> QED BY <1>0, <1>1, <2>2, <3>2 DEF HandStands
  <2> QED BY <2>1, <2>2
<1>5. hand' = [x \in Hands |-> IF x = h THEN r ELSE [hand[x] EXCEPT !.seen = FALSE]]
  BY <1>3 DEF Replace, OthersSee
<1>6. ASSUME NEW k \in Hands, k # h
      PROVE  /\ hand'[k] \in HandRecords /\ ~hand'[k].seen /\ hand'[k].at = hand[k].at
             /\ hand'[k].rev = hand[k].rev /\ hand'[k].share = hand[k].share
             /\ hand'[k].held = hand[k].held
  <2>1. hand'[k] = [hand[k] EXCEPT !.seen = FALSE] /\ hand[k] \in HandRecords
    BY <1>0, <1>5, <1>6
  <2> QED BY <2>1 DEF HandRecords
<1>7. hand'[h] = r
  BY <1>5
<1>8. ASSUME NEW k \in Hands PROVE HandStands(hand[k])'
  <2>1. PICK q : q = hand'[k]
    OBVIOUS
  <2>2. CASE k = h
    BY <1>1, <1>2, <1>4, <1>7, <2>1, <2>2 DEF HandStands
  <2>3. CASE k # h
    BY <1>0, <1>1, <1>6, <2>1, <2>3 DEF HandStands
  <2> QED BY <2>2, <2>3
<1>9. DocumentTypes'
  <2>1. ASSUME NEW k \in Hands PROVE hand'[k] \in HandRecords
    <3>1. CASE k = h
      BY <1>4, <1>7, <3>1
    <3>2. CASE k # h
      BY <1>6, <3>2
    <3> QED BY <3>1, <3>2
  <2>2. hand' \in [Hands -> HandRecords]
    BY <1>5, <2>1
  <2>3. torn' \in BOOLEAN /\ narrowed' \in BOOLEAN
    BY <1>1
  <2> QED BY <1>0, <1>1, <1>2, <2>2, <2>3 DEF DocumentTypes
<1>10. RowsStand' /\ ((removed \ overtaken) \cap LiveOf(entry) = {})'
  <2>1. document.rev # 0
    BY <1>0, <1>1 DEF HandStands
  <2> QED BY <1>0, <1>1, <1>2, <2>1 DEF RowsStand, LiveOf
<1>11. AttemptsCounted'
  <2>1. ASSUME NEW k \in Hands, hand'[k].at = "fetch", hand'[k].share # NoShare PROVE k \in InFlight
    <3>1. k # h
      BY <1>4, <1>7, <2>1
    <3> QED BY <1>6, <2>1, <3>1 DEF InFlight
  <2> QED BY <1>0, <1>1, <2>1, NoneTaken
<1>12. SharesAreFound'
  BY <1>1, <1>2 DEF SharesAreFound, LiveOf
<1>13. ChunksAreOfTheRecord'
  BY <1>1, <1>2 DEF ChunksAreOfTheRecord
<1> QED BY <1>8, <1>9, <1>10, <1>11, <1>12, <1>13 DEF DocumentsIInv

LEMMA DocumentsStep ==
    ASSUME DocumentsIInv, [DocumentsNext]_documentVars
    PROVE  DocumentsIInv'
<1>1. CASE UNCHANGED documentVars
  <2>1. UNCHANGED <<source, document, chunks, entry, failed, hand, removed, overtaken, torn, narrowed>>
    BY <1>1 DEF documentVars, doubtVars
  <2>2. DocumentTypes' /\ AttemptsCounted' /\ RowsStand'
    BY <2>1 DEF DocumentsIInv, DocumentTypes, AttemptsCounted, InFlight, RowsStand, LiveOf
  <2>3. \A h \in Hands : HandStands(hand[h])'
    BY <2>1 DEF DocumentsIInv, HandStands
  <2>4. /\ ((removed \ overtaken) \cap LiveOf(entry) = {})'
        /\ SharesAreFound' /\ ChunksAreOfTheRecord'
    BY <2>1 DEF DocumentsIInv, LiveOf, SharesAreFound, ChunksAreOfTheRecord, Stored
  <2> QED BY <2>2, <2>3, <2>4 DEF DocumentsIInv
<1>2. CASE SourceChanges
  BY <1>2, SourceGoesOn
<1>3. ASSUME NEW h \in Hands, HandStep(h) PROVE DocumentsIInv'
  <2>1. CASE Unretrievable(h) \/ Skip(h)
    BY <2>1, AttemptsTaken
  <2>2. CASE FetchDocument(h) \/ Compare(h) \/ ReplaceBegins(h) \/ EnterBegins(h) \/ Fails(h)
    BY <2>2, CallsGoOn
  <2>3. CASE Tombstone(h)
    BY <2>3, TombstoneStep
  <2>4. CASE UpsertDocument(h)
    BY <2>4, UpsertStep
  <2>5. CASE Replace(h)
    BY <2>5, ReplaceStep
  <2>6. CASE Enter(h)
    BY <2>6, EnterStep
  <2>7. CASE Withdraw(h)
    BY <2>7, WithdrawStep
  <2>8. CASE Purge(h)
    BY <2>8, PurgeStep
  <2> QED BY <1>3, <2>1, <2>2, <2>3, <2>4, <2>5, <2>6, <2>7, <2>8 DEF HandStep
<1>4. ASSUME NEW h \in Hands, Reconcile(h) PROVE DocumentsIInv'
  BY <1>4, CallsGoOn
<1>5. ASSUME NEW h \in Hands, NEW s \in Shares, CaptureShare(h, s) PROVE DocumentsIInv'
  BY <1>5, AttemptsTaken
<1>6. ASSUME NEW h \in Hands, NEW s \in Shares, WithdrawBegins(h, s) PROVE DocumentsIInv'
  BY <1>6, WithdrawalsBegin
<1>7. ASSUME NEW h \in Hands, NEW S \in SUBSET Shares, PurgeBegins(h, S) PROVE DocumentsIInv'
  BY <1>7, WithdrawalsBegin
<1> QED BY <1>1, <1>2, <1>3, <1>4, <1>5, <1>6, <1>7 DEF DocumentsNext

LEMMA DocumentsMean == ASSUME DocumentsIInv PROVE DocumentsInv
<1> USE DocumentNumbers
<1>0. /\ DocumentTypes /\ AttemptsCounted /\ (removed \ overtaken) \cap LiveOf(entry) = {}
      /\ SharesAreFound /\ ChunksAreOfTheRecord
  BY DEF DocumentsIInv
<1>1. DocumentsTypeOK
  <2>1. IsFiniteSet(InFlight) /\ Cardinality(InFlight) \in Nat
    BY InFlightCounted DEF InFlight
  <2>2. failed \in 0 .. (MaxAttempts + Cardinality(Hands))
    BY <1>0, <2>1 DEF AttemptsCounted
  <2> QED BY <1>0, <2>2 DEF DocumentsTypeOK, DocumentTypes, DocumentRows, ChunkRows, Records
<1>2. WithdrawnIsNotFound
  BY <1>0 DEF WithdrawnIsNotFound, FoundIn, LiveOf, DocumentTypes
<1> QED BY <1>0, <1>1, <1>2 DEF DocumentsInv

(* For any shares, calls, revisions and attempts: a withdrawn share is not  *)
(* found again unless it was entered after its message was deleted; a live  *)
(* one is found unless two refreshes crossed; the text found is of the      *)
(* content on record unless an ingestion stopped or was crossed; the        *)
(* attempts exceed their maximum by no more than the calls under way        *)
(* (IngestDocument, the store's upsert, replace, record and purge).         *)
THEOREM DocumentsKeepTheirWord == DocumentsSpec => []DocumentsInv
<1>1. DocumentsInit => DocumentsIInv
  BY DocumentsInitially
<1>2. DocumentsIInv /\ [DocumentsNext]_documentVars => DocumentsIInv'
  BY DocumentsStep
<1>3. DocumentsIInv => DocumentsInv
  BY DocumentsMean
<1> QED BY <1>1, <1>2, <1>3, PTL DEF DocumentsSpec

-----------------------------------------------------------------------------
(* The parts of the ingest process, one after another                       *)

LEMMA NoHistoryStands == ASSUME NoHistory PROVE BackfillIInv
<1> USE HistoryNumbers
<1>1. TypeOK
  BY DEF NoHistory, TypeOK, IdleBack, IdleRecon, Backfilling, Reconciling
<1>2. NoGaps
  BY DEF NoHistory, NoGaps
<1> QED BY <1>1, <1>2
        DEF BackfillIInv, NoHistory, CursorStands, CursorCovers, PageStands, IdleBack, IdleRecon

(* Each part keeps its promises in the ingest process as it does alone: for *)
(* the parts share no row, whichever turns leaves the others' as they are   *)
(* (the TaskGroup of the ingest process's main).                            *)
THEOREM IngestKeepsItsWord == IngestSpec => []IngestInv
<1> DEFINE IInv == BackfillIInv /\ ExtractionIInv /\ TracesIInv /\ DocumentsIInv
<1>1. IngestInit => IInv
  BY BackfillInit, NoHistoryStands, ExtractionInitially, TracesInitially, DocumentsInitially
  DEF IngestInit
<1>2. IInv /\ [IngestNext]_<<vars, extractionVars, traceVars, documentVars, turn>> => IInv'
  <2> SUFFICES ASSUME IInv, [IngestNext]_<<vars, extractionVars, traceVars, documentVars, turn>>
               PROVE  IInv'
    OBVIOUS
  <2>1. /\ [Next]_vars /\ [ExtractionNext]_extractionVars /\ [TracesNext]_traceVars
        /\ [DocumentsNext]_documentVars
    BY DEF IngestNext, ImportingTurn, ReadingTurn, ExportTurn, DocumentTurn
  <2> QED BY <2>1, BackfillStep, ExtractionStep, TracesStep, DocumentsStep
<1>3. IInv => IngestInv
  <2> SUFFICES ASSUME IInv PROVE IngestInv
    OBVIOUS
  <2>1. TypeOK
    BY DEF BackfillIInv
  <2>2. ExtractionTypeOK /\ TracesTypeOK /\ DocumentsInv
    BY ExtractionMeans, TracesMean, DocumentsMean
  <2> QED BY <2>1, <2>2 DEF IngestInv, IngestTypeOK
<1> QED BY <1>1, <1>2, <1>3, PTL DEF IngestSpec
=============================================================================
