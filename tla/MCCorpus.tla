------------------------------ MODULE MCCorpus ------------------------------
(***************************************************************************)
(* Instances of Corpus for TLC.  A creation time of 1, 2, 3 is a           *)
(* conversation without a silence.  One instance turns three ways, and TLC *)
(* checks the sum of their states: "edits", three messages of which one is *)
(* edited and another deleted; "race", a message both edited and deleted;  *)
(* "faults", history being imported while a transaction fails or the       *)
(* process stops.  A deletion is delivered twice.                          *)
(***************************************************************************)
EXTENDS Corpus

Dense == [m \in Msg |-> m]

VARIABLE turn

MCInit == Init /\ turn \in {"edits", "race", "faults"}

Unposted(m) == m \in Msg => plat'[m].st = "unsent"
Unedited(S) == \A m \in S : plat'[m].rev = 0
NotImporting == \A o \in inflight' : o.via # "backfill"

Within ==
    CASE turn = "edits"  -> faults' = 0 /\ NotImporting /\ Unedited(Msg \ {2})
      [] turn = "race"   -> faults' = 0 /\ NotImporting /\ Unedited(Msg \ {1}) /\ Unposted(3)
      [] turn = "faults" -> Unedited(Msg) /\ Unposted(3)

MCSpec == MCInit /\ [][Next /\ Within /\ UNCHANGED turn]_<<vars, turn>> /\ Fairness
=============================================================================
