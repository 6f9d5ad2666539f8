----------------------------- MODULE MCArchive ------------------------------
(***************************************************************************)
(* The archive of a channel: what is stored of it (Corpus, in the three    *)
(* turns of MCCorpus) and who let it be stored (Indexing, in two turns:    *)
(* "archiving", one channel with a history of its own, and "editing", the  *)
(* list of two channels written by two commands and the console).  What a  *)
(* purge deletes is abstracted in Indexing, so the two share no row, and   *)
(* TLC checks the sum of their states.                                     *)
(***************************************************************************)
EXTENDS MCCorpus, Indexing

CONSTANTS a, b, r1, r2

OnTheList == turn \in {"archiving", "editing"}

ArchiveInit ==
    /\ turn \in {"edits", "race", "faults", "archiving", "editing"}
    /\ Init /\ IndexingInit
    /\ IF turn = "editing" THEN request[r1].ch # request[r2].ch
       ELSE scope \subseteq {a} /\ \A r \in IndexRequests : request[r].ch = a
    /\ ~OnTheList => /\ scope = {} /\ request[r1].act = "index" /\ request[r2].act = "index"

Mishaps == indexCounts'.console + indexCounts'.troubles + indexCounts'.stops

(* Commands are given in order.  One mishap or one live message while the   *)
(* channel is worked on, two mishaps while only the list is.                *)
OnTheListWithin ==
    /\ request'[r2].at # "unasked" => request'[r1].at # "unasked"
    /\ turn = "archiving" => /\ Mishaps + indexCounts'.posts <= 1
                             /\ console'.ch = a /\ posted'[b] = OldMsgs
    /\ turn = "editing" => Mishaps <= 2 /\ archiveVars' = archiveVars /\ there' = there

ArchiveNext ==
    \/ ~OnTheList /\ Next /\ Within /\ UNCHANGED <<indexingVars, turn>>
    \/ OnTheList /\ IndexingNext /\ UNCHANGED <<vars, turn>> /\ OnTheListWithin

(* The fairness of Corpus, in its turns.                                    *)
CorpusFairness ==
    /\ WF_vars(~OnTheList /\ WindowLoop)
    /\ \A m \in Msg : WF_vars(~OnTheList /\ Writers(m)) /\ WF_vars(~OnTheList /\ Deleters(m))

(* A command, a follow-up and the jobs of ingest go on; commands need not   *)
(* be given.                                                                *)
IndexingFairness ==
    /\ \A r \in IndexRequests : /\ WF_indexingVars(turn = "archiving" /\ CommandStep(r))
                                /\ WF_indexingVars(turn = "archiving" /\ FollowUpStep(r))
    /\ WF_indexingVars(turn = "archiving" /\ StoreFromConsole)
    /\ WF_indexingVars(turn = "archiving" /\ IngestRefresh)
    /\ WF_indexingVars(turn = "archiving" /\ IngestStep)
    /\ \A c \in Channels : /\ WF_indexingVars(turn = "archiving" /\ FetchPage(c))
                           /\ WF_indexingVars(turn = "archiving" /\ ReadForWindows(c))

ArchiveSpec ==
    /\ ArchiveInit /\ [][ArchiveNext]_<<vars, indexingVars, turn>>
    /\ CorpusFairness /\ IndexingFairness
-----------------------------------------------------------------------------
(* What is archived follows what people let be archived.                    *)
ListIsFollowed == turn = "archiving" => ArchiveFollowsScope
=============================================================================
