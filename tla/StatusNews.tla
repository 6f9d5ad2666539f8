----------------------------- MODULE StatusNews -----------------------------
(***************************************************************************)
(* What an author who wants news of a suggestion is promised: the messages *)
(* follow the changes of its status in the order they were made, each is   *)
(* about a change later than the last one they heard of, and a change may  *)
(* be passed over for a later one.                                         *)
(***************************************************************************)
EXTENDS Naturals

CONSTANT Topics

VARIABLES
    changes,    \* changes made to each topic's status
    heard,      \* the last of them its author heard of
    messages    \* messages its author got about it

newsVars == <<changes, heard, messages>>

NewsInit ==
    /\ changes = [r \in Topics |-> 0] /\ heard = [r \in Topics |-> 0]
    /\ messages = [r \in Topics |-> 0]

Change(r) ==
    /\ changes' = [changes EXCEPT ![r] = @ + 1]
    /\ UNCHANGED <<heard, messages>>

(* The author is shown the status when they ask to hear of its changes.     *)
Ask(r) ==
    /\ messages[r] = 0
    /\ heard' = [heard EXCEPT ![r] = changes[r]]
    /\ UNCHANGED <<changes, messages>>

Hear(r) ==
    /\ \E i \in heard[r] + 1 .. changes[r] : heard' = [heard EXCEPT ![r] = i]
    /\ messages' = [messages EXCEPT ![r] = @ + 1]
    /\ UNCHANGED changes

NewsNext == \E r \in Topics : Change(r) \/ Ask(r) \/ Hear(r)

NewsSpec == NewsInit /\ [][NewsNext]_newsVars
=============================================================================
