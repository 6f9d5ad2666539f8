--------------------------- MODULE MCNotifications ---------------------------
(* The instance of Notifications that TLC checks: every ask is addressed to *)
(* the same person.                                                         *)
EXTENDS Notifications

CONSTANTS p1, p2, a1, a2, a3

MCAddressee == [a \in Asks |-> IF a = a3 THEN p2 ELSE p1]

=============================================================================
