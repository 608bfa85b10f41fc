------------------------------- MODULE Office -------------------------------
(***************************************************************************)
(* What failover promises about the office of the primary.  At first the   *)
(* first node holds it.  Holders give it up one at a time.  Only the first *)
(* node may come back to an office that is taken; any other is appointed   *)
(* only when nobody is left in it.                                         *)
(***************************************************************************)
EXTENDS Naturals

CONSTANT Nodes

VARIABLE holders  \* the nodes with priority 0

Init == holders = {0} \cap Nodes

Resign == \E n \in holders : holders' = holders \ {n}

Return == 0 \in Nodes /\ holders' = holders \cup {0}

Appoint == holders = {} /\ \E n \in Nodes : holders' = {n}

Next == Resign \/ Return \/ Appoint

OfficeSpec == Init /\ [][Next]_holders

=============================================================================
