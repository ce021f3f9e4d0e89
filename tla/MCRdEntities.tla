---------------------------- MODULE MCRdEntities ----------------------------
(***************************************************************************)
(* Entities for TLC, with the bounds of their ends.                        *)
(***************************************************************************)
EXTENDS RdEntities

\* The ends of the map: the master changes it more often than the slave.
MCMaxMapped == [e \in Ends |-> IF e = Master THEN 3 ELSE 1]
MCMaxCalls == [e \in Ends |-> 1]
MCHandled == {Slave}

\* One end of the extension is bound anew, or sends; the other is bound once.
MCBudget == [e \in Ends |-> IF e = Slave THEN 3 ELSE 1]
============================================================================
