--------------------------- MODULE MCSlotHelper ---------------------------
(***************************************************************************)
(* A machine with one ci and one qae instance.                             *)
(***************************************************************************)
EXTENDS SlotHelper

MCKindOf == [i \in Instances |-> IF i = "qae 1" THEN "qae" ELSE "ci"]
MCMaxRuns == [i \in Instances |-> IF i = "qae 1" THEN 2 ELSE 1]
=============================================================================
