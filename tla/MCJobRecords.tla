--------------------------- MODULE MCJobRecords ---------------------------
(***************************************************************************)
(* Three runners, one after the other in any order, on the instances of a  *)
(* lane of one slot.  Two of them are one set's and the third another's,   *)
(* whose session works beside it.                                          *)
(***************************************************************************)
EXTENDS JobRecords

MCSetOf == [r \in Runners |-> IF r = "r2" THEN "b" ELSE "a"]
MCRefOf == [r \in Runners |-> "1"]
=============================================================================
