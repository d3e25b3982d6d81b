------------------------------ MODULE MCLane ------------------------------
(***************************************************************************)
(* Small lanes for Lane: an organisation's, with a ci set and a qae set on *)
(* one shared slot, and a user's, with two repositories' ci sets.          *)
(***************************************************************************)
EXTENDS Lane, TLC

MCKindOf == [k \in SetKeys |-> IF k = "o qae" THEN "qae" ELSE "ci"]
MCRank == [k \in SetKeys |-> CASE k = "a ci" -> 1 [] k = "b ci" -> 2 [] k = "o ci" -> 3
                               [] OTHER -> 4]
MCInstances == [kind \in Kinds |-> SharedSlots]
MCContainerBytes == [kind \in Kinds |-> 1]
NoOwnSlots == <<>>
\* The organisation's ci set keeps one warm slot.
OneWarm == [k \in SetKeys |-> IF k = "o ci" THEN 1 ELSE 0]
\* One job waits per set at most; or, beside a warm pool, in the other sets.
OneJobEach == [k \in SetKeys |-> 1]
JobsBesideWarm == [k \in SetKeys |-> IF k = "o ci" THEN 0 ELSE 1]
=============================================================================
