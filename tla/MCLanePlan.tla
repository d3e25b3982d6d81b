---------------------------- MODULE MCLanePlan ----------------------------
(***************************************************************************)
(* Inputs for LanePlan on a small lane: three shared slots, one qae slot   *)
(* at a time among them, one wait slot of its own.  Set "o ci" and its     *)
(* warm pool stand for an organisation's lane; "a ci" and "b ci" for two   *)
(* repositories of a user's lane, which has no warm pool.                  *)
(***************************************************************************)
EXTENDS LanePlan, TLC

MCKindOf == [k \in SetKeys |-> CASE k \in {"o ci", "a ci", "b ci"} -> "ci"
                                 [] k = "o qae" -> "qae"
                                 [] OTHER -> "wait"]
MCRank == [k \in SetKeys |-> CASE k = "a ci" -> 1 [] k = "b ci" -> 2 [] k = "o ci" -> 3
                               [] k = "o qae" -> 4 [] OTHER -> 5]
MCOwnSlots == "wait" :> 1
MCInstances == [kind \in Kinds |-> IF kind = "ci" THEN 3 ELSE 1]
MCContainerBytes == [kind \in Kinds |-> IF kind = "wait" THEN 1 ELSE 2]

Slot(k, phase, since, hold) ==
    [set |-> k, phase |-> phase, since |-> since, noRecycleBefore |-> hold]

\* What may hold an instance of a kind when only the starts are in question.
HoldersOf(sets, kind) ==
    [set : {k \in sets : KindOf[k] = kind}, phase : {"starting", "busy"},
     since : {0}, noRecycleBefore : {0}]
        \cup {Slot(NoSet, "done", 0, 0)}

\* The occupied functions on part of an instance set.
Occupancies(refs, sets) ==
    UNION {{o \in [held -> UNION {HoldersOf(sets, r[1]) : r \in held}] :
                \A r \in held : o[r] \in HoldersOf(sets, r[1])} : held \in SUBSET refs}

Input(mem, missing, known, assigned, minimum, occupied, unitStart) ==
    [now |-> 4, mem |-> mem, missing |-> missing, known |-> known,
     assigned |-> [k \in SetKeys |-> IF k \in DOMAIN assigned THEN assigned[k] ELSE 0],
     minimum |-> [k \in SetKeys |-> IF k = "o ci" THEN minimum ELSE 0],
     occupied |-> occupied, unitStart |-> unitStart]

OrgSets == {"o ci", "o qae", "o wait"}
OrgOccupancies ==
    {o \in Occupancies({<<"ci", 1>>, <<"ci", 3>>, <<"qae", 1>>}, OrgSets) :
        Cardinality(DOMAIN o) <= 2}
OrgInputs ==
    LET occupancies == OrgOccupancies
    IN  {Input(mem, missing, OrgSets, assigned, minimum, occupied, <<>>) :
            mem \in {0, 4, 7, 15}, missing \in {{}, {<<"qae", 1>>}, {<<"ci", 1>>}},
            assigned \in {a \in [OrgSets -> 0 .. 2] : a["o wait"] < 2 /\ a["o qae"] < 2},
            minimum \in 0 .. 1, occupied \in occupancies}

UserSets == {"a ci", "b ci"}
UserInputs ==
    LET occupancies == Occupancies({<<"ci", 1>>, <<"ci", 2>>}, UserSets)
    IN  {Input(mem, {}, UserSets, assigned, 0, occupied, <<>>) :
            mem \in {4, 15}, assigned \in [UserSets -> 0 .. 3], occupied \in occupancies}

\* Idle slots of several ages, beside busy and stopping ones.
IdleSlots ==
    {Slot("o ci", "idle", since, hold) : since \in {0, 4}, hold \in {0, 5}}
        \cup {Slot("o ci", phase, 0, 0) : phase \in {"busy", "stopping"}}
StopInputs ==
    {Input(0, {}, {"o ci"}, "o ci" :> assigned, minimum, occupied, unitStart) :
        assigned \in 0 .. 2, minimum \in 0 .. 2,
        occupied \in [{<<"ci", 1>>, <<"ci", 2>>} -> IdleSlots],
        unitStart \in [{<<"ci", 1>>, <<"ci", 2>>} -> {0, 3}]}
    \cup
    {Input(0, {}, {"o ci"}, "o ci" :> 0, minimum,
           [r \in {<<"ci", n>> : n \in 1 .. 3} |-> Slot("o ci", "idle", since[r[2]], 0)],
           unitStart) :
        minimum \in 1 .. 2, since \in [1 .. 3 -> {0, 2, 4}],
        unitStart \in {<<>>, [r \in {<<"ci", 2>>} |-> 0]}}

MCInputs == OrgInputs \cup UserInputs \cup StopInputs
=============================================================================
