--------------------------- MODULE Gates_proofs ---------------------------
(***************************************************************************)
(* Proofs about what decides on a pull request.  The load the pull sync    *)
(* adds stays within its slots: for any pull requests, any number of       *)
(* slots and whatever moves between a run's read and its writes.  A badge  *)
(* that grants the merge is true of the whole change it is shown on: for   *)
(* any grants and changes, however a reader is overtaken.  An explorer     *)
(* that passes was served, a regression test that passes failed before the *)
(* fix and its run leaves tree and stack as it found them, and a suite is  *)
(* left out only for a change it does not read.  A green browser check     *)
(* stands on a walk of every criterion, in its words, on its own page; a   *)
(* pull request cannot weaken the rules its gates judge it by.  A score is *)
(* of every mutant of the change, and every feature the base's map selects *)
(* was walked again.                                                       *)
(***************************************************************************)
EXTENDS Gates, Sequences, FiniteSetTheorems, WellFoundedInduction, TLAPS

PullType ==
    [update : BOOLEAN, added : BOOLEAN, judged : BOOLEAN, new : BOOLEAN,
     checks : {"none", "running", "red", "passed", "failed"}, behind : BOOLEAN, clean : BOOLEAN,
     merges : {"UNKNOWN", "MERGEABLE", "CONFLICTING"}, mode : {"open", "draft", "out"}, label : BOOLEAN]

Typed ==
    /\ pulls \in [Pulls -> PullType]
    /\ DOMAIN rows \subseteq Pulls
    /\ acting => DOMAIN rows # {}

\* A head a run made in a free slot is an update.
AddedIsUpdate == \A n \in Pulls : pulls[n].added => pulls[n].update

Holding == {n \in Pulls : pulls[n].added /\ holds_slot(pulls[n])}

\* What a row not yet written may still add: the slot the plan gave it, or the load of a head
\* it counted already, where the row replaces that head.
Reserved ==
    {n \in DOMAIN rows : rows[n].sync /\ (~rows[n].replaces \/ (pulls[n].added /\ pulls[n].judged))}

\* The strengthening that is inductive: what holds a slot and what may still come to hold one.
SlotsSuffice == Cardinality(Holding \cup Reserved) <= MaxInFlight

----------------------------------------------------------------------------
(* Orders on finite sets *)

\* A finite set has one after which, in a strict order, none of it comes: the sets of
\* what comes after are finite, well-founded under strict inclusion.
LEMMA Extreme ==
    ASSUME NEW S, IsFiniteSet(S), S # {}, NEW R,
           \A x \in S : <<x, x>> \notin R,
           \A x, y, z \in S : <<x, y>> \in R /\ <<y, z>> \in R => <<x, z>> \in R
    PROVE  \E x \in S : \A s \in S : <<x, s>> \notin R
<1> DEFINE After(x) == {s \in S : <<x, s>> \in R}
           T == {After(x) : x \in S}
<1>2. \A x \in S : After(x) \in FiniteSubsetsOf(S)
  BY FS_Subset DEF FiniteSubsetsOf
<1>3. T \subseteq FiniteSubsetsOf(S) /\ T # {}
  <2>1. PICK x \in S : TRUE
    OBVIOUS
  <2>2. After(x) \in T
    BY <2>1
  <2>3. \A X \in T : \E y \in S : X = After(y)
    OBVIOUS
  <2> HIDE DEF T, After
  <2> QED
    BY <1>2, <2>2, <2>3
<1>4. PICK X \in T : \A Y \in T : ~ (<<Y, X>> \in StrictSubsetOrdering(S))
  <2>1. IsWellFoundedOn(StrictSubsetOrdering(S), FiniteSubsetsOf(S))
    BY FS_StrictSubsetOrderingWellFounded
  <2> HIDE DEF T
  <2> QED
    BY <1>3, <2>1, WFMin
<1>5. PICK x \in S : X = After(x)
  BY <1>4
<1>6. ASSUME NEW s \in S, <<x, s>> \in R PROVE FALSE
  <2>1. After(s) \subseteq After(x) /\ s \in After(x) /\ s \notin After(s)
    BY <1>6
  <2>2. <<After(s), After(x)>> \in StrictSubsetOrdering(S)
    BY <2>1 DEF StrictSubsetOrdering
  <2>3. After(s) \in T
    OBVIOUS
  <2> QED
    BY <1>4, <1>5, <2>2, <2>3
<1> QED
  BY <1>6

\* A finite set of numbers has a least and a greatest.
LEMMA Extremes ==
    ASSUME NEW S \in SUBSET Nat, IsFiniteSet(S), S # {}
    PROVE  (\E x \in S : \A s \in S : x <= s) /\ (\E x \in S : \A s \in S : s <= x)
<1> DEFINE Less == {pair \in S \X S : pair[2] < pair[1]}
           More == {pair \in S \X S : pair[1] < pair[2]}
<1>1. \A x, y \in S : (<<x, y>> \in Less <=> y < x) /\ (<<x, y>> \in More <=> x < y)
  OBVIOUS
<1>2. (\A x \in S : <<x, x>> \notin Less) /\ (\A x \in S : <<x, x>> \notin More)
  BY <1>1
<1>3. \A x, y, z \in S : <<x, y>> \in Less /\ <<y, z>> \in Less => <<x, z>> \in Less
  BY <1>1
<1>4. \A x, y, z \in S : <<x, y>> \in More /\ <<y, z>> \in More => <<x, z>> \in More
  BY <1>1
<1> HIDE DEF Less, More
<1>5. PICK x \in S : \A s \in S : <<x, s>> \notin Less
  BY <1>2, <1>3, Extreme
<1>6. PICK y \in S : \A s \in S : <<y, s>> \notin More
  BY <1>2, <1>4, Extreme
<1>7. \A s \in S : ~(s < x) /\ ~(y < s) /\ s \in Nat
  BY <1>1, <1>5, <1>6
<1>8. \A s \in S : x <= s /\ s <= y
  BY <1>7
<1> QED
  BY <1>8

\* A run's next row is one of its rows.
LEMMA NextRow ==
    ASSUME NEW D \in SUBSET Pulls, D # {}
    PROVE  (CHOOSE m \in D : \A k \in D : m <= k) \in D
<1>1. D \in SUBSET Nat /\ IsFiniteSet(D)
  BY SyncAssumption, FS_Subset
<1>2. \E x \in D : \A s \in D : x <= s
  BY <1>1, Extremes
<1> QED
  BY <1>2

\* No more candidates get a slot than are free.
LEMMA SlottedFits ==
    ASSUME NEW all, NEW C \in SUBSET Pulls, free(all) \in Nat
    PROVE  IsFiniteSet(Slotted(all, C)) /\ Cardinality(Slotted(all, C)) <= free(all)
<1> DEFINE S == Slotted(all, C)
           Ahead(n) == {m \in C : Before(all, m, n)}
           R == {pair \in C \X C : Before(all, pair[1], pair[2])}
<1>1. S \subseteq C /\ C \subseteq Nat /\ IsFiniteSet(C) /\ IsFiniteSet(S)
  BY SyncAssumption, FS_Subset DEF Slotted
<1>2. \A x, y \in C : <<x, y>> \in R <=> Before(all, x, y)
  OBVIOUS
<1>3. /\ \A x \in C : ~Before(all, x, x)
      /\ \A x, y, z \in C : Before(all, x, y) /\ Before(all, y, z) => Before(all, x, z)
      /\ \A x, y \in C : x # y => Before(all, x, y) \/ Before(all, y, x)
  <2>1. \A n : ready(all[n]) \in BOOLEAN
    BY DEF ready
  <2> QED
    BY <1>1, <2>1 DEF Before
<1>4. CASE S = {}
  BY <1>4, FS_EmptySet
<1>5. CASE S # {}
  <2>1. PICK x \in S : \A s \in S : <<x, s>> \notin R
    <3>1. \A y \in S : <<y, y>> \notin R
      BY <1>1, <1>2, <1>3
    <3>2. \A y, z, w \in S : <<y, z>> \in R /\ <<z, w>> \in R => <<y, w>> \in R
      BY <1>1, <1>2, <1>3
    <3> HIDE DEF R, S
    <3> QED
      BY <1>1, <1>5, <3>1, <3>2, Extreme
  <2>2. S \ {x} \subseteq Ahead(x)
    BY <1>1, <1>2, <1>3, <2>1
  <2>3. IsFiniteSet(Ahead(x)) /\ Cardinality(Ahead(x)) \in Nat
    BY <1>1, FS_Subset, FS_CardinalityType
  <2>4. Cardinality(Ahead(x)) < free(all)
    BY <2>1 DEF Slotted
  <2>5. Cardinality(S \ {x}) <= Cardinality(Ahead(x))
    BY <2>2, <2>3, FS_Subset
  <2>6. Cardinality(S \ {x}) = Cardinality(S) - 1 /\ Cardinality(S) \in Nat
    <3> HIDE DEF S
    <3> QED
      BY <1>1, <2>1, FS_RemoveElement, FS_CardinalityType
  <2> QED
    BY <1>1, <2>3, <2>4, <2>5, <2>6
<1> QED
  BY <1>4, <1>5

----------------------------------------------------------------------------
(* Types *)

LEMMA PullEdits ==
    ASSUME NEW p \in PullType
    PROVE  /\ \A added \in BOOLEAN : Updated(p, added) \in PullType
           /\ \A action : Labelled(p, action) \in PullType
           /\ \A judged \in BOOLEAN : [p EXCEPT !.judged = judged] \in PullType
           /\ \A mode \in {"open", "draft", "out"} : [p EXCEPT !.mode = mode] \in PullType
           /\ \A state \in {"none", "running", "red", "passed", "failed"} : [p EXCEPT !.checks = state] \in PullType
           /\ [p EXCEPT !.checks = "running", !.added = FALSE] \in PullType
           /\ \A clean \in BOOLEAN : [p EXCEPT !.behind = TRUE, !.merges = "UNKNOWN", !.clean = clean] \in PullType
           /\ \A mergeable \in {"MERGEABLE", "CONFLICTING"} : [p EXCEPT !.merges = mergeable] \in PullType
           /\ [p EXCEPT !.new = FALSE] \in PullType
           /\ \A behind, clean \in BOOLEAN :
                [Fresh EXCEPT !.behind = behind, !.clean = clean, !.mode = p.mode, !.label = p.label] \in PullType
<1>1. \A added \in BOOLEAN : Updated(p, added) \in PullType
  BY DEF PullType, Updated
<1>2. \A action : Labelled(p, action) \in PullType
  <2>1. \A action : (action = "add") \in BOOLEAN
    OBVIOUS
  <2>2. \A value \in BOOLEAN : [p EXCEPT !.label = value] \in PullType
    BY DEF PullType
  <2> QED
    BY <2>1, <2>2 DEF Labelled
<1>3. /\ \A judged \in BOOLEAN : [p EXCEPT !.judged = judged] \in PullType
      /\ \A mode \in {"open", "draft", "out"} : [p EXCEPT !.mode = mode] \in PullType
      /\ \A state \in {"none", "running", "red", "passed", "failed"} : [p EXCEPT !.checks = state] \in PullType
      /\ \A mergeable \in {"MERGEABLE", "CONFLICTING"} : [p EXCEPT !.merges = mergeable] \in PullType
  BY DEF PullType
<1>4. [p EXCEPT !.new = FALSE] \in PullType /\ [p EXCEPT !.checks = "running", !.added = FALSE] \in PullType
  BY DEF PullType
<1>5. \A clean \in BOOLEAN : [p EXCEPT !.behind = TRUE, !.merges = "UNKNOWN", !.clean = clean] \in PullType
  BY DEF PullType
<1>6. \A behind, clean \in BOOLEAN :
        [Fresh EXCEPT !.behind = behind, !.clean = clean, !.mode = p.mode, !.label = p.label] \in PullType
  <2>1. p.mode \in {"open", "draft", "out"} /\ p.label \in BOOLEAN
    BY DEF PullType
  <2>2. Fresh \in PullType
    BY DEF PullType, Fresh
  <2> QED
    BY <2>1, <2>2 DEF PullType
<1> QED
  BY <1>1, <1>2, <1>3, <1>4, <1>5, <1>6, Zenon

\* What a run's edit of a pull request does to what it may hold: nothing but an update of its own
\* makes its head hold a slot.
LEMMA HoldEdits ==
    ASSUME NEW p \in PullType
    PROVE  /\ \A action : /\ holds_slot(Labelled(p, action)) <=> holds_slot(p)
                          /\ Labelled(p, action).added = p.added /\ Labelled(p, action).update = p.update
           /\ \A judged \in BOOLEAN : /\ holds_slot([p EXCEPT !.judged = judged]) <=> holds_slot(p)
                                      /\ [p EXCEPT !.judged = judged].added = p.added
                                      /\ [p EXCEPT !.judged = judged].update = p.update
                                      /\ [p EXCEPT !.judged = judged].judged = judged
           /\ \A added \in BOOLEAN : Updated(p, added).added = added /\ Updated(p, added).update
BY DEF PullType, Labelled, Updated, holds_slot, running

LEMMA SentTypes ==
    ASSUME Typed, NEW n \in Pulls
    PROVE  Sent(n) \in PullType
<1>1. pulls[n] \in PullType /\ (pulls[n].added \/ ~rows[n].replaces) \in BOOLEAN
  BY DEF Typed
<1> QED
  BY <1>1, PullEdits, Zenon DEF Sent

\* The row a run writes next.
Next_row == CHOOSE m \in DOMAIN rows : \A k \in DOMAIN rows : m <= k

\* What writing it makes of its pull request.
Written ==
    {[Labelled(Sent(Next_row), rows[Next_row].label) EXCEPT !.judged = FALSE]}
      \cup {[p EXCEPT !.judged = FALSE] : p \in {Sent(Next_row), Labelled(pulls[Next_row], rows[Next_row].label)}}

LEMMA WriteEffect ==
    ASSUME Typed, WriteRow
    PROVE  /\ Next_row \in DOMAIN rows /\ Next_row \in Pulls
           /\ \E p \in Written : pulls' = [pulls EXCEPT ![Next_row] = p]
           /\ rows' = [m \in DOMAIN rows \ {Next_row} |-> rows[m]]
           /\ acting' = (rows' # <<>>)
<1>1. DOMAIN rows \in SUBSET Pulls /\ DOMAIN rows # {}
  BY DEF Typed, WriteRow
<1>2. Next_row \in DOMAIN rows
  BY <1>1, NextRow DEF Next_row
<1>3. rows' = [m \in DOMAIN rows \ {Next_row} |-> rows[m]] /\ acting' = (rows' # <<>>)
  BY DEF WriteRow, Next_row
<1>4. \E p \in Written : pulls' = [pulls EXCEPT ![Next_row] = p]
  BY DEF WriteRow, Next_row, Written
<1> QED
  BY <1>1, <1>2, <1>3, <1>4

LEMMA WrittenTypes ==
    ASSUME Typed, Next_row \in Pulls
    PROVE  Written \subseteq PullType
<1>1. Sent(Next_row) \in PullType /\ pulls[Next_row] \in PullType
  BY SentTypes DEF Typed
<1>2. \A action : Labelled(Sent(Next_row), action) \in PullType /\ Labelled(pulls[Next_row], action) \in PullType
  BY <1>1, PullEdits, Zenon
<1>3. \A p \in PullType : [p EXCEPT !.judged = FALSE] \in PullType
  BY PullEdits, Zenon
<1> QED
  BY <1>1, <1>2, <1>3 DEF Written

\* A map without rows is the empty one.
LEMMA NoRows ==
    ASSUME NEW f, f = [n \in DOMAIN f |-> f[n]], f # <<>> PROVE DOMAIN f # {}
OBVIOUS

\* The edits of people and of GitHub.
Edits(n) == Push(n) \/ PressUpdate(n) \/ Edit(n) \/ Rerun(n) \/ Settles(n) \/ Checked(n) \/ Ages(n)

LEMMA EditTypes ==
    ASSUME Typed, NEW n \in Pulls, Edits(n)
    PROVE  UNCHANGED <<acting, rows>> /\ \E p \in PullType : pulls' = [pulls EXCEPT ![n] = p]
<1>1. UNCHANGED <<acting, rows>>
  BY Zenon DEF Edits, Push, PressUpdate, Edit, Rerun, Settles, Checked, Ages, Becomes
<1>2. pulls[n] \in PullType
  BY DEF Typed
<1>3. CASE Push(n)
  BY <1>2, <1>3, PullEdits, Zenon DEF Push, Becomes
<1>4. CASE PressUpdate(n)
  BY <1>2, <1>4, PullEdits, Zenon DEF PressUpdate, Becomes
<1>5. CASE Edit(n) \/ Rerun(n) \/ Ages(n)
  BY <1>2, <1>5, PullEdits, Zenon DEF Edit, Rerun, Ages, Becomes
<1>6. CASE Settles(n)
  BY <1>2, <1>6, PullEdits, Zenon DEF Settles, Becomes
<1>7. CASE Checked(n)
  <2>1. PICK state \in {"running", "red", "passed", "failed"} : Becomes(n, [pulls[n] EXCEPT !.checks = state])
    BY <1>7 DEF Checked
  <2> QED
    BY <1>2, <2>1, PullEdits, Zenon DEF Becomes
<1> QED
  BY <1>1, <1>3, <1>4, <1>5, <1>6, <1>7 DEF Edits

LEMMA TypesKept == Typed /\ [Next]_syncVars => Typed'
<1> SUFFICES ASSUME Typed, [Next]_syncVars PROVE Typed'
  OBVIOUS
<1>0. \A n \in Pulls : pulls[n] \in PullType
  BY DEF Typed
<1>1. CASE Judge
  <2>1. \A n \in Pulls : [pulls[n] EXCEPT !.judged = n \in DOMAIN rows'] \in PullType
    <3>1. \A n : (n \in DOMAIN rows') \in BOOLEAN
      OBVIOUS
    <3> QED
      BY <1>0, <3>1, PullEdits, Zenon
  <2>2. pulls' \in [Pulls -> PullType]
    BY <1>1, <2>1 DEF Judge
  <2>3. DOMAIN rows' \subseteq Pulls
    BY <1>1 DEF Judge, plan
  <2>4. acting' => DOMAIN rows' # {}
    <3>1. rows' = [n \in DOMAIN rows' |-> rows'[n]] /\ acting' = (rows' # <<>>)
      BY <1>1 DEF Judge, plan
    <3> QED
      BY <3>1, NoRows
  <2> QED
    BY <2>2, <2>3, <2>4 DEF Typed
<1>2. CASE WriteRow
  <2>1. PICK p \in Written : pulls' = [pulls EXCEPT ![Next_row] = p]
    BY <1>2, WriteEffect
  <2>2. Next_row \in Pulls /\ p \in PullType
    BY <1>2, WriteEffect, WrittenTypes
  <2>3. pulls' \in [Pulls -> PullType]
    BY <2>1, <2>2 DEF Typed
  <2>4. DOMAIN rows' \subseteq Pulls
    BY <1>2, WriteEffect DEF Typed
  <2>5. acting' => DOMAIN rows' # {}
    <3>1. rows' = [n \in DOMAIN rows' |-> rows'[n]] /\ acting' = (rows' # <<>>)
      BY <1>2, WriteEffect
    <3> QED
      BY <3>1, NoRows
  <2> QED
    BY <2>3, <2>4, <2>5 DEF Typed
<1>3. CASE Killed
  <2>1. \A n \in Pulls : [pulls[n] EXCEPT !.judged = FALSE] \in PullType
    BY <1>0, PullEdits, Zenon
  <2>2. pulls' \in [Pulls -> PullType] /\ acting' = FALSE /\ rows' = <<>>
    BY <1>3, <2>1 DEF Killed
  <2> QED
    BY <2>2 DEF Typed
<1>4. CASE MainMoves
  <2>1. PICK clash : pulls' = [n \in Pulls |-> [pulls[n] EXCEPT !.behind = TRUE, !.merges = "UNKNOWN", !.clean = @ /\ n \notin clash]]
    BY <1>4, Zenon DEF MainMoves
  <2>2. \A n \in Pulls : [pulls[n] EXCEPT !.behind = TRUE, !.merges = "UNKNOWN", !.clean = pulls[n].clean /\ n \notin clash] \in PullType
    <3> SUFFICES ASSUME NEW n \in Pulls
                 PROVE  [pulls[n] EXCEPT !.behind = TRUE, !.merges = "UNKNOWN", !.clean = pulls[n].clean /\ n \notin clash] \in PullType
      OBVIOUS
    <3>1. pulls[n] \in PullType /\ (pulls[n].clean /\ n \notin clash) \in BOOLEAN
      BY <1>0
    <3> QED
      BY <3>1, PullEdits, Zenon
  <2>3. pulls' \in [Pulls -> PullType]
    BY <2>1, <2>2, Zenon
  <2>4. UNCHANGED <<acting, rows>>
    BY <1>4 DEF MainMoves
  <2> QED
    BY <2>3, <2>4 DEF Typed
<1>5. CASE \E n \in Pulls : Edits(n)
  BY <1>5, EditTypes DEF Typed
<1>6. CASE UNCHANGED syncVars
  BY <1>6 DEF syncVars, Typed
<1> QED
  BY <1>1, <1>2, <1>3, <1>4, <1>5, <1>6 DEF Next, Edits

----------------------------------------------------------------------------
(* The slots *)

\* A step that makes q of a pull request p adds no load of the runs'.
Tame(p, q) ==
    q.added => p.added /\ q.update /\ (holds_slot(q) => holds_slot(p)) /\ (q.judged => p.judged)

LEMMA EditsTame ==
    ASSUME Typed, AddedIsUpdate, NEW n \in Pulls, Edits(n)
    PROVE  \A m \in Pulls : Tame(pulls[m], pulls'[m])
<1>0. pulls[n] \in PullType /\ (pulls[n].added => pulls[n].update)
  BY DEF Typed, AddedIsUpdate
<1>1. \A m \in Pulls : Tame(pulls[m], pulls[m])
  BY DEF Tame, AddedIsUpdate
<1>2. ASSUME NEW p, pulls' = [pulls EXCEPT ![n] = p], Tame(pulls[n], p) PROVE \A m \in Pulls : Tame(pulls[m], pulls'[m])
  BY <1>1, <1>2 DEF Typed
<1>3. CASE Push(n)
  <2>1. PICK p : pulls' = [pulls EXCEPT ![n] = p] /\ ~p.added
    <3>1. PICK behind, clean \in BOOLEAN :
            pulls' = [pulls EXCEPT ![n] = [Fresh EXCEPT !.behind = behind, !.clean = clean, !.mode = pulls[n].mode,
                                                        !.label = pulls[n].label]]
      BY <1>3 DEF Push, Becomes
    <3>2. ~[Fresh EXCEPT !.behind = behind, !.clean = clean, !.mode = pulls[n].mode, !.label = pulls[n].label].added
      BY DEF Fresh
    <3> QED
      BY <3>1, <3>2
  <2> QED
    BY <1>2, <2>1 DEF Tame
<1>4. CASE PressUpdate(n)
  <2>1. pulls' = [pulls EXCEPT ![n] = Updated(pulls[n], FALSE)]
    BY <1>4 DEF PressUpdate, Becomes
  <2>2. ~Updated(pulls[n], FALSE).added
    BY <1>0 DEF Updated, PullType
  <2> QED
    BY <1>2, <2>1, <2>2 DEF Tame
<1>5. CASE Edit(n)
  <2>1. PICK mode : pulls' = [pulls EXCEPT ![n] = [pulls[n] EXCEPT !.mode = mode]]
    BY <1>5 DEF Edit, Becomes
  <2>2. Tame(pulls[n], [pulls[n] EXCEPT !.mode = mode])
    BY <1>0 DEF Tame, PullType, holds_slot, running
  <2> QED
    BY <1>2, <2>1, <2>2
<1>6. CASE Rerun(n)
  <2>1. pulls' = [pulls EXCEPT ![n] = [pulls[n] EXCEPT !.checks = "running", !.added = FALSE]]
    BY <1>6 DEF Rerun, Becomes
  <2>2. ~[pulls[n] EXCEPT !.checks = "running", !.added = FALSE].added
    BY <1>0 DEF PullType
  <2> QED
    BY <1>2, <2>1, <2>2 DEF Tame
<1>7. CASE Settles(n)
  <2>1. PICK mergeable : pulls' = [pulls EXCEPT ![n] = [pulls[n] EXCEPT !.merges = mergeable]]
    BY <1>7 DEF Settles, Becomes
  <2>2. Tame(pulls[n], [pulls[n] EXCEPT !.merges = mergeable])
    BY <1>0 DEF Tame, PullType, holds_slot, running
  <2> QED
    BY <1>2, <2>1, <2>2
<1>8. CASE Checked(n)
  <2>1. PICK state : /\ pulls' = [pulls EXCEPT ![n] = [pulls[n] EXCEPT !.checks = state]]
                     /\ \/ pulls[n].checks = "none" /\ pulls[n].new /\ state = "running"
                        \/ pulls[n].checks = "running"
                        \/ state \in {"failed", "passed"}
    BY <1>0, <1>8 DEF Checked, Becomes, PullType
  <2>2. Tame(pulls[n], [pulls[n] EXCEPT !.checks = state])
    BY <1>0, <2>1 DEF Tame, PullType, holds_slot, running
  <2> QED
    BY <1>2, <2>1, <2>2
<1>9. CASE Ages(n)
  <2>1. pulls' = [pulls EXCEPT ![n] = [pulls[n] EXCEPT !.new = FALSE]]
    BY <1>9 DEF Ages, Becomes
  <2>2. Tame(pulls[n], [pulls[n] EXCEPT !.new = FALSE])
    BY <1>0 DEF Tame, PullType, holds_slot, running
  <2> QED
    BY <1>2, <2>1, <2>2
<1> QED
  BY <1>3, <1>4, <1>5, <1>6, <1>7, <1>8, <1>9 DEF Edits

\* So does the default branch, when it moves, and a run that dies.
LEMMA MovesTame ==
    ASSUME Typed, AddedIsUpdate, MainMoves \/ Killed
    PROVE  \A m \in Pulls : Tame(pulls[m], pulls'[m])
<1> SUFFICES ASSUME NEW m \in Pulls PROVE Tame(pulls[m], pulls'[m])
  OBVIOUS
<1>0. pulls[m] \in PullType /\ (pulls[m].added => pulls[m].update)
  BY DEF Typed, AddedIsUpdate
<1>1. \/ \E clean : pulls'[m] = [pulls[m] EXCEPT !.behind = TRUE, !.merges = "UNKNOWN", !.clean = clean]
      \/ pulls'[m] = [pulls[m] EXCEPT !.judged = FALSE]
  BY Zenon DEF MainMoves, Killed
<1>2. \A clean : Tame(pulls[m], [pulls[m] EXCEPT !.behind = TRUE, !.merges = "UNKNOWN", !.clean = clean])
  BY <1>0 DEF Tame, PullType, holds_slot, running
<1>3. Tame(pulls[m], [pulls[m] EXCEPT !.judged = FALSE])
  BY <1>0 DEF Tame, PullType, holds_slot, running
<1> QED
  BY <1>1, <1>2, <1>3, Zenon

\* A row written makes its head hold a slot only where the plan, or the head itself, held one.
LEMMA WrittenTame ==
    ASSUME Typed, AddedIsUpdate, Next_row \in DOMAIN rows, NEW p \in Written
    PROVE  /\ ~p.judged
           /\ p.added => p.update
           /\ p.added /\ holds_slot(p) => Next_row \in Holding \cup Reserved
<1> DEFINE n == Next_row
<1>0. n \in Pulls /\ pulls[n] \in PullType /\ (pulls[n].added => pulls[n].update) /\ Sent(n) \in PullType
  BY SentTypes DEF Typed, AddedIsUpdate
<1>1. PICK q \in PullType : /\ p = [q EXCEPT !.judged = FALSE]
                            /\ \/ q.added = Sent(n).added /\ q.update = Sent(n).update /\ (holds_slot(q) <=> holds_slot(Sent(n)))
                               \/ q.added = pulls[n].added /\ q.update = pulls[n].update /\ (holds_slot(q) <=> holds_slot(pulls[n]))
  <2>1. \A action : /\ Labelled(Sent(n), action) \in PullType /\ Labelled(pulls[n], action) \in PullType
                    /\ holds_slot(Labelled(Sent(n), action)) <=> holds_slot(Sent(n))
                    /\ holds_slot(Labelled(pulls[n], action)) <=> holds_slot(pulls[n])
                    /\ Labelled(Sent(n), action).added = Sent(n).added /\ Labelled(Sent(n), action).update = Sent(n).update
                    /\ Labelled(pulls[n], action).added = pulls[n].added /\ Labelled(pulls[n], action).update = pulls[n].update
    <3>1. /\ \A action : Labelled(Sent(n), action) \in PullType
          /\ \A action : Labelled(pulls[n], action) \in PullType
      BY <1>0, PullEdits, Zenon
    <3>2. \A action : /\ holds_slot(Labelled(Sent(n), action)) <=> holds_slot(Sent(n))
                      /\ Labelled(Sent(n), action).added = Sent(n).added /\ Labelled(Sent(n), action).update = Sent(n).update
      BY <1>0, HoldEdits
    <3>3. \A action : /\ holds_slot(Labelled(pulls[n], action)) <=> holds_slot(pulls[n])
                      /\ Labelled(pulls[n], action).added = pulls[n].added /\ Labelled(pulls[n], action).update = pulls[n].update
      BY <1>0, HoldEdits
    <3> QED
      BY <3>1, <3>2, <3>3
  <2>2. \E q \in {Labelled(Sent(n), rows[n].label), Sent(n), Labelled(pulls[n], rows[n].label)} : p = [q EXCEPT !.judged = FALSE]
    BY DEF Written
  <2> HIDE DEF n
  <2> QED
    BY <1>0, <2>1, <2>2
<1>2. ~p.judged /\ p.added = q.added /\ p.update = q.update /\ (holds_slot(p) <=> holds_slot(q))
  BY <1>1, HoldEdits
<1>3. CASE Sent(n) = pulls[n]
  BY <1>0, <1>1, <1>2, <1>3 DEF Holding
<1>4. CASE Sent(n) # pulls[n]
  <2>1. rows[n].sync /\ pulls[n].judged /\ Sent(n) = Updated(pulls[n], pulls[n].added \/ ~rows[n].replaces)
    BY <1>4 DEF Sent
  <2>2. (pulls[n].added \/ ~rows[n].replaces) \in BOOLEAN
    OBVIOUS
  <2>a. \A added \in BOOLEAN : Updated(pulls[n], added).update /\ (Updated(pulls[n], added).added = added)
    BY <1>0, HoldEdits
  <2>3. Sent(n).update /\ (Sent(n).added <=> (pulls[n].added \/ ~rows[n].replaces))
    BY <2>1, <2>2, <2>a
  <2>4. p.added => p.update
    BY <1>0, <1>1, <1>2, <2>3
  <2>5. p.added => pulls[n].added \/ ~rows[n].replaces
    BY <1>1, <1>2, <2>3
  <2>6. p.added => n \in Reserved
    BY <1>0, <2>1, <2>5 DEF Reserved
  <2> QED
    BY <1>2, <2>4, <2>6
<1> QED
  BY <1>3, <1>4

LEMMA JudgeKeeps ==
    ASSUME Typed, Judge
    PROVE  \A n \in Pulls : /\ pulls'[n].added = pulls[n].added /\ pulls'[n].update = pulls[n].update
                            /\ holds_slot(pulls'[n]) <=> holds_slot(pulls[n])
<1> SUFFICES ASSUME NEW n \in Pulls
             PROVE  /\ pulls'[n].added = pulls[n].added /\ pulls'[n].update = pulls[n].update
                    /\ holds_slot(pulls'[n]) <=> holds_slot(pulls[n])
  OBVIOUS
<1>1. pulls'[n] = [pulls[n] EXCEPT !.judged = n \in DOMAIN rows']
  BY DEF Judge
<1>2. (n \in DOMAIN rows') \in BOOLEAN
  OBVIOUS
<1>3. pulls[n] \in PullType
  BY DEF Typed
<1>4. \A judged \in BOOLEAN : LET p == [pulls[n] EXCEPT !.judged = judged]
                             IN /\ p.added = pulls[n].added /\ p.update = pulls[n].update
                                /\ holds_slot(p) <=> holds_slot(pulls[n])
  BY <1>3, HoldEdits
<1> QED
  BY <1>1, <1>2, <1>4

LEMMA AddedKept == Typed /\ AddedIsUpdate /\ [Next]_syncVars => AddedIsUpdate'
<1> SUFFICES ASSUME Typed, AddedIsUpdate, [Next]_syncVars PROVE AddedIsUpdate'
  OBVIOUS
<1>1. CASE Judge
  BY <1>1, JudgeKeeps DEF AddedIsUpdate
<1>2. CASE WriteRow
  <2>1. PICK p \in Written : pulls' = [pulls EXCEPT ![Next_row] = p]
    BY <1>2, WriteEffect
  <2>2. p.added => p.update
    BY <1>2, WriteEffect, WrittenTame
  <2> QED
    BY <2>1, <2>2 DEF AddedIsUpdate, Typed
<1>3. CASE Killed \/ MainMoves
  BY <1>3, MovesTame DEF AddedIsUpdate, Tame
<1>4. CASE \E n \in Pulls : Edits(n)
  BY <1>4, EditsTame DEF AddedIsUpdate, Tame
<1>5. CASE UNCHANGED syncVars
  BY <1>5 DEF syncVars, AddedIsUpdate
<1> QED
  BY <1>1, <1>2, <1>3, <1>4, <1>5 DEF Next, Edits

\* No step but a run's read adds to what holds a slot or may come to.
LEMMA LoadShrinks ==
    ASSUME Typed, AddedIsUpdate, [Next]_syncVars, ~Judge
    PROVE  (Holding \cup Reserved)' \subseteq Holding \cup Reserved
<1>1. CASE WriteRow
  <2>1. PICK p \in Written : pulls' = [pulls EXCEPT ![Next_row] = p]
    BY <1>1, WriteEffect
  <2>2. Next_row \in DOMAIN rows /\ Next_row \in Pulls /\ rows' = [m \in DOMAIN rows \ {Next_row} |-> rows[m]]
    BY <1>1, WriteEffect
  <2>3. pulls'[Next_row] = p /\ \A m \in Pulls \ {Next_row} : pulls'[m] = pulls[m]
    BY <2>1, <2>2 DEF Typed
  <2>4. p.added /\ holds_slot(p) => Next_row \in Holding \cup Reserved
    BY <2>2, WrittenTame
  <2>5. ASSUME NEW m \in Holding' PROVE m \in Holding \cup Reserved
    BY <2>3, <2>4, <2>5 DEF Holding
  <2>6. ASSUME NEW m \in Reserved' PROVE m \in Reserved
    <3>1. m \in DOMAIN rows /\ m # Next_row /\ rows'[m] = rows[m] /\ m \in Pulls
      BY <2>2, <2>6 DEF Reserved, Typed
    <3> QED
      BY <2>3, <2>6, <3>1 DEF Reserved
  <2> QED
    BY <2>5, <2>6
<1>2. ASSUME \A m \in Pulls : Tame(pulls[m], pulls'[m]), rows' = rows \/ rows' = <<>>
      PROVE  (Holding \cup Reserved)' \subseteq Holding \cup Reserved
  <2>1. Holding' \subseteq Holding
    BY <1>2 DEF Tame, Holding
  <2>2. Reserved' \subseteq Reserved
    BY <1>2 DEF Tame, Reserved, Typed
  <2> QED
    BY <2>1, <2>2
<1>3. CASE Killed \/ MainMoves
  BY <1>2, <1>3, MovesTame, Zenon DEF Killed, MainMoves
<1>4. CASE \E n \in Pulls : Edits(n)
  BY <1>2, <1>4, EditsTame, EditTypes
<1>5. CASE UNCHANGED syncVars
  BY <1>5 DEF syncVars, Holding, Reserved
<1> QED
  BY <1>1, <1>3, <1>4, <1>5 DEF Next, Edits

\* A run's plan gives out the free slots only; a row beyond them replaces a head it counted.
LEMMA JudgeFits ==
    ASSUME Typed, AddedIsUpdate, SlotsSuffice, Judge
    PROVE  SlotsSuffice'
<1> DEFINE Held == {n \in Pulls : holds_slot(pulls[n])}
<1>1. PICK strict \in requires_up_to_date, quiet \in SUBSET Old, late \in SUBSET Old : rows' = plan(pulls, strict, quiet, late)
  BY DEF Judge
<1> DEFINE Given == Slotted(pulls, {n \in Pulls : Candidate(pulls[n], n \in quiet, n \in late)})
<1>2. IsFiniteSet(Held) /\ Cardinality(Held) \in Nat /\ MaxInFlight \in Nat
  BY SyncAssumption, FS_Subset, FS_CardinalityType
<1>3. free(pulls) = IF Cardinality(Held) > MaxInFlight THEN 0 ELSE MaxInFlight - Cardinality(Held)
  BY DEF free
<1>4. free(pulls) \in Nat
  BY <1>2, <1>3
<1>5. IsFiniteSet(Given) /\ Cardinality(Given) <= free(pulls) /\ Cardinality(Given) \in Nat
  <2>1. {n \in Pulls : Candidate(pulls[n], n \in quiet, n \in late)} \in SUBSET Pulls
    OBVIOUS
  <2> QED
    BY <1>4, <2>1, SlottedFits, FS_CardinalityType
<1>6. Holding' = Holding
  BY JudgeKeeps DEF Holding
<1>7. Reserved' \subseteq Given \cup Holding
  <2> SUFFICES ASSUME NEW n \in Reserved' PROVE n \in Given \cup Holding
    OBVIOUS
  <2> DEFINE R(m) == Replaces(pulls[m], strict)
             row == [m \in Pulls |-> [sync |-> m \in Given \/ R(m), label |-> LabelChange(pulls[m]), replaces |-> R(m)]]
  <2>0. rows' = [m \in {k \in Pulls : row[k].sync \/ row[k].label # "keep"} |-> row[m]]
    BY <1>1, Zenon DEF plan
  <2>1. n \in Pulls /\ rows'[n].sync /\ (~rows'[n].replaces \/ pulls'[n].added) /\ rows'[n] = row[n]
    <3> HIDE DEF row
    <3> QED
      BY <2>0 DEF Reserved
  <2>2. (rows'[n].sync <=> n \in Given \/ R(n)) /\ (rows'[n].replaces <=> R(n))
    <3> DEFINE on == n \in Given \/ R(n)
               off == R(n)
               why == LabelChange(pulls[n])
    <3>1. row[n] = [sync |-> on, label |-> why, replaces |-> off]
      BY <2>1, Zenon
    <3> HIDE DEF row, on, off, why
    <3>2. rows'[n].sync = on /\ rows'[n].replaces = off
      BY <2>1, <3>1
    <3> QED
      BY <3>2, Zenon DEF on, off
  <2>3. CASE ~Replaces(pulls[n], strict)
    BY <2>1, <2>2, <2>3
  <2>4. CASE Replaces(pulls[n], strict)
    <3>1. pulls[n].added /\ running(pulls[n])
      BY <2>1, <2>2, <2>4, JudgeKeeps DEF Replaces
    <3> QED
      BY <2>1, <3>1 DEF Holding, holds_slot, AddedIsUpdate
  <2> QED
    BY <2>3, <2>4
<1>8. (Holding \cup Reserved)' \subseteq Holding \cup Given
  BY <1>6, <1>7
<1>9. IsFiniteSet(Holding) /\ Cardinality(Holding) \in Nat /\ Cardinality(Holding) <= MaxInFlight /\ Cardinality(Holding) <= Cardinality(Held)
  <2>1. IsFiniteSet(Holding \cup Reserved) /\ Holding \subseteq Holding \cup Reserved /\ Holding \subseteq Held
    <3>1. Holding \cup Reserved \subseteq Pulls
      BY DEF Typed, Holding, Reserved
    <3> QED
      BY <3>1, SyncAssumption, FS_Subset DEF Holding
  <2>2. Cardinality(Holding) <= Cardinality(Holding \cup Reserved) /\ IsFiniteSet(Holding)
    BY <2>1, FS_Subset
  <2>3. Cardinality(Holding) <= Cardinality(Held)
    BY <1>2, <2>1, FS_Subset
  <2>4. Cardinality(Holding) \in Nat /\ Cardinality(Holding \cup Reserved) \in Nat
    BY <2>1, <2>2, FS_CardinalityType
  <2> QED
    BY <1>2, <2>2, <2>3, <2>4 DEF SlotsSuffice
<1>10. IsFiniteSet(Holding \cup Given) /\ Cardinality(Holding \cup Given) <= Cardinality(Holding) + Cardinality(Given)
  <2>1. /\ IsFiniteSet(Holding \cup Given)
        /\ Cardinality(Holding \cup Given) = Cardinality(Holding) + Cardinality(Given) - Cardinality(Holding \cap Given)
    BY <1>5, <1>9, FS_Union
  <2>2. IsFiniteSet(Holding \cap Given) /\ Cardinality(Holding \cap Given) \in Nat
    BY <1>9, FS_Subset, FS_CardinalityType
  <2> QED
    BY <1>5, <1>9, <2>1, <2>2
<1>11. Cardinality(Holding) + Cardinality(Given) <= MaxInFlight
  BY <1>2, <1>3, <1>5, <1>9
<1>12. Cardinality((Holding \cup Reserved)') <= Cardinality(Holding \cup Given) /\ Cardinality((Holding \cup Reserved)') \in Nat
       /\ Cardinality(Holding \cup Given) \in Nat
  BY <1>8, <1>10, FS_Subset, FS_CardinalityType
<1>13. Cardinality((Holding \cup Reserved)') <= MaxInFlight
  BY <1>2, <1>5, <1>9, <1>10, <1>11, <1>12
<1> QED
  BY <1>13 DEF SlotsSuffice

LEMMA SlotsKept == Typed /\ AddedIsUpdate /\ SlotsSuffice /\ [Next]_syncVars => SlotsSuffice'
<1> SUFFICES ASSUME Typed, AddedIsUpdate, SlotsSuffice, [Next]_syncVars, ~Judge PROVE SlotsSuffice'
  BY JudgeFits
<1>1. Holding \cup Reserved \subseteq Pulls /\ MaxInFlight \in Nat
  BY SyncAssumption DEF Typed, Holding, Reserved
<1>2. IsFiniteSet(Holding \cup Reserved)
  BY <1>1, SyncAssumption, FS_Subset
<1>3. Cardinality((Holding \cup Reserved)') <= Cardinality(Holding \cup Reserved) /\ IsFiniteSet((Holding \cup Reserved)')
  BY <1>2, LoadShrinks, FS_Subset
<1>4. Cardinality((Holding \cup Reserved)') \in Nat /\ Cardinality(Holding \cup Reserved) \in Nat
  BY <1>2, <1>3, FS_CardinalityType
<1>5. Cardinality((Holding \cup Reserved)') <= MaxInFlight
  BY <1>1, <1>3, <1>4 DEF SlotsSuffice
<1> QED
  BY <1>5 DEF SlotsSuffice

\* Whatever happens between a run's read and its writes, and whatever a run that failed or died
\* left behind, the heads the runs updated into free slots never hold more than there are.
THEOREM LoadFits == Spec => []LoadBounded
<1> DEFINE Inv == Typed /\ AddedIsUpdate /\ SlotsSuffice
<1>1. Init => Inv
  <2> SUFFICES ASSUME Init PROVE Inv
    OBVIOUS
  <2>1. Fresh \in PullType /\ ~Fresh.added
    BY DEF Fresh, PullType
  <2>2. Typed /\ AddedIsUpdate
    BY <2>1 DEF Init, Typed, AddedIsUpdate
  <2>3. Holding \cup Reserved = {}
    BY <2>1 DEF Init, Holding, Reserved
  <2>4. Cardinality(Holding \cup Reserved) <= MaxInFlight
    BY <2>3, FS_EmptySet, SyncAssumption
  <2> QED
    BY <2>2, <2>4 DEF SlotsSuffice
<1>2. Inv /\ [Next]_syncVars => Inv'
  BY TypesKept, AddedKept, SlotsKept
<1>3. Inv => LoadBounded
  <2> SUFFICES ASSUME Inv PROVE LoadBounded
    OBVIOUS
  <2>1. Holding \cup Reserved \subseteq Pulls /\ MaxInFlight \in Nat
    BY SyncAssumption DEF Typed, Holding, Reserved
  <2>2. IsFiniteSet(Holding \cup Reserved) /\ Holding \subseteq Holding \cup Reserved
    BY <2>1, SyncAssumption, FS_Subset
  <2>3. Cardinality(Holding) <= Cardinality(Holding \cup Reserved) /\ IsFiniteSet(Holding)
    BY <2>2, FS_Subset
  <2>4. Cardinality(Holding) \in Nat /\ Cardinality(Holding \cup Reserved) \in Nat
    BY <2>2, <2>3, FS_CardinalityType
  <2>5. Cardinality(Holding) <= MaxInFlight
    BY <2>1, <2>3, <2>4 DEF SlotsSuffice
  <2> QED
    BY <2>5 DEF Holding, LoadBounded
<1> QED
  BY <1>1, <1>2, <1>3, PTL DEF Spec

------------------------------------------------------------------------------
(* The merge grants' badge *)

\* The grants are listed, and a pull request changes finitely many paths.
GrantsListed == (\E n \in Nat : DOMAIN Grants = 1 .. n) /\ \A c \in Changes : IsFiniteSet(DOMAIN c)

IsReader(r) ==
  r = [busy |-> r.busy, at |-> r.at, title |-> r.title, change |-> r.change] /\ r.busy \in BOOLEAN

\* A pass that asks has a version the pull request had, with that version's changes.
ReadOf(r) ==
  r.busy => r.at \in DOMAIN change.changes /\ r.change = change.changes[r.at]

\* The answer kept is of a version the pull request had; listed while that was its head, it is true of the
\* whole of what it changes.
KnownHolds ==
  /\ known = [at |-> known.at, name |-> known.name, away |-> known.away]
  /\ \E v, title :
       /\ known.at = <<v, title>>
       /\ known.name = 0 \/ v \in DOMAIN change.changes
       /\ known.name # 0 /\ ~known.away => ~Grant!NeedsAPerson(known.name, title, change.changes[v])

GrantInv ==
  /\ change = [version |-> change.version, title |-> change.title, changes |-> change.changes]
  /\ change.changes \in Seq(Changes) /\ change.version \in DOMAIN change.changes
  /\ reader = [r \in Readers |-> reader[r]]
  /\ \A r \in Readers : IsReader(reader[r]) /\ ReadOf(reader[r])
  /\ KnownHolds

\* Of grants that hold one is the first.
LEMMA FirstGrant ==
  ASSUME GrantsListed, NEW held \in SUBSET DOMAIN Grants, held # {}
  PROVE  (CHOOSE i \in held : \A j \in held : i <= j) \in held
<1>1. PICK n \in Nat : DOMAIN Grants = 1 .. n
  BY DEF GrantsListed
<1>2. held \in SUBSET Nat /\ IsFiniteSet(held)
  <2>1. IsFiniteSet(1 .. n)
    BY FS_Interval
  <2> QED
    BY <1>1, <2>1, FS_Subset
<1>3. \E i \in held : \A j \in held : i <= j
  BY <1>2, Extremes
<1> QED
  BY <1>3

\* A grant that allows what a listing names allows the whole change, when the listing is whole.
LEMMA WholeListing ==
  ASSUME NEW i \in DOMAIN Grants, NEW title, NEW c,
         Grant!in_scope(Grants[i], title), Grant!judge(Grants[i], DOMAIN c, c)
  PROVE  ~Grant!NeedsAPerson(i, title, c)
<1>1. Grants[i].titles = {"any"} \/ title \in Grants[i].titles
  BY DEF Grant!in_scope, Grant!Any
<1>2. CASE Grants[i].categories = {"any"} /\ Grants[i].exclusions = {}
  BY <1>1, <1>2 DEF Grant!NeedsAPerson, Grant!Any
<1>3. CASE /\ Grants[i].categories = {"any"} \/ Grant!categorized(Grants[i], DOMAIN c, c)
           /\ ~Grant!excluded(Grants[i], DOMAIN c, c)
  <2>1. Grants[i].categories # {"any"} =>
          \A k \in DOMAIN c : /\ \E e \in Grants[i].categories : k \in Category[e]
                              /\ k \in Conditional => c[k] = "plain"
    BY <1>3 DEF Grant!categorized, Grant!Text
  <2>2. \A x \in Grants[i].exclusions, k \in DOMAIN c :
          ~(k \in Exclusion[x].kinds /\ (Exclusion[x].lines => c[k] # "plain"))
    BY <1>3 DEF Grant!excluded, Grant!Text
  <2> QED
    BY <1>1, <2>1, <2>2 DEF Grant!NeedsAPerson, Grant!Any
<1> QED
  BY <1>2, <1>3 DEF Grant!judge, Grant!Any

\* The answer to a whole listing is a grant that needs no person, or none.
LEMMA DecidedWhole ==
  ASSUME GrantsListed, NEW title, NEW c, Grant!decide(title, DOMAIN c, c) # 0
  PROVE  ~Grant!NeedsAPerson(Grant!decide(title, DOMAIN c, c), title, c)
<1> DEFINE held == Grant!Holding(title, DOMAIN c, c)
<1>1. held # {} /\ Grant!decide(title, DOMAIN c, c) = (CHOOSE i \in held : \A j \in held : i <= j)
  BY DEF Grant!decide
<1>2. held \in SUBSET DOMAIN Grants
  BY DEF Grant!Holding
<1>3. Grant!decide(title, DOMAIN c, c) \in held
  <2> HIDE DEF held
  <2> QED
    BY <1>1, <1>2, FirstGrant
<1> QED
  BY <1>2, <1>3, WholeListing DEF Grant!Holding

\* Where no file is asked for, the first grant of the title allows whatever is changed.
LEMMA DecidedUnseen ==
  ASSUME GrantsListed, NEW title, NEW c, ~Grant!NeedsFiles(title), Grant!decide(title, {}, <<>>) # 0
  PROVE  ~Grant!NeedsAPerson(Grant!decide(title, {}, <<>>), title, c)
<1> DEFINE held == Grant!Holding(title, {}, <<>>)
           d == CHOOSE i \in held : \A j \in held : i <= j
<1>1. held # {} /\ Grant!decide(title, {}, <<>>) = d
  BY DEF Grant!decide
<1>2. held \in SUBSET DOMAIN Grants /\ \A i \in held : Grant!in_scope(Grants[i], title)
  BY DEF Grant!Holding
<1>3. PICK unasked \in DOMAIN Grants :
         /\ Grant!in_scope(Grants[unasked], title)
         /\ Grants[unasked].categories = {"any"} /\ Grants[unasked].exclusions = {}
         /\ \A j \in DOMAIN Grants : Grant!in_scope(Grants[j], title) => ~(j < unasked)
  BY <1>1, <1>2 DEF Grant!NeedsFiles, Grant!Any
<1>4. unasked \in held
  BY <1>3 DEF Grant!Holding, Grant!judge, Grant!Any
<1>5. d \in held /\ \A j \in held : d <= j
  <2>1. \E i \in held : \A j \in held : i <= j
    <3>1. \A j \in held : ~(j < unasked)
      BY <1>2, <1>3
    <3>2. held \subseteq Nat
      BY <1>2 DEF GrantsListed
    <3>3. \A j \in held : unasked <= j
      BY <1>4, <3>1, <3>2
    <3> QED
      BY <1>4, <3>3
  <2> HIDE DEF held
  <2> QED
    BY <2>1
<1>6. d = unasked
  <2>1. d \in Nat /\ unasked \in Nat
    BY <1>2, <1>4, <1>5 DEF GrantsListed
  <2> HIDE DEF d
  <2> QED
    BY <1>2, <1>3, <1>4, <1>5, <2>1
<1>7. ~Grant!NeedsAPerson(unasked, title, c)
  BY <1>3 DEF Grant!NeedsAPerson, Grant!in_scope, Grant!Any
<1> QED
  BY <1>1, <1>6, <1>7

\* It holds at the start.
LEMMA GrantInit == ASSUME Grant!Init PROVE GrantInv
<1>1. PICK c \in Changes, title \in Titles : change = [version |-> 1, title |-> title, changes |-> <<c>>]
  BY DEF Grant!Init
<1>2. reader = [r \in Readers |-> [busy |-> FALSE, at |-> 0, title |-> "", change |-> <<>>]]
  BY DEF Grant!Init, Grant!Idle
<1>3. \A r \in Readers : IsReader(reader[r]) /\ ReadOf(reader[r])
  BY <1>2 DEF IsReader, ReadOf
<1>4. KnownHolds
  <2>1. /\ known.at = <<0, "">> /\ known.name = 0
        /\ known = [at |-> known.at, name |-> known.name, away |-> known.away]
    BY DEF Grant!Init
  <2> QED
    BY <2>1 DEF KnownHolds
<1> QED
  <2>1. /\ change = [version |-> change.version, title |-> change.title, changes |-> change.changes]
        /\ change.version = 1 /\ change.changes = <<c>>
    BY <1>1
  <2>2. change.changes \in Seq(Changes) /\ change.version \in DOMAIN change.changes
    BY <2>1
  <2>3. reader = [r \in Readers |-> reader[r]]
    BY <1>2
  <2> QED
    BY <1>3, <1>4, <2>1, <2>2, <2>3 DEF GrantInv

\* A pass that stops asking, with an answer or without, leaves the others as they were.
LEMMA ReaderRests ==
  ASSUME GrantInv, NEW r \in Readers, UNCHANGED change,
         reader' = [reader EXCEPT ![r] = Grant!Idle]
  PROVE  reader' = [s \in Readers |-> reader'[s]] /\ \A s \in Readers : IsReader(reader'[s]) /\ ReadOf(reader[s])'
<1>1. IsReader(Grant!Idle) /\ ~Grant!Idle.busy
  BY DEF IsReader, Grant!Idle
<1>2. \A s \in Readers : reader'[s] = IF s = r THEN Grant!Idle ELSE reader[s]
  BY DEF GrantInv
<1>3. reader' = [s \in Readers |-> reader'[s]]
  BY DEF GrantInv
<1>4. \A s \in Readers : IsReader(reader[s]) /\ ReadOf(reader[s])
  BY DEF GrantInv
<1> QED
  BY <1>1, <1>2, <1>3, <1>4 DEF ReadOf

LEMMA SameCardinality == \A S : Grant!Cardinality(S) = Cardinality(S)
BY DEF Cardinality, Grant!Cardinality

LEMMA GrantStep ==
  ASSUME GrantsListed, GrantInv, [Grant!Next]_Grant!grantVars
  PROVE  GrantInv'
<1>0. /\ change = [version |-> change.version, title |-> change.title, changes |-> change.changes]
      /\ change.changes \in Seq(Changes) /\ change.version \in DOMAIN change.changes
      /\ reader = [r \in Readers |-> reader[r]]
      /\ \A r \in Readers : IsReader(reader[r]) /\ ReadOf(reader[r])
      /\ KnownHolds
  BY DEF GrantInv
<1>1. CASE Grant!Push
  <2> DEFINE n == Len(change.changes) + 1
  <2>1. PICK c \in Changes :
          /\ change' = [change EXCEPT !.version = Len(change.changes) + 1, !.changes = Append(@, c)]
          /\ UNCHANGED <<reader, known>>
    BY <1>1 DEF Grant!Push
  <2>2. /\ change' = [version |-> n, title |-> change.title, changes |-> Append(change.changes, c)]
        /\ change'.version = n /\ change'.changes = Append(change.changes, c)
    BY <1>0, <2>1
  <2>3. /\ change'.changes \in Seq(Changes) /\ n \in DOMAIN change'.changes
        /\ \A v \in DOMAIN change.changes :
             v \in DOMAIN change'.changes /\ change'.changes[v] = change.changes[v]
    BY <1>0, <2>2
  <2>4. \A r \in Readers : ReadOf(reader[r])'
    BY <1>0, <2>1, <2>3 DEF ReadOf
  <2>5. KnownHolds'
    <3>1. PICK v, title :
            /\ known.at = <<v, title>>
            /\ known.name = 0 \/ v \in DOMAIN change.changes
            /\ known.name # 0 /\ ~known.away => ~Grant!NeedsAPerson(known.name, title, change.changes[v])
      BY <1>0 DEF KnownHolds
    <3>2. known.name # 0 => v \in DOMAIN change'.changes /\ change'.changes[v] = change.changes[v]
      BY <2>3, <3>1
    <3>3. known' = known
      BY <2>1
    <3> QED
      BY <1>0, <3>1, <3>2, <3>3 DEF KnownHolds
  <2>6. change' = [version |-> change'.version, title |-> change'.title, changes |-> change'.changes]
    BY <2>2
  <2> QED
    BY <1>0, <2>1, <2>2, <2>3, <2>4, <2>5, <2>6 DEF GrantInv
<1>2. CASE Grant!Retitle
  <2>1. PICK title : change' = [change EXCEPT !.title = title] /\ UNCHANGED <<reader, known>>
    BY <1>2 DEF Grant!Retitle
  <2>2. /\ change' = [version |-> change'.version, title |-> change'.title, changes |-> change'.changes]
        /\ change'.version = change.version /\ change'.changes = change.changes
    BY <1>0, <2>1
  <2> QED
    BY <1>0, <2>1, <2>2 DEF GrantInv, ReadOf, KnownHolds
<1>7. CASE Grant!PushBack
  <2>1. PICK v \in DOMAIN change.changes : change' = [change EXCEPT !.version = v] /\ UNCHANGED <<reader, known>>
    BY <1>7 DEF Grant!PushBack
  <2>2. /\ change' = [version |-> change'.version, title |-> change'.title, changes |-> change'.changes]
        /\ change'.version = v /\ change'.changes = change.changes
    BY <1>0, <2>1
  <2> QED
    BY <1>0, <2>1, <2>2 DEF GrantInv, ReadOf, KnownHolds
<1>3. ASSUME NEW r \in Readers, Grant!Asks(r) PROVE GrantInv'
  <2> DEFINE reading == [busy |-> TRUE, at |-> change.version, title |-> change.title,
                         change |-> change.changes[change.version]]
  <2>1. reader' = [reader EXCEPT ![r] = reading] /\ UNCHANGED <<change, known>>
    BY <1>3 DEF Grant!Asks, Grant!Change
  <2>2. IsReader(reading) /\ reading.at = change.version /\ reading.change = change.changes[change.version]
    BY DEF IsReader
  <2> HIDE DEF reading
  <2>3. \A s \in Readers : reader'[s] = IF s = r THEN reading ELSE reader[s]
    BY <1>0, <2>1
  <2>4. \A s \in Readers : IsReader(reader'[s]) /\ ReadOf(reader[s])'
    BY <1>0, <2>1, <2>2, <2>3 DEF ReadOf
  <2>5. reader' = [s \in Readers |-> reader'[s]]
    BY <1>0, <2>1
  <2> QED
    BY <1>0, <2>1, <2>4, <2>5 DEF GrantInv, KnownHolds
<1>4. ASSUME NEW r \in Readers, Grant!GivesUp(r) PROVE GrantInv'
  <2>1. reader' = [reader EXCEPT ![r] = Grant!Idle] /\ UNCHANGED <<change, known>>
    BY <1>4 DEF Grant!GivesUp
  <2> QED
    BY <1>0, <2>1, ReaderRests DEF GrantInv, KnownHolds
<1>5. ASSUME NEW r \in Readers, Grant!Decides(r) PROVE GrantInv'
  <2> DEFINE whole == change.changes[reader[r].at]
  <2>1. reader' = [reader EXCEPT ![r] = Grant!Idle] /\ UNCHANGED change /\ reader[r].busy
    BY <1>5 DEF Grant!Decides, Grant!Keeps
  <2>2. PICK answer, away :
          /\ known' = [at |-> <<reader[r].at, reader[r].title>>, name |-> answer, away |-> away]
          /\ \/ /\ ~Grant!NeedsFiles(reader[r].title)
                /\ answer = Grant!decide(reader[r].title, {}, <<>>)
             \/ /\ away = (reader[r].at # change.version)
                /\ \E listed \in SUBSET DOMAIN change.changes[change.version] :
                     /\ Grant!files(r, listed)
                     /\ answer = Grant!decide(reader[r].title, listed, reader[r].change)
    BY <1>5 DEF Grant!Decides, Grant!Keeps, Grant!fingerprint, Grant!Change
  <2>3. reader[r].at \in DOMAIN change.changes /\ reader[r].change = whole
    BY <1>0, <2>1 DEF ReadOf
  <2>4. ASSUME answer # 0, ~away
        PROVE  ~Grant!NeedsAPerson(answer, reader[r].title, whole)
    <3>1. CASE ~Grant!NeedsFiles(reader[r].title) /\ answer = Grant!decide(reader[r].title, {}, <<>>)
      BY <2>4, <3>1, DecidedUnseen
    <3>2. ASSUME reader[r].at = change.version,
                 NEW listed \in SUBSET DOMAIN change.changes[change.version], Grant!files(r, listed),
                 answer = Grant!decide(reader[r].title, listed, reader[r].change)
          PROVE  ~Grant!NeedsAPerson(answer, reader[r].title, whole)
      <4>1. reader[r].change = whole /\ listed \in SUBSET DOMAIN whole
        BY <2>3, <3>2
      <4>2. IsFiniteSet(DOMAIN whole)
        <5>1. whole \in Changes
          BY <1>0, <2>3
        <5> QED
          BY <5>1 DEF GrantsListed
      <4>3. Cardinality(listed) = Cardinality(DOMAIN whole)
        <5>1. Cardinality(listed) = Cardinality(DOMAIN reader[r].change)
          BY <3>2, SameCardinality DEF Grant!files
        <5> QED
          BY <4>1, <5>1
      <4> HIDE DEF whole
      <4>4. listed = DOMAIN whole
        BY <4>1, <4>2, <4>3, FS_Subset
      <4> QED
        BY <2>4, <3>2, <4>1, <4>4, DecidedWhole
    <3> QED
      BY <2>2, <2>4, <3>1, <3>2
  <2>5. KnownHolds'
    <3>1. /\ known' = [at |-> known'.at, name |-> known'.name, away |-> known'.away]
          /\ known'.at = <<reader[r].at, reader[r].title>>
          /\ known'.name = answer /\ known'.away = away
      BY <2>2
    <3>2. change'.changes = change.changes
      BY <2>1
    <3> QED
      BY <2>3, <2>4, <3>1, <3>2 DEF KnownHolds
  <2> QED
    BY <1>0, <2>1, <2>5, ReaderRests DEF GrantInv
<1>6. CASE UNCHANGED Grant!grantVars
  BY <1>6, <1>0 DEF Grant!grantVars, GrantInv, ReadOf, KnownHolds
<1> QED
  BY <1>1, <1>2, <1>3, <1>4, <1>5, <1>6, <1>7 DEF Grant!Next

\* For any policy, any changes and any number of passes that ask: the badge
\* beside the head a pull request has stands for the whole of what it changes,
\* whatever was pushed, pushed back, retitled or listed late while they asked,
\* if it rests on no listing of another version taken while this one was away
\* (merge_grant.py judge, decide, _files; pull_reader.py).
THEOREM BadgeStands ==
  ASSUME GrantsListed
  PROVE  Grant!Spec => []BadgeHolds
<1>1. GrantInv => BadgeHolds
  <2> SUFFICES ASSUME GrantInv, known.name # 0, known.at = <<change.version, change.title>>, ~known.away
               PROVE  ~Grant!NeedsAPerson(known.name, change.title, change.changes[change.version])
    BY DEF BadgeHolds, Grant!BadgeHolds, Grant!Change
  <2>1. PICK v, title :
          /\ known.at = <<v, title>>
          /\ known.name # 0 /\ ~known.away => ~Grant!NeedsAPerson(known.name, title, change.changes[v])
    BY DEF GrantInv, KnownHolds
  <2>2. v = change.version /\ title = change.title
    BY <2>1
  <2> QED
    BY <2>1, <2>2
<1> QED
  BY <1>1, GrantInit, GrantStep, PTL DEF Grant!Spec

----------------------------------------------------------------------------
(* The evidence of explorers *)

IsSeq(s) == \E S : s \in Seq(S)

LEMMA SeqDomain == ASSUME NEW s, IsSeq(s) PROVE Len(s) \in Nat /\ DOMAIN s = 1..Len(s)
<1>1. PICK S : s \in Seq(S)
  BY DEF IsSeq
<1> QED
  BY <1>1

LEMMA Appended ==
    ASSUME NEW s, IsSeq(s), NEW e
    PROVE  /\ IsSeq(Append(s, e)) /\ Len(Append(s, e)) = Len(s) + 1
           /\ \A i \in 1..Len(s) : Append(s, e)[i] = s[i]
           /\ Append(s, e)[Len(s) + 1] = e
<1>1. PICK S : s \in Seq(S)
  BY DEF IsSeq
<1>2. s \in Seq(S \cup {e}) /\ e \in S \cup {e}
  BY <1>1
<1>3. Append(s, e) \in Seq(S \cup {e})
  BY <1>2
<1> QED
  BY <1>2, <1>3 DEF IsSeq

Grow(f, e, x) == [f EXCEPT ![e] = Append(@, x)]

LEMMA Grown ==
    ASSUME NEW D, NEW f, DOMAIN f = D, \A d \in D : IsSeq(f[d]), NEW e, NEW x,
           NEW g, g = Grow(f, e, x)
    PROVE  /\ DOMAIN g = D
           /\ \A d \in D : /\ IsSeq(g[d]) /\ Len(f[d]) <= Len(g[d])
                           /\ \A i \in 1..Len(f[d]) : g[d][i] = f[d][i]
                           /\ \A i \in 1..Len(g[d]) : i \notin 1..Len(f[d]) => d = e /\ g[d][i] = x
           /\ e \in D => Len(g[e]) \in 1..Len(g[e]) /\ g[e][Len(g[e])] = x
<1>1. DOMAIN g = D /\ \A d \in D : g[d] = IF d = e THEN Append(f[e], x) ELSE f[d]
  BY DEF Grow
<1>2. ASSUME NEW d \in D
      PROVE  /\ IsSeq(g[d]) /\ Len(f[d]) <= Len(g[d])
             /\ \A i \in 1..Len(f[d]) : g[d][i] = f[d][i]
             /\ \A i \in 1..Len(g[d]) : i \notin 1..Len(f[d]) => d = e /\ g[d][i] = x
             /\ d = e => Len(g[e]) \in 1..Len(g[e]) /\ g[e][Len(g[e])] = x
  <2>1. IsSeq(f[d]) /\ Len(f[d]) \in Nat
    BY SeqDomain
  <2>2. CASE d # e
    BY <1>1, <2>1, <2>2
  <2>3. CASE d = e
    <3>1. g[d] = Append(f[d], x)
      BY <1>1, <2>3
    <3>2. /\ IsSeq(g[d]) /\ Len(g[d]) = Len(f[d]) + 1
          /\ \A i \in 1..Len(f[d]) : g[d][i] = f[d][i]
          /\ g[d][Len(f[d]) + 1] = x
      BY <2>1, <3>1, Appended
    <3> QED
      BY <2>1, <2>3, <3>2
  <2> QED
    BY <2>2, <2>3
<1> QED
  BY <1>1, <1>2

Error(a) == [url |-> a.url, status |-> a.status]
Tells(a) == a.status \in Left!Failing \ {"abort"}

\* A console tells of every failure the site answered with: the explorers choose what they save, not this.
ConsoleTells ==
  /\ DOMAIN made = Explorers /\ DOMAIN console = Explorers
  /\ \A e \in Explorers : IsSeq(made[e]) /\ IsSeq(console[e])
  /\ \A e \in Explorers : \A i \in 1..Len(made[e]) :
       Tells(made[e][i]) => \E j \in 1..Len(console[e]) : console[e][j] = Error(made[e][i])

LEMMA ConsoleStarts == Left!Init => ConsoleTells
<1> SUFFICES ASSUME Left!Init PROVE ConsoleTells
  OBVIOUS
<1>1. \A e \in Explorers : made[e] = <<>> /\ console[e] = <<>>
  BY DEF Left!Init
<1>2. IsSeq(<<>>) /\ 1..Len(<<>>) = {}
  <2>1. <<>> \in Seq({})
    OBVIOUS
  <2> QED
    BY <2>1 DEF IsSeq
<1> QED
  BY <1>1, <1>2 DEF ConsoleTells, Left!Init

\* The console only grows.
Longer ==
  /\ DOMAIN console' = Explorers
  /\ \A d \in Explorers : /\ IsSeq(console'[d]) /\ Len(console[d]) <= Len(console'[d])
                          /\ \A j \in 1..Len(console[d]) : console'[d][j] = console[d][j]

LEMMA StaysLong == ASSUME ConsoleTells, console' = console PROVE Longer
<1>1. DOMAIN console = Explorers /\ \A d \in Explorers : IsSeq(console[d])
  BY DEF ConsoleTells
<1>2. \A d \in Explorers : Len(console[d]) \in Nat
  BY <1>1, SeqDomain
<1> QED
  BY <1>1, <1>2 DEF Longer

LEMMA GrowsLonger ==
    ASSUME ConsoleTells, NEW e, NEW c, console' = [console EXCEPT ![e] = Append(@, c)]
    PROVE  Longer /\ (e \in Explorers => Len(console'[e]) \in 1..Len(console'[e]) /\ console'[e][Len(console'[e])] = c)
<1>1. DOMAIN console = Explorers
  BY DEF ConsoleTells
<1>2. \A d \in Explorers : IsSeq(console[d])
  BY DEF ConsoleTells
<1> DEFINE was == console
           more == console'
<1>3. more = Grow(was, e, c)
  BY DEF Grow
<1>4. DOMAIN was = Explorers
  BY <1>1
<1>5. \A d \in Explorers : IsSeq(was[d])
  BY <1>2
<1> HIDE DEF was, more
<1>6. /\ DOMAIN more = Explorers
      /\ \A d \in Explorers : /\ IsSeq(more[d]) /\ Len(was[d]) <= Len(more[d])
                              /\ \A i \in 1..Len(was[d]) : more[d][i] = was[d][i]
      /\ e \in Explorers => Len(more[e]) \in 1..Len(more[e]) /\ more[e][Len(more[e])] = c
  BY <1>3, <1>4, <1>5, Grown
<1> QED
  BY <1>6 DEF Longer, was, more

\* What the console told of it tells of still.
LEMMA StillTold ==
    ASSUME ConsoleTells, Longer, NEW d \in Explorers, NEW i \in 1..Len(made[d]), Tells(made[d][i])
    PROVE  \E j \in 1..Len(console'[d]) : console'[d][j] = Error(made[d][i])
<1>1. PICK j \in 1..Len(console[d]) : console[d][j] = Error(made[d][i])
  BY DEF ConsoleTells
<1>2. IsSeq(console[d]) /\ IsSeq(console'[d])
  BY DEF ConsoleTells, Longer
<1>3. Len(console[d]) \in Nat /\ Len(console'[d]) \in Nat
  BY <1>2, SeqDomain
<1>4. Len(console[d]) <= Len(console'[d]) /\ console'[d][j] = console[d][j]
  BY DEF Longer
<1>5. j \in 1..Len(console'[d])
  BY <1>3, <1>4
<1> QED
  BY <1>1, <1>4, <1>5

LEMMA SameRequests == ASSUME ConsoleTells, Longer, made' = made PROVE ConsoleTells'
<1>1. \A d \in Explorers : \A i \in 1..Len(made[d]) :
        Tells(made[d][i]) => \E j \in 1..Len(console'[d]) : console'[d][j] = Error(made[d][i])
  BY StillTold
<1> QED
  BY <1>1 DEF ConsoleTells, Longer

\* A request that fails is told of.
LEMMA OneMoreRequest ==
    ASSUME ConsoleTells, Longer, NEW e, NEW a, made' = [made EXCEPT ![e] = Append(@, a)],
           Tells(a) /\ e \in Explorers => \E j \in 1..Len(console'[e]) : console'[e][j] = Error(a)
    PROVE  ConsoleTells'
<1>1. DOMAIN made = Explorers
  BY DEF ConsoleTells
<1>2. \A d \in Explorers : IsSeq(made[d])
  BY DEF ConsoleTells
<1> DEFINE was == made
           more == made'
<1>3. more = Grow(was, e, a)
  BY DEF Grow
<1>4. DOMAIN was = Explorers
  BY <1>1
<1>5. \A d \in Explorers : IsSeq(was[d])
  BY <1>2
<1> HIDE DEF was, more
<1>6. /\ DOMAIN more = Explorers
      /\ \A d \in Explorers : /\ IsSeq(more[d])
                              /\ \A i \in 1..Len(was[d]) : more[d][i] = was[d][i]
                              /\ \A i \in 1..Len(more[d]) : i \notin 1..Len(was[d]) => d = e /\ more[d][i] = a
  BY <1>3, <1>4, <1>5, Grown
<1>7. ASSUME NEW d \in Explorers, NEW i \in 1..Len(more[d]), Tells(more[d][i])
      PROVE  \E j \in 1..Len(console'[d]) : console'[d][j] = Error(more[d][i])
  <2>1. CASE i \in 1..Len(was[d])
    <3>1. more[d][i] = made[d][i] /\ i \in 1..Len(made[d])
      BY <1>6, <2>1 DEF was
    <3>2. Tells(made[d][i])
      BY <1>7, <3>1
    <3> QED
      BY <3>1, <3>2, StillTold
  <2>2. CASE i \notin 1..Len(was[d])
    <3>1. d = e /\ more[d][i] = a
      BY <1>6, <2>2
    <3> QED
      BY <1>7, <3>1
  <2> QED
    BY <2>1, <2>2
<1> QED
  BY <1>6, <1>7 DEF ConsoleTells, Longer, more

LEMMA ConsoleKeeps ==
    ASSUME ConsoleTells, [Left!Next]_Left!evidenceVars
    PROVE  ConsoleTells'
<1>1. CASE \E e \in Walkers, does \in Doings : Left!Act(e, does)
  <2>1. PICK e \in Walkers, does \in Doings : Left!Act(e, does)
    BY <1>1
  <2>2. PICK a \in Answers :
          /\ made' = [made EXCEPT ![e] = Append(@, a)]
          /\ console' = IF Tells(a) THEN [console EXCEPT ![e] = Append(@, Error(a))] ELSE console
    BY <2>1 DEF Left!Act, Tells, Error
  <2>3. CASE Tells(a)
    <3>1. console' = [console EXCEPT ![e] = Append(@, Error(a))]
      BY <2>2, <2>3
    <3>2. Longer /\ (e \in Explorers => Len(console'[e]) \in 1..Len(console'[e]) /\ console'[e][Len(console'[e])] = Error(a))
      BY <3>1, GrowsLonger
    <3> QED
      BY <2>2, <3>2, OneMoreRequest
  <2>4. CASE ~Tells(a)
    <3>1. Longer
      BY <2>2, <2>4, StaysLong
    <3> QED
      BY <2>2, <2>4, <3>1, OneMoreRequest
  <2> QED
    BY <2>3, <2>4
<1>2. CASE \E e \in Walkers : Left!Throws(e)
  <2>1. PICK e \in Walkers : Left!Throws(e)
    BY <1>2
  <2>2. made' = made /\ \E c : console' = [console EXCEPT ![e] = Append(@, c)]
    BY <2>1 DEF Left!Throws
  <2>3. Longer
    BY <2>2, GrowsLonger
  <2> QED
    BY <2>2, <2>3, SameRequests
<1>3. CASE UNCHANGED <<made, console>>
  BY <1>3, StaysLong, SameRequests
<1> QED
  BY <1>1, <1>2, <1>3, Zenon DEF Left!Next, Left!Look, Left!Shoot, Left!Save, Left!Works, Left!evidenceVars

\* A refusal tied to a step was the one refusal of that step, and its page told of it.
LEMMA TiedIsTold ==
    ASSUME NEW x \in Left!Tied
    PROVE  console[x[1]][x[2]].status = "422" /\ Left!TriedAndTold(x[1], x[2])
<1>1. PICK e \in Explorers : x \in UNION {{<<e, j>> : j \in Left!Errors(e, k, "422")} :
                                           k \in {m \in Left!marked(e) : Left!judge(e, m)}}
  BY DEF Left!Tied
<1>2. PICK k \in Left!marked(e) : Left!judge(e, k) /\ x \in {<<e, j>> : j \in Left!Errors(e, k, "422")}
  BY <1>1
<1>3. PICK j \in Left!Errors(e, k, "422") : x = <<e, j>>
  BY <1>2
<1>4. Left!Errors(e, k, "throws") = {} /\ ~Left!refusal_problem(e, k)
  BY <1>2 DEF Left!judge
<1>5. Left!Errors(e, k, "422") = {j}
  BY <1>4 DEF Left!refusal_problem
<1>6. PICK acted \in Left!Acted(e, k), answer \in Left!window(e, k) :
        /\ Left!logged(e, answer) \cap Left!Errors(e, k, "422") # {}
        /\ ~Left!page_problem(e, k, acted, answer)
  BY <1>4 DEF Left!refusal_problem
<1>7. PICK shown \in {i \in Left!window(e, k) : answer <= i /\ calls[e][i].view # "none"} : calls[e][shown].view = "told"
  BY <1>6 DEF Left!page_problem, Left!state_problem, Left!new_text
<1>8. Left!TriedAndTold(e, j)
  BY <1>2, <1>4, <1>5, <1>6, <1>7 DEF Left!TriedAndTold
<1> QED
  BY <1>3, <1>8 DEF Left!Errors

\* A run that passes had no URL of its own fail, and no other that did not work in another answer, was declared or
\* was refused to an input made to be: for any explorers, answers and criteria, whatever was saved, shot, retried
\* and tried (qae_artifacts.py, _retry.py, _probe.py).
THEOREM ServedStands == Left!Spec => []PassMeansServed
<1>1. ConsoleTells => PassMeansServed
  <2> SUFFICES ASSUME ConsoleTells, Left!Passes, NEW e \in Explorers, NEW r \in Left!ToSet(made[e]),
                      Tells(r), Left!judged(r.url)
               PROVE  \/ Left!Refusal(r) \in DeclaredFailures
                      \/ r.status \in {"500", "conn"} /\ ~Left!named(r.url) /\ \E a \in Left!answered : a[2] = r.url
                      \/ r.status = "422" /\ \A x \in Left!lines(Left!Refusal(r)) : Left!TriedAndTold(x[1], x[2])
    BY DEF PassMeansServed, Left!PassMeansServed, Tells
  <2>1. /\ Left!failed(r.status) = "422" => r.status = "422"
        /\ Left!failed(r.status) \in {"500", "FAILED"} => r.status \in {"500", "conn"}
    BY DEF Tells, Left!Failing, Left!failed
  <2>2. Left!Refusal(r).url = r.url /\ Left!Refusal(r).status = Left!failed(r.status)
    BY DEF Left!Refusal
  <2>3. Left!Refusal(r) \in Left!expected
    <3>1. PICK i \in 1..Len(made[e]) : r = made[e][i]
      BY SeqDomain DEF ConsoleTells, Left!ToSet
    <3>2. PICK j \in 1..Len(console[e]) : console[e][j] = Error(r)
      BY <3>1 DEF ConsoleTells
    <3>3. Error(r) \in Left!ToSet(console[e])
      BY <3>2, SeqDomain DEF ConsoleTells, Left!ToSet
    <3>4. Error(r).url = r.url /\ Error(r).status = r.status /\ r.status # "throws"
      BY DEF Error, Tells, Left!Failing
    <3>5. Left!refusal_expected(Left!expected, Error(r))
      BY <3>3, <3>4 DEF Left!Passes, Left!console_is_clean, Left!logged_off_site
    <3> QED
      BY <3>4, <3>5 DEF Left!refusal_expected, Left!Refusal
  <2>4. CASE Left!Refusal(r) \in Left!Excused
    <3>1. PICK x : Left!counts(x[1], x[2]) /\ \E q \in Left!excuse_answered(x[1], x[2]) : Left!Refusal(r) = Left!Refusal(q)
      BY <2>4 DEF Left!Excused
    <3>2. PICK q \in Left!excuse_answered(x[1], x[2]) : Left!Refusal(r) = Left!Refusal(q)
      BY <3>1
    <3>3. /\ q \in Left!environment(x[1], log[x[1]][x[2]].retries) /\ <<q.method, q.url>> \in Left!answered
          /\ ~Left!named(q.url) /\ q.status \in {"500", "conn"}
      BY <3>1, <3>2 DEF Left!excuse_answered, Left!counts, Left!environment
    <3>4. q.url = r.url /\ Left!failed(q.status) = Left!failed(r.status)
      <4>1. Left!Refusal(q).url = q.url /\ Left!Refusal(q).status = Left!failed(q.status)
        BY DEF Left!Refusal
      <4> QED
        BY <2>2, <3>2, <4>1
    <3>5. Left!failed(q.status) \in {"500", "FAILED"}
      BY <3>3 DEF Left!failed
    <3> QED
      BY <2>1, <3>3, <3>4, <3>5
  <2>5. CASE Left!Refusal(r) \in Left!probe_excuses
    <3>1. PICK x \in Left!Tied : Left!Refusal(r) = console[x[1]][x[2]] /\ ~Left!answer_problem(Left!Refusal(r))
      BY <2>5 DEF Left!probe_excuses
    <3>2. r.status = "422"
      BY <2>1, <2>2, <3>1, TiedIsTold
    <3>3. Left!lines(Left!Refusal(r)) \subseteq Left!Tied
      BY <3>1 DEF Left!answer_problem
    <3> QED
      BY <3>2, <3>3, TiedIsTold
  <2> QED
    BY <2>3, <2>4, <2>5 DEF Left!expected
<1> QED
  BY <1>1, ConsoleStarts, ConsoleKeeps, PTL DEF Left!Spec

----------------------------------------------------------------------------
(* The regression gate's run *)

\* A tree the run may start in.
Home == [p \in Swapped |-> IF p \in Deletes THEN "none" ELSE "head"]
OwnNets == \A c \in Containers : nets[c] = {"own"}
AtHead == {"unit at head", "specs at head"}
Moved == {"swap", "unit before", "specs before", "put back"}

\* Where the tree is: swapped only between the judgement of the head and the putting back, with signals caught.
TreeKnown ==
  /\ pc = "check" => /\ began \in [Swapped -> {"head", "edited", "none", "untracked"}]
                     /\ \A p \in Swapped : began[p] \in Fix!Kept(p)
  /\ pc \in {"open", "list", "judge head"} \cup AtHead \cup Moved => began = Home
  /\ pc \notin Moved /\ ~undo => tree = began
  /\ pc \in {"unit before", "specs before"} => \A p \in Swapped : tree[p] = "base"
  /\ undo => pc \in {"close", "done", "killed"}
  /\ ~caught \/ pc = "killed" => tree = began

\* Where the stack is: on its own networks while there is no seal, and unless signals are caught.
StackKnown ==
  /\ seal \in [network : BOOLEAN, entered : BOOLEAN, relay : BOOLEAN]
  /\ ~seal.network => OwnNets /\ stale = {} /\ Fix!Idle(seal)
  /\ ~caught \/ pc = "killed" => OwnNets
  /\ pc = "done" /\ seal.network => undo
  /\ pc \in {"check", "open"} => ~caught
  /\ pc = "list" => seal.network
  /\ pc \in AtHead /\ Fix!Spec_ # {} => caught /\ seal.network

RegInv == TreeKnown /\ StackKnown

LEMMA RegStarts == Fix!Init => RegInv
<1> SUFFICES ASSUME Fix!Init PROVE RegInv
  OBVIOUS
<1>1. TreeKnown
  BY DEF Fix!Init, TreeKnown, Fix!Kept, Moved, AtHead
<1>2. StackKnown
  BY DEF Fix!Init, StackKnown, OwnNets, AtHead, Fix!Idle
<1> QED
  BY <1>1, <1>2 DEF RegInv

\* Where an exception leads.
LEMMA Raised ==
    ASSUME Fix!Raise
    PROVE  \/ pc \in {"open", "list"} /\ Fix!Spec_ = {} /\ pc' = "unit at head"
           \/ pc \in {"swap", "unit before", "specs before"} /\ pc' = "put back"
           \/ pc \notin {"swap", "unit before", "specs before"} /\ pc' = IF seal.network THEN "close" ELSE "done"
<1>1. CASE Fix!listed_specs
  <2>1. Fix!Spec_ = {}
    BY <1>1 DEF Fix!listed_specs, Fix!Spec_, Fix!runner, Fix!framework
  <2> QED
    BY <1>1, <2>1 DEF Fix!Raise, Fix!listed_specs
<1>2. CASE ~Fix!listed_specs
  BY <1>2 DEF Fix!Raise, Fix!Leave
<1> QED
  BY <1>1, <1>2

LEMMA SpecMaybe == Fix!Spec_ # {} => \E f \in Files : Fix!maybe_playwright(f)
  BY DEF Fix!Spec_, Fix!runner, Fix!framework, Fix!maybe_playwright

LEMMA TreeKept ==
    ASSUME RegInv, [Fix!Next]_Fix!regressionVars
    PROVE  TreeKnown'
<1> USE DEF RegInv, TreeKnown, AtHead, Moved
<1>1. CASE Fix!compare
  <2>1. pc = "check" /\ UNCHANGED <<began, tree, undo, caught>>
    BY <1>1 DEF Fix!compare, Fix!world
  <2>2. CASE Fix!dirty
    BY <1>1, <2>1, <2>2 DEF Fix!compare, Fix!Leave
  <2>3. CASE ~Fix!dirty
    <3>1. pc' \in {"open", "unit at head"}
      BY <1>1, <2>3 DEF Fix!compare
    <3>2. tree = began
      BY <2>1
    <3>3. \A p \in Swapped : began[p] = Home[p]
      BY <2>1, <2>3, <3>2 DEF Fix!dirty, Fix!Kept, Home
    <3>4. began = Home
      BY <2>1, <3>3 DEF Home
    <3> QED
      BY <2>1, <3>1, <3>2, <3>4
  <2> QED
    BY <2>2, <2>3
<1>2. CASE Fix!open
  <2>1. pc = "open" /\ UNCHANGED <<began, tree, undo, caught>>
    BY <1>2 DEF Fix!open, Fix!world
  <2>2. pc' \in {"list", "unit at head", "close", "done"}
    <3>1. CASE Fix!Raise
      BY <2>1, <3>1, Raised
    <3> QED
      BY <1>2, <3>1 DEF Fix!open
  <2> QED
    BY <2>1, <2>2
<1>3. CASE Fix!listed
  BY <1>3 DEF Fix!listed, Fix!world
<1>4. CASE Fix!run_unit("unit at head", "at", "specs at head")
  <2>1. pc = "unit at head" /\ UNCHANGED <<began, tree, undo>> /\ (caught => caught')
    BY <1>4 DEF Fix!run_unit, Fix!world
  <2>2. pc' \in {"specs at head", "close", "done"}
    <3>1. CASE Fix!Raise
      BY <2>1, <3>1, Raised
    <3> QED
      BY <1>4, <3>1 DEF Fix!run_unit
  <2> QED
    BY <2>1, <2>2
<1>5. CASE Fix!run_specs("specs at head", "at", "judge head")
  <2>1. pc = "specs at head" /\ UNCHANGED <<began, tree, undo, caught>>
    BY <1>5 DEF Fix!run_specs, Fix!world
  <2>2. pc' \in {"judge head", "close", "done"}
    <3>1. CASE Fix!Raise
      BY <2>1, <3>1, Raised
    <3> QED
      BY <1>5, <3>1 DEF Fix!run_specs
  <2> QED
    BY <2>1, <2>2
<1>6. CASE Fix!passed_at_head
  <2>1. pc = "judge head" /\ UNCHANGED <<began, tree, undo, caught>>
    BY <1>6 DEF Fix!passed_at_head, Fix!world
  <2>2. pc' \in {"swap", "close", "done"}
    BY <1>6 DEF Fix!passed_at_head, Fix!Leave
  <2> QED
    BY <2>1, <2>2
<1>7. CASE \E p \in Swapped : Fix!Swap(p)
  BY <1>7 DEF Fix!Swap, Fix!world
<1>8. CASE Fix!Swapped_
  BY <1>8 DEF Fix!Swapped_, Fix!world
<1>9. CASE Fix!run_unit("unit before", "before", "specs before")
  <2>1. pc = "unit before" /\ UNCHANGED <<began, tree, undo>> /\ (caught => caught')
    BY <1>9 DEF Fix!run_unit, Fix!world
  <2>2. pc' \in {"specs before", "put back"}
    <3>1. CASE Fix!Raise
      BY <2>1, <3>1, Raised
    <3> QED
      BY <1>9, <3>1 DEF Fix!run_unit
  <2> QED
    BY <2>1, <2>2
<1>10. CASE Fix!run_specs("specs before", "before", "put back")
  <2>1. pc = "specs before" /\ UNCHANGED <<began, tree, undo, caught>>
    BY <1>10 DEF Fix!run_specs, Fix!world
  <2>2. pc' = "put back"
    <3>1. CASE Fix!Raise
      BY <2>1, <3>1, Raised
    <3> QED
      BY <1>10, <3>1 DEF Fix!run_specs
  <2> QED
    BY <2>1, <2>2
<1>11. CASE Fix!code_before_the_fix
  <2>1. pc = "put back" /\ tree' = Home /\ UNCHANGED <<began, undo, caught>> /\ pc' \in {"close", "done"}
    BY <1>11 DEF Fix!code_before_the_fix, Fix!world, Fix!Leave, Home
  <2> QED
    BY <2>1
<1>12. CASE \E c \in Containers : Fix!Enter(c) \/ Fix!Leaves(c)
  <2>1. UNCHANGED <<pc, began, tree, undo, caught>>
    BY <1>12 DEF Fix!Enter, Fix!Leaves, Fix!world
  <2> QED
    BY <2>1
<1>13. CASE Fix!Entered
  BY <1>13 DEF Fix!Entered, Fix!world
<1>14. CASE Fix!close
  BY <1>14 DEF Fix!close, Fix!world
<1>15. CASE Fix!Stopped
  <2>1. pc \notin {"done", "killed", "check"} /\ UNCHANGED <<began, tree, caught>>
    BY <1>15 DEF Fix!Stopped, Fix!world
  <2>2. CASE pc \in {"put back", "close"}
    <3>1. undo' /\ pc' \in {"close", "done"}
      BY <1>15, <2>1, <2>2 DEF Fix!Stopped
    <3> QED
      BY <2>1, <2>2, <3>1
  <2>3. CASE pc \notin {"put back", "close"}
    <3>1. Fix!Raise /\ undo' = undo
      BY <1>15, <2>3 DEF Fix!Stopped
    <3> QED
      BY <2>1, <2>3, <3>1, Raised
  <2> QED
    BY <2>2, <2>3
<1>16. CASE Fix!Killed
  BY <1>16 DEF Fix!Killed, Fix!world
<1>17. CASE UNCHANGED Fix!regressionVars
  BY <1>17 DEF Fix!regressionVars
<1> QED
  BY <1>1, <1>2, <1>3, <1>4, <1>5, <1>6, <1>7, <1>8, <1>9, <1>10, <1>11, <1>12, <1>13, <1>14, <1>15, <1>16, <1>17, Zenon
  DEF Fix!Next

LEMMA StackKept ==
    ASSUME RegInv, [Fix!Next]_Fix!regressionVars
    PROVE  StackKnown'
<1> USE DEF RegInv, StackKnown, AtHead, OwnNets
<1>0. Fix!Spec_' = Fix!Spec_ \/ facts' # facts
  BY DEF Fix!Spec_, Fix!runner, Fix!framework
<1>1. CASE Fix!compare
  <2>1. pc = "check" /\ UNCHANGED <<facts, seal, nets, stale, undo, caught>>
    BY <1>1 DEF Fix!compare, Fix!world
  <2>2. \/ pc' = "open"
        \/ pc' = "unit at head" /\ Fix!Spec_ = {}
        \/ pc' = IF seal.network THEN "close" ELSE "done"
    BY <1>1, SpecMaybe DEF Fix!compare, Fix!Leave
  <2> QED
    BY <1>0, <2>1, <2>2
<1>2. CASE Fix!open
  <2>1. pc = "open" /\ UNCHANGED <<facts, nets, stale, undo, caught>>
    BY <1>2 DEF Fix!open, Fix!world
  <2>2. CASE pc' = "list" /\ seal' = [seal EXCEPT !.network = TRUE]
    <3>1. seal' \in [network : BOOLEAN, entered : BOOLEAN, relay : BOOLEAN] /\ seal'.network
      BY <2>2
    <3> QED
      BY <2>1, <2>2, <3>1
  <2>3. CASE Fix!Raise /\ UNCHANGED seal
    BY <1>0, <2>1, <2>3, Raised
  <2> QED
    BY <1>2, <2>2, <2>3 DEF Fix!open
<1>3. CASE Fix!listed
  BY <1>0, <1>3 DEF Fix!listed, Fix!world
<1>4. CASE Fix!run_unit("unit at head", "at", "specs at head")
  <2>1. pc = "unit at head" /\ UNCHANGED <<facts, seal, nets, stale, undo>> /\ (caught => caught')
    BY <1>4 DEF Fix!run_unit, Fix!world
  <2>2. pc' = "specs at head" \/ pc' = IF seal.network THEN "close" ELSE "done"
    <3>1. CASE Fix!Raise
      BY <2>1, <3>1, Raised
    <3> QED
      BY <1>4, <3>1 DEF Fix!run_unit
  <2> QED
    BY <1>0, <2>1, <2>2
<1>5. CASE Fix!run_specs("specs at head", "at", "judge head")
  <2>1. pc = "specs at head" /\ UNCHANGED <<facts, seal, nets, stale, undo, caught>>
    BY <1>5 DEF Fix!run_specs, Fix!world
  <2>2. pc' = "judge head" \/ pc' = IF seal.network THEN "close" ELSE "done"
    <3>1. CASE Fix!Raise
      BY <2>1, <3>1, Raised
    <3> QED
      BY <1>5, <3>1 DEF Fix!run_specs
  <2> QED
    BY <1>0, <2>1, <2>2
<1>6. CASE Fix!passed_at_head
  <2>1. pc = "judge head" /\ UNCHANGED <<facts, seal, nets, stale, undo, caught>>
    BY <1>6 DEF Fix!passed_at_head, Fix!world
  <2>2. pc' = "swap" \/ pc' = IF seal.network THEN "close" ELSE "done"
    BY <1>6 DEF Fix!passed_at_head, Fix!Leave
  <2> QED
    BY <1>0, <2>1, <2>2
<1>7. CASE \E p \in Swapped : Fix!Swap(p)
  BY <1>0, <1>7 DEF Fix!Swap, Fix!world
<1>8. CASE Fix!Swapped_
  BY <1>0, <1>8 DEF Fix!Swapped_, Fix!world
<1>9. CASE Fix!run_unit("unit before", "before", "specs before")
  <2>1. pc = "unit before" /\ UNCHANGED <<facts, seal, nets, stale, undo>> /\ (caught => caught')
    BY <1>9 DEF Fix!run_unit, Fix!world
  <2>2. pc' \in {"specs before", "put back"}
    <3>1. CASE Fix!Raise
      BY <2>1, <3>1, Raised
    <3> QED
      BY <1>9, <3>1 DEF Fix!run_unit
  <2> QED
    BY <1>0, <2>1, <2>2
<1>10. CASE Fix!run_specs("specs before", "before", "put back")
  <2>1. pc = "specs before" /\ UNCHANGED <<facts, seal, nets, stale, undo, caught>>
    BY <1>10 DEF Fix!run_specs, Fix!world
  <2>2. pc' = "put back"
    <3>1. CASE Fix!Raise
      BY <2>1, <3>1, Raised
    <3> QED
      BY <1>10, <3>1 DEF Fix!run_specs
  <2> QED
    BY <1>0, <2>1, <2>2
<1>11. CASE Fix!code_before_the_fix
  <2>1. UNCHANGED <<facts, seal, nets, stale, undo, caught>> /\ pc' = IF seal.network THEN "close" ELSE "done"
    BY <1>11 DEF Fix!code_before_the_fix, Fix!world, Fix!Leave
  <2> QED
    BY <1>0, <2>1
<1>12. CASE \E c \in Containers : Fix!Enter(c)
  <2>1. pc = "specs at head" /\ Fix!Spec_ # {} /\ UNCHANGED <<pc, facts, seal, undo, caught>>
    BY <1>12 DEF Fix!Enter, Fix!world
  <2> QED
    BY <1>0, <2>1
<1>13. CASE \E c \in Containers : Fix!Leaves(c)
  <2>1. PICK c \in Containers : Fix!Leaves(c)
    BY <1>13
  <2>2. /\ pc = "close" /\ UNCHANGED <<pc, facts, undo, caught>>
        /\ seal' = [seal EXCEPT !.relay = FALSE] /\ nets[c] # {"own"}
    BY <2>1 DEF Fix!Leaves, Fix!world
  <2>3. seal' \in [network : BOOLEAN, entered : BOOLEAN, relay : BOOLEAN] /\ seal'.network = seal.network
    BY <2>2
  <2>4. ~OwnNets
    BY <2>2 DEF OwnNets
  <2> QED
    BY <1>0, <2>2, <2>3, <2>4
<1>14. CASE Fix!Entered
  <2>1. /\ pc = "specs at head" /\ Fix!Spec_ # {} /\ UNCHANGED <<pc, facts, nets, undo, caught>>
        /\ seal' = [seal EXCEPT !.entered = TRUE, !.relay = TRUE]
    BY <1>14 DEF Fix!Entered, Fix!world
  <2>2. seal' \in [network : BOOLEAN, entered : BOOLEAN, relay : BOOLEAN] /\ seal'.network = seal.network
    BY <2>1
  <2> QED
    BY <1>0, <2>1, <2>2
<1>15. CASE Fix!close
  <2>1. /\ pc = "close" /\ pc' = "done" /\ UNCHANGED <<facts, nets, undo, caught>> /\ stale' = {}
        /\ seal' = [network |-> FALSE, entered |-> FALSE, relay |-> FALSE] /\ \A c \in Containers : nets[c] = {"own"}
    BY <1>15 DEF Fix!close, Fix!world
  <2>2. OwnNets
    BY <2>1 DEF OwnNets
  <2>3. seal' \in [network : BOOLEAN, entered : BOOLEAN, relay : BOOLEAN] /\ ~seal'.network /\ Fix!Idle(seal')
    BY <2>1 DEF Fix!Idle
  <2> QED
    BY <2>1, <2>2, <2>3
<1>16. CASE Fix!Stopped
  <2>1. pc \notin {"done", "killed", "check"} /\ UNCHANGED <<facts, seal, nets, stale, caught>>
    BY <1>16 DEF Fix!Stopped, Fix!world
  <2>2. CASE pc \in {"put back", "close"}
    <3>1. undo' /\ pc' \in {"close", "done"}
      BY <1>16, <2>1, <2>2 DEF Fix!Stopped
    <3> QED
      BY <1>0, <2>1, <2>2, <3>1
  <2>3. CASE pc \notin {"put back", "close"}
    <3>1. Fix!Raise
      BY <1>16, <2>3 DEF Fix!Stopped
    <3> QED
      BY <1>0, <2>1, <2>3, <3>1, Raised
  <2> QED
    BY <2>2, <2>3
<1>17. CASE Fix!Killed
  BY <1>17 DEF Fix!Killed, Fix!world
<1>18. CASE UNCHANGED Fix!regressionVars
  BY <1>0, <1>18 DEF Fix!regressionVars
<1> QED
  BY <1>1, <1>2, <1>3, <1>4, <1>5, <1>6, <1>7, <1>8, <1>9, <1>10, <1>11, <1>12, <1>13, <1>14, <1>15, <1>16, <1>17, <1>18, Zenon
  DEF Fix!Next

\* Whatever stopped the run, the tree and the stack are as it found them (regression_test_fails_on_base.py,
\* _regression_sealed.py): for any files and containers, any failures of git and docker and signals at any step.
THEOREM FoundAgain == Fix!Spec => []LeavesAsFound
<1>1. RegInv => LeavesAsFound
  BY DEF RegInv, TreeKnown, StackKnown, LeavesAsFound, Fix!LeavesAsFound, OwnNets, Moved
<1>2. RegInv /\ [Fix!Next]_Fix!regressionVars => RegInv'
  BY TreeKept, StackKept DEF RegInv
<1> QED
  BY <1>1, <1>2, RegStarts, PTL DEF Fix!Spec

\* What the runs recorded: each file as it ends on the tree it ran on, and before the fix only files that passed at
\* the head, none of which ended on a refused connection.
RanKnown ==
  /\ facts \in [Files -> Facts]
  /\ ran = [at |-> ran.at, before |-> ran.before]
  /\ \A f \in DOMAIN ran.at : ran.at[f] = facts[f].head
  /\ \A f \in DOMAIN ran.before :
       /\ facts[f].head = "passes"
       /\ ran.before[f] \in {"passes", facts[f].before}
       /\ ran.before[f] # "refused"
  /\ pc \in {"specs at head", "judge head", "swap", "unit before", "specs before"} => Fix!Unit \subseteq DOMAIN ran.at
  /\ pc \in {"judge head", "swap", "unit before", "specs before"} => Fix!Spec_ \subseteq DOMAIN ran.at

\* A record of a run: what is new in it ended so on this tree.
LEMMA Recorded ==
    ASSUME RanKnown, NEW when \in {"at", "before"}, NEW files, ran' = Fix!Record(when, files)
    PROVE  /\ ran' = [at |-> ran'.at, before |-> ran'.before]
           /\ when = "at" => /\ ran'.before = ran.before
                             /\ ran'.at = [f \in DOMAIN ran.at \cup files |-> IF f \in files THEN Fix!Ends(f) ELSE ran.at[f]]
           /\ when = "before" =>
                /\ ran'.at = ran.at
                /\ ran'.before = [f \in DOMAIN ran.before \cup files |-> IF f \in files THEN Fix!Ends(f) ELSE ran.before[f]]
<1>1. CASE when = "at"
  <2> DEFINE new == [f \in DOMAIN ran.at \cup files |-> IF f \in files THEN Fix!Ends(f) ELSE ran.at[f]]
  <2>1. ran' = [ran EXCEPT !.at = new]
    BY <1>1 DEF Fix!Record
  <2> HIDE DEF new
  <2>2. ran' = [at |-> new, before |-> ran.before]
    BY <2>1 DEF RanKnown
  <2> QED
    BY <1>1, <2>2 DEF new
<1>2. CASE when = "before"
  <2> DEFINE new == [f \in DOMAIN ran.before \cup files |-> IF f \in files THEN Fix!Ends(f) ELSE ran.before[f]]
  <2>1. ran' = [ran EXCEPT !.before = new]
    BY <1>2 DEF Fix!Record
  <2> HIDE DEF new
  <2>2. ran' = [at |-> ran.at, before |-> new]
    BY <2>1 DEF RanKnown
  <2> QED
    BY <1>2, <2>2 DEF new
<1> QED
  BY <1>1, <1>2

\* On the head's tree a file ends as it does there.
LEMMA EndsAtHead ==
    ASSUME RegInv, pc \in AtHead, NEW f
    PROVE  Fix!Ends(f) = facts[f].head
<1>1. tree = Home
  BY DEF RegInv, TreeKnown, AtHead, Moved
<1> QED
  BY <1>1 DEF Fix!Ends, Home

LEMMA EndsBefore ==
    ASSUME NEW f
    PROVE  Fix!Ends(f) \in {facts[f].head, facts[f].before}
  BY DEF Fix!Ends

LEMMA Unrefused ==
    ASSUME NEW files, ~Fix!judge(files), NEW f \in files
    PROVE  Fix!Ends(f) # "refused"
  BY DEF Fix!judge, Fix!Fails

\* The runs before the fix record files that passed, none of which ended on a refused connection.
LEMMA BeforeKept ==
    ASSUME RanKnown, NEW files, UNCHANGED facts, pc \in {"unit before", "specs before"}, pc' \in {"specs before", "put back"},
           ran' = Fix!Record("before", files),
           files \subseteq DOMAIN ran.at, \A f \in files : ran.at[f] = "passes" /\ Fix!Ends(f) # "refused"
    PROVE  RanKnown'
<1>1. Fix!Unit' = Fix!Unit /\ Fix!Spec_' = Fix!Spec_
  BY DEF Fix!Unit, Fix!Spec_, Fix!runner, Fix!framework
<1>2. /\ ran' = [at |-> ran'.at, before |-> ran'.before] /\ ran'.at = ran.at
      /\ ran'.before = [f \in DOMAIN ran.before \cup files |-> IF f \in files THEN Fix!Ends(f) ELSE ran.before[f]]
  BY Recorded
<1>3. \A f \in files : facts[f].head = "passes" /\ Fix!Ends(f) \in {"passes", facts[f].before}
  BY EndsBefore DEF RanKnown
<1>4. ASSUME NEW f \in DOMAIN ran'.before
      PROVE  /\ facts'[f].head = "passes"
             /\ ran'.before[f] \in {"passes", facts'[f].before}
             /\ ran'.before[f] # "refused"
  <2>1. CASE f \in files
    BY <1>2, <1>3, <2>1
  <2>2. CASE f \notin files
    BY <1>2, <2>2 DEF RanKnown
  <2> QED
    BY <2>1, <2>2
<1>5. \A f \in DOMAIN ran'.at : ran'.at[f] = facts'[f].head
  BY <1>2 DEF RanKnown
<1>6. facts' \in [Files -> Facts]
  BY DEF RanKnown
<1>7. Fix!Unit' \subseteq DOMAIN ran'.at /\ Fix!Spec_' \subseteq DOMAIN ran'.at
  BY <1>1, <1>2 DEF RanKnown
<1> QED
  BY <1>2, <1>4, <1>5, <1>6, <1>7 DEF RanKnown

LEMMA RanKept ==
    ASSUME RegInv, RanKnown, [Fix!Next]_Fix!regressionVars
    PROVE  RanKnown'
<1>1. ASSUME UNCHANGED <<facts, ran>>,
             \/ pc' \notin {"specs at head", "judge head", "swap", "unit before", "specs before"}
             \/ pc' = pc
             \/ pc \in {"judge head", "swap"} /\ pc' \in {"swap", "unit before"}
             \/ pc = "unit at head" /\ pc' = "specs at head" /\ Fix!Unit = {}
             \/ pc = "specs at head" /\ pc' = "judge head" /\ Fix!Spec_ = {}
             \/ pc = "unit before" /\ pc' = "specs before"
      PROVE  RanKnown'
  <2>1. Fix!Unit' = Fix!Unit /\ Fix!Spec_' = Fix!Spec_
    BY <1>1 DEF Fix!Unit, Fix!Spec_, Fix!runner, Fix!framework
  <2> QED
    BY <1>1, <2>1 DEF RanKnown
<1>2. ASSUME UNCHANGED facts, pc = "unit at head", pc' = "specs at head", ran' = Fix!Record("at", Fix!Unit)
      PROVE  RanKnown'
  <2>1. Fix!Unit' = Fix!Unit /\ Fix!Spec_' = Fix!Spec_
    BY <1>2 DEF Fix!Unit, Fix!Spec_, Fix!runner, Fix!framework
  <2>2. /\ ran' = [at |-> ran'.at, before |-> ran'.before] /\ ran'.before = ran.before
        /\ ran'.at = [f \in DOMAIN ran.at \cup Fix!Unit |-> IF f \in Fix!Unit THEN Fix!Ends(f) ELSE ran.at[f]]
    BY <1>2, Recorded
  <2>3. \A f : Fix!Ends(f) = facts[f].head
    BY <1>2, EndsAtHead DEF AtHead
  <2> QED
    BY <1>2, <2>1, <2>2, <2>3 DEF RanKnown
<1>3. ASSUME UNCHANGED facts, pc = "specs at head", pc' = "judge head", ran' = Fix!Record("at", Fix!Spec_)
      PROVE  RanKnown'
  <2>1. Fix!Unit' = Fix!Unit /\ Fix!Spec_' = Fix!Spec_
    BY <1>3 DEF Fix!Unit, Fix!Spec_, Fix!runner, Fix!framework
  <2>2. /\ ran' = [at |-> ran'.at, before |-> ran'.before] /\ ran'.before = ran.before
        /\ ran'.at = [f \in DOMAIN ran.at \cup Fix!Spec_ |-> IF f \in Fix!Spec_ THEN Fix!Ends(f) ELSE ran.at[f]]
    BY <1>3, Recorded
  <2>3. \A f : Fix!Ends(f) = facts[f].head
    BY <1>3, EndsAtHead DEF AtHead
  <2> QED
    BY <1>3, <2>1, <2>2, <2>3 DEF RanKnown
<1>5. CASE Fix!compare \/ Fix!open
  <2>1. UNCHANGED <<facts, ran>>
    BY <1>5 DEF Fix!compare, Fix!open, Fix!world
  <2>2. pc' \in {"open", "unit at head", "list", "close", "done"}
    <3>1. CASE Fix!open /\ Fix!Raise
      BY <3>1, Raised DEF Fix!open
    <3>2. CASE Fix!open /\ ~Fix!Raise
      BY <3>2 DEF Fix!open
    <3>3. CASE Fix!compare
      BY <3>3 DEF Fix!compare, Fix!Leave
    <3> QED
      BY <1>5, <3>1, <3>2, <3>3
  <2> QED
    BY <1>1, <2>1, <2>2
<1>6. CASE Fix!listed
  BY <1>1, <1>6 DEF Fix!listed, Fix!world
<1>7. CASE Fix!run_unit("unit at head", "at", "specs at head")
  <2>1. pc = "unit at head" /\ UNCHANGED facts /\ Fix!Runs("at", Fix!Unit) = Fix!Unit
    BY <1>7 DEF Fix!run_unit, Fix!world, Fix!Runs
  <2>2. CASE Fix!Raise /\ UNCHANGED ran
    BY <1>1, <2>1, <2>2, Raised
  <2>3. CASE ~Fix!Raise
    BY <1>1, <1>2, <1>7, <2>1, <2>3 DEF Fix!run_unit
  <2> QED
    <3>1. Fix!Raise => UNCHANGED ran
      BY <1>7, <2>1 DEF Fix!run_unit, Fix!Raise, Fix!Leave, Fix!listed_specs
    <3> QED
      BY <2>2, <2>3, <3>1
<1>8. CASE Fix!run_specs("specs at head", "at", "judge head")
  <2>1. pc = "specs at head" /\ UNCHANGED facts /\ Fix!Runs("at", Fix!Spec_) = Fix!Spec_
    BY <1>8 DEF Fix!run_specs, Fix!world, Fix!Runs
  <2>2. CASE Fix!Raise /\ UNCHANGED ran
    BY <1>1, <2>1, <2>2, Raised
  <2>3. CASE ~Fix!Raise
    BY <1>1, <1>3, <1>8, <2>1, <2>3 DEF Fix!run_specs
  <2> QED
    <3>1. Fix!Raise => UNCHANGED ran
      BY <1>8, <2>1 DEF Fix!run_specs, Fix!Raise, Fix!Leave, Fix!listed_specs
    <3> QED
      BY <2>2, <2>3, <3>1
<1>9. CASE Fix!passed_at_head
  <2>1. UNCHANGED <<facts, ran>> /\ pc = "judge head" /\ pc' \in {"swap", "close", "done"}
    BY <1>9 DEF Fix!passed_at_head, Fix!world, Fix!Leave
  <2> QED
    BY <1>1, <2>1
<1>10. CASE (\E p \in Swapped : Fix!Swap(p)) \/ Fix!Swapped_
  <2>1. UNCHANGED <<facts, ran>> /\ pc = "swap" /\ pc' \in {"swap", "unit before"}
    BY <1>10 DEF Fix!Swap, Fix!Swapped_, Fix!world
  <2> QED
    BY <1>1, <2>1
<1>11. CASE Fix!run_unit("unit before", "before", "specs before")
  <2> DEFINE files == Fix!Runs("before", Fix!Unit)
  <2>1. pc = "unit before" /\ UNCHANGED facts /\ files \subseteq DOMAIN ran.at /\ \A f \in files : ran.at[f] = "passes"
    BY <1>11 DEF Fix!run_unit, Fix!world, Fix!Runs, RanKnown
  <2>2. CASE Fix!Raise /\ UNCHANGED ran
    BY <1>1, <2>1, <2>2, Raised
  <2>3. CASE pc' = "specs before" /\ UNCHANGED ran
    BY <1>1, <2>1, <2>3
  <2>4. CASE ~Fix!judge(files) /\ pc' = "specs before" /\ ran' = Fix!Record("before", files)
    <3>1. \A f \in files : Fix!Ends(f) # "refused"
      BY <2>4, Unrefused
    <3>2. \A f \in files : ran.at[f] = "passes" /\ Fix!Ends(f) # "refused"
      BY <2>1, <3>1
    <3>3. /\ UNCHANGED facts /\ pc \in {"unit before", "specs before"} /\ pc' \in {"specs before", "put back"}
          /\ ran' = Fix!Record("before", files) /\ files \subseteq DOMAIN ran.at
      BY <2>1, <2>4
    <3> HIDE DEF files
    <3> QED
      BY <3>2, <3>3, BeforeKept
  <2> QED
    BY <1>11, <2>2, <2>3, <2>4 DEF Fix!run_unit
<1>12. CASE Fix!run_specs("specs before", "before", "put back")
  <2> DEFINE files == Fix!Runs("before", Fix!Spec_)
  <2>1. pc = "specs before" /\ UNCHANGED facts /\ files \subseteq DOMAIN ran.at /\ \A f \in files : ran.at[f] = "passes"
    BY <1>12 DEF Fix!run_specs, Fix!world, Fix!Runs, RanKnown
  <2>2. CASE Fix!Raise /\ UNCHANGED ran
    BY <1>1, <2>1, <2>2, Raised
  <2>3. CASE pc' = "put back" /\ UNCHANGED ran
    BY <1>1, <2>1, <2>3
  <2>4. CASE /\ ~Fix!judge({f \in files : Fix!Ends(f) # "load"}) /\ pc' = "put back"
             /\ ran' = Fix!Record("before", files)
    <3>1. \A f \in files : Fix!Ends(f) # "refused"
      <4>1. \A f \in {g \in files : Fix!Ends(g) # "load"} : Fix!Ends(f) # "refused"
        BY <2>4, Unrefused
      <4> QED
        BY <4>1
    <3>2. \A f \in files : ran.at[f] = "passes" /\ Fix!Ends(f) # "refused"
      BY <2>1, <3>1
    <3>3. /\ UNCHANGED facts /\ pc \in {"unit before", "specs before"} /\ pc' \in {"specs before", "put back"}
          /\ ran' = Fix!Record("before", files) /\ files \subseteq DOMAIN ran.at
      BY <2>1, <2>4
    <3> HIDE DEF files
    <3> QED
      BY <3>2, <3>3, BeforeKept
  <2> QED
    BY <1>12, <2>2, <2>3, <2>4 DEF Fix!run_specs
<1>13. CASE Fix!code_before_the_fix
  <2>1. UNCHANGED <<facts, ran>> /\ pc' \in {"close", "done"}
    BY <1>13 DEF Fix!code_before_the_fix, Fix!world, Fix!Leave
  <2> QED
    BY <1>1, <2>1
<1>14. CASE (\E c \in Containers : Fix!Enter(c) \/ Fix!Leaves(c)) \/ Fix!Entered
  <2>1. UNCHANGED <<facts, ran, pc>>
    BY <1>14 DEF Fix!Enter, Fix!Leaves, Fix!Entered, Fix!world
  <2> QED
    BY <1>1, <2>1
<1>15. CASE Fix!close \/ Fix!Killed
  <2>1. UNCHANGED <<facts, ran>> /\ pc' \in {"done", "killed"}
    BY <1>15 DEF Fix!close, Fix!Killed, Fix!world
  <2> QED
    BY <1>1, <2>1
<1>16. CASE Fix!Stopped
  <2>1. UNCHANGED <<facts, ran>>
    BY <1>16 DEF Fix!Stopped, Fix!world
  <2>2. CASE pc \in {"put back", "close"}
    <3>1. pc' \in {"close", "done"}
      BY <1>16, <2>2 DEF Fix!Stopped
    <3> QED
      BY <1>1, <2>1, <3>1
  <2>3. CASE pc \notin {"put back", "close"}
    <3>1. Fix!Raise
      BY <1>16, <2>3 DEF Fix!Stopped
    <3> QED
      BY <1>1, <2>1, <3>1, Raised
  <2> QED
    BY <2>2, <2>3
<1>17. CASE UNCHANGED Fix!regressionVars
  BY <1>1, <1>17 DEF Fix!regressionVars
<1> QED
  BY <1>5, <1>6, <1>7, <1>8, <1>9, <1>10, <1>11, <1>12, <1>13, <1>14, <1>15, <1>16, <1>17 DEF Fix!Next

\* A fix that passes has a test that held at the head and failed on the code before the fix, for no name the gate
\* knows to be missing and no connection the run knows it refused (regression_test_fails_on_base.py before_the_fix,
\* _local_guard.py judge): for any files, however their tests end on either tree.
THEOREM ShownStands == Fix!Spec => []ShownIsReal
<1>1. Fix!Init => RanKnown
  BY DEF Fix!Init, RanKnown
<1>2. RanKnown => ShownIsReal
  <2> SUFFICES ASSUME RanKnown, NEW f \in Fix!Judged, Fix!before_the_fix(f)
               PROVE  facts[f].head = "passes" /\ facts[f].before \in {"bug", "top", "fails", "unseen"}
    BY DEF ShownIsReal, Fix!ShownIsReal, Fix!Passes
  <2>1. f \in DOMAIN ran.before /\ ran.before[f] \in {"bug", "top", "refused", "unseen", "fails"}
    BY DEF Fix!before_the_fix
  <2> QED
    BY <2>1 DEF RanKnown
<1>3. RegInv /\ RanKnown /\ [Fix!Next]_Fix!regressionVars => (RegInv /\ RanKnown)'
  BY TreeKept, StackKept, RanKept DEF RegInv
<1> QED
  BY <1>1, <1>2, <1>3, RegStarts, PTL DEF Fix!Spec

----------------------------------------------------------------------------
(* The suites' scope *)

\* What a run past its look at the pull request can be at, short of running the suite.
Past == {"list", "files", "judge", "post", "failed"}
Shaped(r) == r = [at |-> r.at, count |-> r.count, patterns |-> r.patterns, files |-> r.files, left |-> r.left, tries |-> r.tries]

Blind(patterns) == \A path \in Reads : ~Scope!is_inert(path, patterns)
Unread(changes) == \A file \in Scope!ToSet(changes) : file.name \notin Reads /\ file.from \notin Reads

ScopeTyped ==
  /\ pr.diff \in Diffs /\ pr.head \in Commits
  /\ pr = [diff |-> pr.diff, head |-> pr.head, stacked |-> pr.stacked, retargeted |-> pr.retargeted]
  /\ Scope!check(list)
  /\ DOMAIN runs = Commits /\ \A c \in Commits : Shaped(runs[c])
  /\ DOMAIN posted = Commits

\* Nobody looks at a head not pushed yet; what is posted was decided; a run that found the pull request on the
\* default branch sees it elsewhere only once it was retargeted.
InOrder ==
  /\ \A c \in Commits : c > pr.head => runs[c].at = "none"
  /\ \A c \in Commits : runs[c].at = "pull" => runs[c].files = <<>>
  /\ \A c \in Commits : posted[c] # {} => runs[c].at \in {"post", "failed"}
  /\ \A c \in Commits : runs[c].at \in Past /\ pr.stacked => pr.retargeted

\* What a run knows of the files its head changes.
Knows(r, changes) ==
  /\ r.count = Len(changes)
  /\ r.files \in Seq(Scope!ToSet(changes))
  /\ r.at \in {"files", "judge", "post", "failed"} => Blind(r.patterns)
  /\ r.at \in {"post", "failed"} => Unread(changes)

\* While the pull request goes to the default branch it went there when the head's run looked: a second
\* retargeting, which would hide a first, never comes.
HeadKnown ==
  runs[pr.head].at \in Past /\ ~pr.stacked => Knows(runs[pr.head], pr.diff.changes[pr.head])

ScopeInv == ScopeTyped /\ InOrder /\ HeadKnown

LEMMA ScopeStarts == Scope!Init => ScopeInv
<1> SUFFICES ASSUME Scope!Init PROVE ScopeInv
  OBVIOUS
<1>1. 1 \in Commits
  BY ScopeAssumption DEF Scope!Lawful
<1>2. PICK diff \in Diffs, stacked \in BOOLEAN :
        pr = [diff |-> diff, head |-> 1, stacked |-> stacked, retargeted |-> FALSE]
  BY DEF Scope!Init
<1>3. \A c \in Commits : runs[c] = IF c = 1 THEN Scope!Waiting ELSE [Scope!Waiting EXCEPT !.at = "none"]
  BY DEF Scope!Init
<1>4. \A c \in Commits : Shaped(runs[c]) /\ runs[c].files = <<>> /\ runs[c].at = IF c = 1 THEN "pull" ELSE "none"
  BY <1>3 DEF Shaped, Scope!Waiting
<1>5. ScopeTyped
  BY <1>1, <1>2, <1>4 DEF ScopeTyped, Scope!Init
<1>6. InOrder
  BY <1>1, <1>2, <1>4 DEF InOrder, Past, Scope!Init
<1>7. HeadKnown
  BY <1>1, <1>2, <1>4 DEF HeadKnown, Past
<1> QED
  BY <1>5, <1>6, <1>7 DEF ScopeInv

\* The instance counts as this module does.
LEMMA ScopeCardinality == \A S : Scope!Cardinality(S) = Cardinality(S)
  BY DEF Scope!Cardinality, Cardinality

\* A list as long as what it lists, of as many names, is the whole of it.
LEMMA WholeList ==
    ASSUME NEW changes, changes \in Seq(Scope!ToSet(changes)), NEW files \in Seq(Scope!ToSet(changes)),
           Len(files) = Len(changes),
           Cardinality({f.name : f \in Scope!ToSet(files)}) = Len(changes)
    PROVE  Scope!ToSet(files) = Scope!ToSet(changes)
<1> DEFINE all == Scope!ToSet(changes)
           got == Scope!ToSet(files)
           names == {f.name : f \in got}
           n == Len(changes)
<1>1. n \in Nat /\ DOMAIN changes = 1..n /\ DOMAIN files = 1..n
  OBVIOUS
<1>2. changes \in Surjection(1..n, all)
  BY <1>1 DEF Surjection, Scope!ToSet
<1>3. Cardinality(all) <= n
  BY <1>1, <1>2, FS_SurjCardinalityBound DEF ExistsSurjection
<1>4. IsFiniteSet(all)
  BY <1>1, <1>2, FS_NatSurjection DEF ExistsSurjection
<1>5. got \in SUBSET all
  BY <1>1 DEF Scope!ToSet
<1>6. IsFiniteSet(got)
  BY <1>4, <1>5, FS_Subset
<1>7. [f \in got |-> f.name] \in Surjection(got, names)
  BY DEF Surjection
<1> HIDE DEF all, got, names, n
<1>8. Cardinality(names) <= Cardinality(got)
  BY <1>6, <1>7, FS_Surjection
<1>9. Cardinality(names) = n
  BY DEF names, got, n
<1>10. Cardinality(got) \in Nat /\ Cardinality(all) \in Nat
  BY <1>4, <1>6, FS_CardinalityType
<1>11. Cardinality(got) <= Cardinality(all) /\ (Cardinality(got) = Cardinality(all) => got = all)
  BY <1>4, <1>5, FS_Subset
<1>12. got = all
  BY <1>1, <1>3, <1>8, <1>9, <1>10, <1>11
<1> QED
  BY <1>12 DEF got, all

\* A run's own step, where what it comes to know is true.
LEMMA RunSteps ==
    ASSUME ScopeInv, NEW sha \in Commits, NEW run, Scope!Step(sha, run), Shaped(run),
           runs[sha].at # "none", run.at # "pull",
           posted[sha] # {} => run.at \in {"post", "failed"},
           run.at \in Past /\ pr.stacked => pr.retargeted,
           sha = pr.head /\ run.at \in Past /\ ~pr.stacked => Knows(run, pr.diff.changes[sha])
    PROVE  ScopeInv'
<1>1. pr' = pr /\ list' = list /\ posted' = posted
  BY DEF Scope!Step
<1>2. DOMAIN runs' = Commits /\ \A c \in Commits : runs'[c] = IF c = sha THEN run ELSE runs[c]
  BY DEF Scope!Step, ScopeInv, ScopeTyped
<1>3. ScopeTyped'
  BY <1>1, <1>2 DEF ScopeInv, ScopeTyped
<1>4. InOrder'
  BY <1>1, <1>2 DEF ScopeInv, InOrder
<1>5. pr.head \in Commits
  BY DEF ScopeInv, ScopeTyped
<1>6. runs'[pr'.head].at \in Past /\ ~pr'.stacked => Knows(runs'[pr'.head], pr'.diff.changes[pr'.head])
  BY <1>1, <1>2, <1>5 DEF ScopeInv, HeadKnown
<1>7. HeadKnown'
  BY <1>6 DEF HeadKnown
<1> QED
  BY <1>3, <1>4, <1>7 DEF ScopeInv

\* What happens to the pull request while its runs look
LEMMA GitHubKeeps ==
    ASSUME ScopeInv, Scope!Push \/ Scope!Retarget \/ Scope!ListMerges
    PROVE  ScopeInv'
<1>1. CASE Scope!Push
  <2>1. /\ pr.head + 1 \in Commits /\ pr' = [pr EXCEPT !.head = @ + 1]
        /\ runs' = [runs EXCEPT ![pr.head + 1] = Scope!Waiting] /\ list' = list /\ posted' = posted
    BY <1>1 DEF Scope!Push
  <2>2. pr' = [diff |-> pr.diff, head |-> pr.head + 1, stacked |-> pr.stacked, retargeted |-> pr.retargeted]
    BY <2>1 DEF ScopeInv, ScopeTyped
  <2>3. DOMAIN runs' = Commits /\ \A c \in Commits : runs'[c] = IF c = pr.head + 1 THEN Scope!Waiting ELSE runs[c]
    BY <2>1 DEF ScopeInv, ScopeTyped
  <2>4. Shaped(Scope!Waiting) /\ Scope!Waiting.at = "pull" /\ Scope!Waiting.files = <<>>
    BY DEF Shaped, Scope!Waiting
  <2>5. ScopeTyped'
    BY <2>1, <2>2, <2>3, <2>4 DEF ScopeInv, ScopeTyped
  <2>6. pr.head \in Nat /\ \A c \in Commits : c \in Nat
    BY ScopeAssumption DEF Scope!Lawful, ScopeInv, ScopeTyped
  <2>7. InOrder'
    BY <2>1, <2>2, <2>3, <2>4, <2>6 DEF ScopeInv, InOrder, Past
  <2>8. runs'[pr'.head].at = "pull"
    BY <2>1, <2>2, <2>3, <2>4
  <2>9. HeadKnown'
    BY <2>8 DEF HeadKnown, Past
  <2> QED
    BY <2>5, <2>7, <2>9 DEF ScopeInv
<1>2. CASE Scope!Retarget
  <2>1. ~pr.retargeted /\ runs' = runs /\ list' = list /\ posted' = posted
    BY <1>2 DEF Scope!Retarget
  <2>2. pr' = [diff |-> pr.diff, head |-> pr.head, stacked |-> ~pr.stacked, retargeted |-> TRUE]
    BY <1>2 DEF Scope!Retarget, ScopeInv, ScopeTyped
  <2>3. ScopeTyped'
    BY <2>1, <2>2 DEF ScopeInv, ScopeTyped
  <2>4. InOrder'
    BY <2>1, <2>2 DEF ScopeInv, InOrder
  <2>5. ~pr'.stacked => runs'[pr'.head].at \notin Past
    BY <2>1, <2>2 DEF ScopeInv, ScopeTyped, InOrder
  <2>6. HeadKnown'
    BY <2>5 DEF HeadKnown
  <2> QED
    BY <2>3, <2>4, <2>6 DEF ScopeInv
<1>3. CASE Scope!ListMerges
  <2>1. pr' = pr /\ runs' = runs /\ posted' = posted /\ Scope!check(list')
    BY <1>3 DEF Scope!ListMerges
  <2>2. Scope!check(list)'
    BY <2>1 DEF Scope!check, Scope!is_inert, Scope!parse_list
  <2>3. ScopeTyped'
    BY <2>1, <2>2 DEF ScopeInv, ScopeTyped
  <2>4. InOrder' /\ HeadKnown'
    BY <2>1 DEF ScopeInv, InOrder, HeadKnown
  <2> QED
    BY <2>3, <2>4 DEF ScopeInv
<1> QED
  BY <1>1, <1>2, <1>3

\* What setting two fields of a record of a run leaves.
LEMMA AtAndCount ==
    ASSUME NEW r, Shaped(r), NEW u, NEW v
    PROVE  [r EXCEPT !.at = u, !.count = v] =
           [at |-> u, count |-> v, patterns |-> r.patterns, files |-> r.files, left |-> r.left, tries |-> r.tries]
<1>1. [r EXCEPT !.at = u] = [at |-> u, count |-> r.count, patterns |-> r.patterns, files |-> r.files, left |-> r.left, tries |-> r.tries]
  BY DEF Shaped
<1>2. [[at |-> u, count |-> r.count, patterns |-> r.patterns, files |-> r.files, left |-> r.left, tries |-> r.tries] EXCEPT !.count = v] =
       [at |-> u, count |-> v, patterns |-> r.patterns, files |-> r.files, left |-> r.left, tries |-> r.tries]
  OBVIOUS
<1>3. [r EXCEPT !.at = u, !.count = v] = [[r EXCEPT !.at = u] EXCEPT !.count = v]
  OBVIOUS
<1> QED
  BY <1>1, <1>2, <1>3

LEMMA AtAndPatterns ==
    ASSUME NEW r, Shaped(r), NEW u, NEW v
    PROVE  [r EXCEPT !.at = u, !.patterns = v] =
           [at |-> u, count |-> r.count, patterns |-> v, files |-> r.files, left |-> r.left, tries |-> r.tries]
<1>1. [r EXCEPT !.at = u] = [at |-> u, count |-> r.count, patterns |-> r.patterns, files |-> r.files, left |-> r.left, tries |-> r.tries]
  BY DEF Shaped
<1>2. [[at |-> u, count |-> r.count, patterns |-> r.patterns, files |-> r.files, left |-> r.left, tries |-> r.tries] EXCEPT !.patterns = v] =
       [at |-> u, count |-> r.count, patterns |-> v, files |-> r.files, left |-> r.left, tries |-> r.tries]
  OBVIOUS
<1>3. [r EXCEPT !.at = u, !.patterns = v] = [[r EXCEPT !.at = u] EXCEPT !.patterns = v]
  OBVIOUS
<1> QED
  BY <1>1, <1>2, <1>3

LEMMA FilesAndAt ==
    ASSUME NEW r, Shaped(r), NEW u, NEW v
    PROVE  [r EXCEPT !.files = u, !.at = v] =
           [at |-> v, count |-> r.count, patterns |-> r.patterns, files |-> u, left |-> r.left, tries |-> r.tries]
<1>1. [r EXCEPT !.files = u] = [at |-> r.at, count |-> r.count, patterns |-> r.patterns, files |-> u, left |-> r.left, tries |-> r.tries]
  BY DEF Shaped
<1>2. [[at |-> r.at, count |-> r.count, patterns |-> r.patterns, files |-> u, left |-> r.left, tries |-> r.tries] EXCEPT !.at = v] =
       [at |-> v, count |-> r.count, patterns |-> r.patterns, files |-> u, left |-> r.left, tries |-> r.tries]
  OBVIOUS
<1>3. [r EXCEPT !.files = u, !.at = v] = [[r EXCEPT !.files = u] EXCEPT !.at = v]
  OBVIOUS
<1> QED
  BY <1>1, <1>2, <1>3

LEMMA LeftAndTries ==
    ASSUME NEW r, Shaped(r), NEW u, NEW v
    PROVE  [r EXCEPT !.left = u, !.tries = v] =
           [at |-> r.at, count |-> r.count, patterns |-> r.patterns, files |-> r.files, left |-> u, tries |-> v]
<1>1. [r EXCEPT !.left = u] = [at |-> r.at, count |-> r.count, patterns |-> r.patterns, files |-> r.files, left |-> u, tries |-> r.tries]
  BY DEF Shaped
<1>2. [[at |-> r.at, count |-> r.count, patterns |-> r.patterns, files |-> r.files, left |-> u, tries |-> r.tries] EXCEPT !.tries = v] =
       [at |-> r.at, count |-> r.count, patterns |-> r.patterns, files |-> r.files, left |-> u, tries |-> v]
  OBVIOUS
<1>3. [r EXCEPT !.left = u, !.tries = v] = [[r EXCEPT !.left = u] EXCEPT !.tries = v]
  OBVIOUS
<1> QED
  BY <1>1, <1>2, <1>3

LEMMA TriesAndAt ==
    ASSUME NEW r, Shaped(r), NEW u, NEW v
    PROVE  [r EXCEPT !.tries = u, !.at = v] =
           [at |-> v, count |-> r.count, patterns |-> r.patterns, files |-> r.files, left |-> r.left, tries |-> u]
<1>1. [r EXCEPT !.tries = u] = [at |-> r.at, count |-> r.count, patterns |-> r.patterns, files |-> r.files, left |-> r.left, tries |-> u]
  BY DEF Shaped
<1>2. [[at |-> r.at, count |-> r.count, patterns |-> r.patterns, files |-> r.files, left |-> r.left, tries |-> u] EXCEPT !.at = v] =
       [at |-> v, count |-> r.count, patterns |-> r.patterns, files |-> r.files, left |-> r.left, tries |-> u]
  OBVIOUS
<1>3. [r EXCEPT !.tries = u, !.at = v] = [[r EXCEPT !.tries = u] EXCEPT !.at = v]
  OBVIOUS
<1> QED
  BY <1>1, <1>2, <1>3

\* A run is given up to the suite.
LEMMA GivenUp ==
    ASSUME ScopeInv, NEW sha \in Commits, Scope!RunSuite(sha), runs[sha].at \in {"pull", "list", "files", "judge"}
    PROVE  ScopeInv'
<1> DEFINE run == [runs[sha] EXCEPT !.at = "suite"]
<1>1. Shaped(runs[sha]) /\ posted[sha] = {}
  BY DEF ScopeInv, ScopeTyped, InOrder
<1>2. Shaped(run) /\ run.at = "suite"
  BY <1>1 DEF Shaped
<1>3. Scope!Step(sha, run)
  BY DEF Scope!RunSuite
<1> HIDE DEF run
<1> QED
  BY <1>1, <1>2, <1>3, RunSteps DEF Past

\* A run finds the pull request on the default branch, or gives up.
LEMMA LookKeeps ==
    ASSUME ScopeInv, NEW sha \in Commits, Scope!judge(sha)
    PROVE  ScopeInv'
<1>1. CASE Scope!RunSuite(sha)
  BY <1>1, GivenUp DEF Scope!judge
<1>2. CASE /\ pr.head = sha /\ ~pr.stacked
           /\ Scope!Step(sha, [runs[sha] EXCEPT !.at = "list", !.count = Len(Scope!FilesNow)])
  <2> DEFINE run == [runs[sha] EXCEPT !.at = "list", !.count = Len(Scope!FilesNow)]
  <2>1. Shaped(runs[sha]) /\ runs[sha].at = "pull" /\ runs[sha].files = <<>> /\ posted[sha] = {}
    BY DEF ScopeInv, ScopeTyped, InOrder, Scope!judge
  <2>2. run = [at |-> "list", count |-> Len(Scope!FilesNow), patterns |-> runs[sha].patterns, files |-> runs[sha].files, left |-> runs[sha].left, tries |-> runs[sha].tries]
    <3>1. Shaped(runs[sha])
      BY <2>1
    <3> QED
      BY <3>1, AtAndCount
  <2>3. Scope!Step(sha, run)
    BY <1>2
  <2> HIDE DEF run
  <2>5. Shaped(run) /\ run.at = "list" /\ run.count = Len(Scope!FilesNow) /\ run.files = <<>>
    BY <2>1, <2>2 DEF Shaped
  <2>4. Knows(run, pr.diff.changes[sha])
    BY <1>2, <2>5 DEF Knows, Scope!FilesNow
  <2> QED
    BY <1>2, <2>1, <2>3, <2>4, <2>5, RunSteps
<1> QED
  BY <1>1, <1>2 DEF Scope!judge

\* The list it reads passed the check: it names nothing the suite reads.
LEMMA ReadListKeeps ==
    ASSUME ScopeInv, NEW sha \in Commits, Scope!ReadList(sha)
    PROVE  ScopeInv'
<1>1. CASE Scope!RunSuite(sha)
  BY <1>1, GivenUp DEF Scope!ReadList
<1>2. CASE /\ Scope!base_list.inert # {}
           /\ Scope!Step(sha, [runs[sha] EXCEPT !.at = "files", !.patterns = Scope!base_list])
  <2> DEFINE run == [runs[sha] EXCEPT !.at = "files", !.patterns = Scope!base_list]
  <2>1. Shaped(runs[sha]) /\ runs[sha].at = "list" /\ posted[sha] = {}
    BY DEF ScopeInv, ScopeTyped, InOrder, Scope!ReadList
  <2>8. run = [at |-> "files", count |-> runs[sha].count, patterns |-> Scope!base_list, files |-> runs[sha].files, left |-> runs[sha].left, tries |-> runs[sha].tries]
    <3>1. Shaped(runs[sha])
      BY <2>1
    <3> QED
      BY <3>1, AtAndPatterns
  <2>3. Scope!Step(sha, run)
    BY <1>2
  <2> HIDE DEF run
  <2>2. /\ Shaped(run) /\ run.at = "files" /\ run.patterns = Scope!base_list
        /\ run.count = runs[sha].count /\ run.files = runs[sha].files
    BY <2>8 DEF Shaped
  <2>4. list.there
    BY <1>2 DEF Scope!base_list, Scope!parse_list
  <2>5. Blind(Scope!base_list)
    BY <2>4 DEF Blind, Scope!base_list, ScopeInv, ScopeTyped, Scope!check
  <2>6. sha = pr.head /\ ~pr.stacked => Knows(run, pr.diff.changes[sha])
    BY <2>1, <2>2, <2>5 DEF ScopeInv, HeadKnown, Knows, Past
  <2>7. pr.stacked => pr.retargeted
    BY <2>1 DEF ScopeInv, InOrder, Past
  <2> QED
    BY <2>1, <2>2, <2>3, <2>6, <2>7, RunSteps
<1> QED
  BY <1>1, <1>2 DEF Scope!ReadList

\* While the pull request goes to the default branch a page lists files the head changes.
LEMMA ReadPageKeeps ==
    ASSUME ScopeInv, NEW sha \in Commits, Scope!ReadPage(sha)
    PROVE  ScopeInv'
<1> DEFINE files == runs[sha].files
           page == IF Len(files) < Len(Scope!FilesNow) THEN <<Scope!FilesNow[Len(files) + 1]>> ELSE <<>>
           wrong == {<<>>} \cup {<<files[i]>> : i \in DOMAIN files}
           next(answer) == IF answer = <<>> \/ Len(files) + 1 = runs[sha].count THEN "judge" ELSE "files"
           run(answer) == [runs[sha] EXCEPT !.files = files \o answer, !.at = next(answer)]
<1>1. PICK answer \in {page} \cup wrong : Scope!Step(sha, run(answer))
  BY Zenon DEF Scope!ReadPage
<1>2. Shaped(runs[sha]) /\ runs[sha].at = "files" /\ posted[sha] = {}
  BY DEF ScopeInv, ScopeTyped, InOrder, Scope!ReadPage
<1>6. run(answer) = [at |-> next(answer), count |-> runs[sha].count, patterns |-> runs[sha].patterns, files |-> files \o answer, left |-> runs[sha].left, tries |-> runs[sha].tries]
  BY <1>2, FilesAndAt, Zenon
<1>7. next(answer) \in {"files", "judge"}
  OBVIOUS
<1>3. /\ Shaped(run(answer)) /\ run(answer).at \in {"files", "judge"} /\ run(answer).files = files \o answer
      /\ run(answer).count = runs[sha].count /\ run(answer).patterns = runs[sha].patterns
  <2> HIDE DEF run, next, files
  <2> QED
    BY <1>6, <1>7 DEF Shaped
<1>4. pr.stacked => pr.retargeted
  BY <1>2 DEF ScopeInv, InOrder, Past
<1>5. ASSUME sha = pr.head, ~pr.stacked PROVE Knows(run(answer), pr.diff.changes[sha])
  <2> DEFINE changes == pr.diff.changes[sha]
             all == Scope!ToSet(changes)
  <2>1. Knows(runs[sha], changes)
    BY <1>2, <1>5 DEF ScopeInv, HeadKnown, Past
  <2>2. Scope!FilesNow = changes
    BY <1>5 DEF Scope!FilesNow
  <2>3. changes \in Seq(all)
    BY ScopeAssumption DEF Scope!Lawful, ScopeInv, ScopeTyped
  <2>4. files \in Seq(all)
    BY <2>1 DEF Knows
  <2>5. answer \in Seq(all)
    <3> HIDE DEF files, changes, all
    <3>1. CASE answer = page
      <4>1. CASE Len(files) < Len(changes)
        <5>1. changes[Len(files) + 1] \in all
          BY <2>3, <2>4, <4>1
        <5> QED
          BY <2>2, <3>1, <4>1, <5>1
      <4>2. CASE ~(Len(files) < Len(changes))
        BY <2>2, <3>1, <4>2
      <4> QED
        BY <4>1, <4>2
    <3>2. CASE answer \in wrong
      <4>1. \A i \in DOMAIN files : files[i] \in all
        BY <2>4
      <4>2. CASE answer = <<>>
        BY <4>2
      <4>3. CASE \E i \in DOMAIN files : answer = <<files[i]>>
        BY <4>1, <4>3
      <4> QED
        BY <3>2, <4>2, <4>3
    <3> QED
      BY <1>1, <3>1, <3>2
  <2> HIDE DEF changes, all
  <2>6. files \o answer \in Seq(all)
    BY <2>4, <2>5
  <2> HIDE DEF run, files
  <2>7. run(answer).files \in Seq(Scope!ToSet(changes))
    BY <1>3, <2>6 DEF all
  <2>8. Knows(run(answer), changes)
    BY <1>2, <1>3, <2>1, <2>7 DEF Knows
  <2> QED
    BY <2>8 DEF changes
<1> HIDE DEF run
<1> QED
  BY <1>1, <1>2, <1>3, <1>4, <1>5, RunSteps

\* A whole list of inert paths holds none the suite reads.
LEMMA DecideKeeps ==
    ASSUME ScopeInv, NEW sha \in Commits, Scope!decide(sha)
    PROVE  ScopeInv'
<1> DEFINE inert == Scope!listed(sha) /\ \A path \in Scope!changed_paths(sha) : Scope!is_inert(path, runs[sha].patterns)
           at == IF inert THEN "post" ELSE "suite"
           run == [runs[sha] EXCEPT !.at = at]
<1>1. Scope!Step(sha, run) /\ runs[sha].at = "judge"
  BY DEF Scope!decide
<1>2. Shaped(runs[sha]) /\ posted[sha] = {}
  BY <1>1 DEF ScopeInv, ScopeTyped, InOrder
<1> HIDE DEF inert
<1>3. /\ Shaped(run) /\ run.at = at /\ run.count = runs[sha].count /\ run.files = runs[sha].files
      /\ run.patterns = runs[sha].patterns
  BY <1>2 DEF Shaped
<1>4. pr.stacked => pr.retargeted
  BY <1>1 DEF ScopeInv, InOrder, Past
<1> HIDE DEF run
<1>5. ASSUME sha = pr.head, ~pr.stacked, run.at \in Past PROVE Knows(run, pr.diff.changes[sha])
  <2> DEFINE changes == pr.diff.changes[sha]
             files == runs[sha].files
  <2>1. inert /\ run.at = "post"
    BY <1>3, <1>5 DEF Past
  <2>2. Knows(runs[sha], changes)
    BY <1>1, <1>5 DEF ScopeInv, HeadKnown, Past
  <2>3. changes \in Seq(Scope!ToSet(changes))
    BY ScopeAssumption DEF Scope!Lawful, ScopeInv, ScopeTyped
  <2>4. files \in Seq(Scope!ToSet(changes)) /\ runs[sha].count = Len(changes) /\ Blind(runs[sha].patterns)
    BY <1>1, <2>2 DEF Knows
  <2>5. Len(files) = Len(changes) /\ Cardinality({f.name : f \in Scope!ToSet(files)}) = Len(changes)
    <3>1. Scope!listed(sha)
      BY <2>1 DEF inert
    <3> QED
      BY <2>4, <3>1, ScopeCardinality DEF Scope!listed
  <2>6. Scope!ToSet(files) = Scope!ToSet(changes)
    <3> HIDE DEF changes, files
    <3> QED
      BY <2>3, <2>4, <2>5, WholeList
  <2>7. \A path \in Scope!changed_paths(sha) : path \notin Reads
    BY <2>1, <2>4 DEF inert, Blind
  <2>8. \A file \in Scope!ToSet(files) : file.name \notin Reads /\ file.from \notin Reads
    <3> SUFFICES ASSUME NEW file \in Scope!ToSet(files), NEW path \in {file.name, file.from} PROVE path \notin Reads
      BY Zenon
    <3>1. CASE path = ""
      BY <3>1, ScopeAssumption DEF Scope!Lawful
    <3>2. CASE path # ""
      <4>1. path \in UNION {{f.name, f.from} : f \in Scope!ToSet(files)}
        OBVIOUS
      <4>2. path \in Scope!changed_paths(sha)
        BY <3>2, <4>1 DEF Scope!changed_paths
      <4> QED
        BY <2>7, <4>2
    <3> QED
      BY <3>1, <3>2
  <2>9. Unread(changes)
    BY <2>6, <2>8 DEF Unread
  <2> HIDE DEF changes
  <2>10. Knows(run, changes)
    BY <1>3, <2>4, <2>9 DEF Knows
  <2> QED
    BY <2>10 DEF changes
<1> QED
  BY <1>1, <1>2, <1>3, <1>4, <1>5, RunSteps

\* A status written, or refused: the run stays one that decided.
LEMMA PostKeeps ==
    ASSUME ScopeInv, NEW sha \in Commits, Scope!post(sha)
    PROVE  ScopeInv'
<1>1. runs[sha].at = "post" /\ pr' = pr /\ list' = list
  BY DEF Scope!post
<1>2. PICK run :
        /\ runs' = [runs EXCEPT ![sha] = run]
        /\ Shaped(run) /\ run.at \in {"post", "failed"}
        /\ run.count = runs[sha].count /\ run.patterns = runs[sha].patterns /\ run.files = runs[sha].files
        /\ DOMAIN posted' = Commits /\ \A c \in Commits \ {sha} : posted'[c] = posted[c]
  <2> DEFINE context == CHOOSE c \in runs[sha].left : TRUE
             done == [runs[sha] EXCEPT !.left = runs[sha].left \ {context}, !.tries = 3]
             refused == [runs[sha] EXCEPT !.tries = runs[sha].tries - 1, !.at = IF runs[sha].tries = 1 THEN "failed" ELSE "post"]
  <2>1. Shaped(runs[sha]) /\ DOMAIN posted = Commits
    BY DEF ScopeInv, ScopeTyped
  <2>2. CASE runs' = [runs EXCEPT ![sha] = done] /\ posted' = [posted EXCEPT ![sha] = @ \cup {context}]
    <3>1. done = [at |-> runs[sha].at, count |-> runs[sha].count, patterns |-> runs[sha].patterns,
                  files |-> runs[sha].files, left |-> runs[sha].left \ {context}, tries |-> 3]
      BY <2>1, LeftAndTries
    <3> HIDE DEF done
    <3> QED
      BY <1>1, <2>1, <2>2, <3>1 DEF Shaped
  <2>3. CASE runs' = [runs EXCEPT ![sha] = refused] /\ posted' = posted
    <3> DEFINE at == IF runs[sha].tries = 1 THEN "failed" ELSE "post"
    <3>1. refused = [at |-> at, count |-> runs[sha].count, patterns |-> runs[sha].patterns,
                     files |-> runs[sha].files, left |-> runs[sha].left, tries |-> runs[sha].tries - 1]
      BY <2>1, TriesAndAt
    <3>2. at \in {"post", "failed"}
      OBVIOUS
    <3> HIDE DEF refused, at
    <3> QED
      BY <2>1, <2>3, <3>1, <3>2 DEF Shaped
  <2>4. \/ runs' = [runs EXCEPT ![sha] = done] /\ posted' = [posted EXCEPT ![sha] = @ \cup {context}]
        \/ runs' = [runs EXCEPT ![sha] = refused] /\ posted' = posted
    BY DEF Scope!post
  <2> HIDE DEF done, refused, context
  <2> QED
    BY <2>2, <2>3, <2>4
<1>3. DOMAIN runs' = Commits /\ \A c \in Commits : runs'[c] = IF c = sha THEN run ELSE runs[c]
  BY <1>2 DEF ScopeInv, ScopeTyped
<1>4. ScopeTyped'
  BY <1>1, <1>2, <1>3 DEF ScopeInv, ScopeTyped
<1>5. InOrder'
  BY <1>1, <1>2, <1>3 DEF ScopeInv, InOrder, Past
<1>6. pr.head \in Commits
  BY DEF ScopeInv, ScopeTyped
<1>7. Knows(runs[sha], pr.diff.changes[sha]) => Knows(run, pr.diff.changes[sha])
  BY <1>1, <1>2 DEF Knows
<1>8. runs'[pr'.head].at \in Past /\ ~pr'.stacked => Knows(runs'[pr'.head], pr'.diff.changes[pr'.head])
  BY <1>1, <1>3, <1>6, <1>7 DEF ScopeInv, HeadKnown, Past
<1>9. HeadKnown'
  BY <1>8 DEF HeadKnown
<1> QED
  BY <1>4, <1>5, <1>9 DEF ScopeInv

LEMMA ScopeKeeps ==
    ASSUME ScopeInv, [Scope!Next]_Scope!scopeVars
    PROVE  ScopeInv'
<1>1. CASE Scope!Push \/ Scope!Retarget \/ Scope!ListMerges
  BY <1>1, GitHubKeeps
<1>2. ASSUME NEW sha \in Commits,
             Scope!gh(sha) \/ Scope!judge(sha) \/ Scope!ReadList(sha) \/ Scope!ReadPage(sha) \/ Scope!decide(sha) \/ Scope!post(sha)
      PROVE  ScopeInv'
  <2>1. CASE Scope!gh(sha)
    BY <2>1, GivenUp DEF Scope!gh
  <2> QED
    BY <1>2, <2>1, LookKeeps, ReadListKeeps, ReadPageKeeps, DecideKeeps, PostKeeps
<1>3. CASE UNCHANGED Scope!scopeVars
  <2>1. pr' = pr /\ list' = list /\ runs' = runs /\ posted' = posted
    BY <1>3 DEF Scope!scopeVars
  <2> QED
    BY <2>1 DEF ScopeInv, ScopeTyped, InOrder, HeadKnown
<1> QED
  BY <1>1, <1>2, <1>3 DEF Scope!Next

\* A suite is marked as not applicable only for a head that changes nothing it reads (suite_scope.py, decide):
\* for any diffs, lists that passed their check, and any order of pushes, merges, a retargeting and GitHub's slips.
THEOREM SkipStands == Scope!Spec => []SkipIsInert
<1>1. ScopeInv => SkipIsInert
  <2> SUFFICES ASSUME ScopeInv, posted[pr.head] # {}, ~pr.stacked PROVE Unread(pr.diff.changes[pr.head])
    BY DEF SkipIsInert, Scope!SkipIsInert, Unread
  <2>1. pr.head \in Commits
    BY DEF ScopeInv, ScopeTyped
  <2>2. runs[pr.head].at \in {"post", "failed"}
    BY <2>1 DEF ScopeInv, InOrder
  <2> QED
    BY <2>2 DEF ScopeInv, HeadKnown, Knows, Past
<1> QED
  BY <1>1, ScopeStarts, ScopeKeeps, PTL DEF Scope!Spec

----------------------------------------------------------------------------
(* The walk of the criteria *)

LEMMA Mapped ==
    ASSUME NEW n \in Nat, NEW f, f = [i \in 1..n |-> f[i]]
    PROVE  IsSeq(f) /\ Len(f) = n
<1>1. f \in Seq({f[i] : i \in 1..n})
  OBVIOUS
<1>2. DOMAIN f = 1..n
  OBVIOUS
<1>3. Len(f) \in Nat /\ DOMAIN f = 1..Len(f)
  BY <1>1
<1>4. Len(f) = n
  BY <1>2, <1>3
<1> QED
  BY <1>1, <1>4 DEF IsSeq

CommitFields == {"own", "docs", "base", "forged", "parent"}
KeptFields == {"head", "base", "evidence", "edited", "saw"}
ExplorerFields == {"result", "attempt", "lines"}
RunFields ==
  {"stage", "base", "body", "carry", "text", "shards", "attempt", "explored", "explorer", "edited", "verdict", "why"}

\* A commit has a part of the base's history, and a parent before it.
Branch ==
  /\ IsSeq(commits) /\ Len(commits) >= 1
  /\ IsSeq(base)
  /\ \A i \in 1..Len(commits) :
       DOMAIN commits[i] = CommitFields /\ commits[i].base \in 1..Len(base) /\ commits[i].parent \in 0..(i - 1)

\* A run is of a base its head has no more of.
RunOf ==
  /\ DOMAIN current = RunFields
  /\ current.base \in 1..Len(base) /\ Browse!At.base <= current.base
  /\ current.explorer = [k \in DOMAIN current.explorer |-> current.explorer[k]]
  /\ \A k \in DOMAIN current.explorer : DOMAIN current.explorer[k] = ExplorerFields

PastOf ==
  /\ IsSeq(past)
  /\ \A i \in 1..Len(past) :
       /\ DOMAIN past[i] = KeptFields /\ past[i].head \in 1..Len(commits) /\ past[i].base \in 1..Len(base)
       /\ commits[past[i].head].base <= past[i].base

\* The words of the body as a page showed them to hold.
WalkedOn(own, at, saw) == \A w \in Browse!Wordings(body) : <<w, <<own, base[at]>>>> \in saw

\* What a run left that passed with evidence, and that no edit made old, is a walk of the body as it still is.
PastIsWalked ==
  \A i \in 1..Len(past) :
    /\ ~past[i].edited /\ past[i].evidence /\ ~commits[past[i].head].forged
    => WalkedOn(commits[past[i].head].own, past[i].base, past[i].saw)

\* Until the body is edited, a line is of its words, on the page of the run.
LinesAreSeen ==
  ~current.edited =>
    \A k \in DOMAIN current.explorer : \A line \in current.explorer[k].lines :
      line.saw = <<Browse!Wording(body, line.item), <<Browse!At.own, base[current.base]>>>>

\* What a run carries is of a page that looks as this run's does.
CarriedLooksSame ==
  current.carry # Browse!NoCarry =>
    /\ current.carry \in 1..Len(past)
    /\ past[current.carry].evidence
    /\ ~current.edited => ~past[current.carry].edited
    /\ LET then == commits[past[current.carry].head] IN
       ~then.forged /\ then.own = Browse!At.own /\ base[then.base] = base[current.base]

\* There are explorers only of a walk that is required, until the body is edited.
WalkIsRequired ==
  DOMAIN current.explorer # {} /\ ~current.edited => ~Browse!not_required(body, current.carry, current.text)

\* A green check is of the body it was judged by, and by what was seen or by a walk it carries.
GreenSays ==
  current.stage = "done" /\ ~current.edited =>
    /\ current.body = body
    /\ current.why = "walked" => WalkedOn(Browse!At.own, current.base, Browse!Saw(current))
    /\ current.why = "carried" => current.carry # Browse!NoCarry

WalkInv == Branch /\ RunOf /\ PastOf /\ PastIsWalked /\ LinesAreSeen /\ CarriedLooksSame /\ WalkIsRequired /\ GreenSays

LEMMA WalkStart == Browse!Init => WalkInv
<1> SUFFICES ASSUME Browse!Init PROVE WalkInv
  OBVIOUS
<1>1. /\ commits = <<[own |-> 0, docs |-> 0, base |-> 1, forged |-> FALSE, parent |-> 0]>>
      /\ base = <<1>> /\ past = <<>>
  BY DEF Browse!Init
<1>2. IsSeq(commits) /\ IsSeq(base) /\ IsSeq(past)
  <2>1. commits \in Seq({commits[1]}) /\ base \in Seq({1}) /\ past \in Seq({1})
    BY <1>1
  <2> QED
    BY <2>1 DEF IsSeq
<1>3. Branch
  BY <1>1, <1>2 DEF Branch, CommitFields
<1>4. PastOf /\ PastIsWalked
  BY <1>1, <1>2 DEF PastOf, PastIsWalked
<1>5. current = Browse!NewRun(1) /\ Browse!At = commits[1]
  BY <1>1 DEF Browse!Init, Browse!At, Browse!Tip
<1>6. /\ DOMAIN current = RunFields /\ current.base = 1 /\ current.explorer = <<>> /\ current.carry = Browse!NoCarry
      /\ current.stage = "criteria"
  BY <1>5 DEF RunFields, Browse!NewRun, Browse!NoRun
<1>7. RunOf
  BY <1>1, <1>5, <1>6 DEF RunOf
<1> QED
  BY <1>3, <1>4, <1>6, <1>7 DEF WalkInv, LinesAreSeen, CarriedLooksSame, WalkIsRequired, GreenSays

\* A new run has nothing yet.
LEMMA FreshRun ==
    ASSUME NEW at
    PROVE  LET run == Browse!NewRun(at) IN
           /\ DOMAIN run = RunFields /\ run.base = at /\ run.explorer = <<>> /\ run.carry = Browse!NoCarry
           /\ run.stage = "criteria"
  BY DEF RunFields, Browse!NewRun, Browse!NoRun

LEMMA PushKeeps ==
    ASSUME WalkInv, NEW commit, Browse!Pushed(commit), DOMAIN commit = CommitFields,
           commit.base \in 1..Len(base), commit.parent \in 0..Len(commits)
    PROVE  WalkInv'
<1>1. /\ commits' = Append(commits, commit) /\ current' = Browse!NewRun(Len(base))
      /\ base' = base /\ body' = body /\ past' = past
  BY DEF Browse!Pushed
<1>2. /\ IsSeq(commits) /\ Len(commits) >= 1 /\ IsSeq(base)
      /\ \A i \in 1..Len(commits) :
           DOMAIN commits[i] = CommitFields /\ commits[i].base \in 1..Len(base) /\ commits[i].parent \in 0..(i - 1)
  BY DEF WalkInv, Branch
<1>3. Len(commits) \in Nat /\ Len(base) \in Nat
  BY <1>2, SeqDomain
<1>4. /\ IsSeq(commits') /\ Len(commits') = Len(commits) + 1
      /\ \A i \in 1..Len(commits) : commits'[i] = commits[i]
      /\ commits'[Len(commits) + 1] = commit
  BY <1>1, <1>2, Appended
<1>5. \A i \in 1..Len(commits') : i \in 1..Len(commits) \/ i = Len(commits) + 1
  BY <1>3, <1>4
<1>6. Branch'
  BY <1>1, <1>2, <1>3, <1>4, <1>5 DEF Branch
<1>7. /\ DOMAIN current' = RunFields /\ current'.base = Len(base) /\ current'.explorer = <<>> /\ current'.carry = Browse!NoCarry
      /\ current'.stage = "criteria"
  BY <1>1, FreshRun
<1>8. Browse!At' = commit
  BY <1>4 DEF Browse!At, Browse!Tip
<1>9. RunOf'
  BY <1>1, <1>3, <1>7, <1>8 DEF RunOf
<1>10. PastOf' /\ PastIsWalked'
  <2>1. IsSeq(past) /\ \A i \in 1..Len(past) :
          /\ DOMAIN past[i] = KeptFields /\ past[i].head \in 1..Len(commits) /\ past[i].base \in 1..Len(base)
          /\ commits[past[i].head].base <= past[i].base
    BY DEF WalkInv, PastOf
  <2>2. \A i \in 1..Len(past) : commits'[past[i].head] = commits[past[i].head]
    BY <1>4, <2>1
  <2>3. PastOf'
    BY <1>1, <1>3, <1>4, <2>1, <2>2 DEF PastOf
  <2>4. PastIsWalked'
    BY <1>1, <2>2 DEF WalkInv, PastIsWalked, WalkedOn
  <2> QED
    BY <2>3, <2>4
<1> QED
  BY <1>6, <1>7, <1>9, <1>10 DEF WalkInv, LinesAreSeen, CarriedLooksSame, WalkIsRequired, GreenSays

\* The commits a person makes have the shape of the head.
LEMMA PushesKeep ==
    ASSUME WalkInv,
           Browse!PushPage \/ Browse!PushDocs \/ Browse!PushWorkflow \/ Browse!MergeBase \/ Browse!ForcePush
    PROVE  WalkInv'
<1>1. /\ IsSeq(commits) /\ Len(commits) >= 1 /\ IsSeq(base)
      /\ \A i \in 1..Len(commits) :
           DOMAIN commits[i] = CommitFields /\ commits[i].base \in 1..Len(base) /\ commits[i].parent \in 0..(i - 1)
  BY DEF WalkInv, Branch
<1>2. Len(commits) \in Nat /\ Len(base) \in Nat
  BY <1>1, SeqDomain
<1>3. /\ DOMAIN Browse!At = CommitFields /\ Browse!At.base \in 1..Len(base) /\ Browse!At.parent \in 0..(Len(commits) - 1)
      /\ Browse!Tip = Len(commits)
  BY <1>1, <1>2 DEF Browse!At, Browse!Tip
<1>4. CASE Browse!PushPage
  <2> DEFINE c == [Browse!At EXCEPT !.own = Browse!Tip, !.parent = Browse!Tip]
  <2>1. DOMAIN c = CommitFields /\ c.base = Browse!At.base /\ c.parent = Browse!Tip
    BY <1>3 DEF CommitFields
  <2>2. Browse!Pushed(c)
    BY <1>4 DEF Browse!PushPage
  <2> HIDE DEF c
  <2> QED
    BY <1>2, <1>3, <2>1, <2>2, PushKeeps
<1>5. CASE Browse!PushDocs
  <2> DEFINE c == [Browse!At EXCEPT !.docs = Browse!Tip, !.parent = Browse!Tip]
  <2>1. DOMAIN c = CommitFields /\ c.base = Browse!At.base /\ c.parent = Browse!Tip
    BY <1>3 DEF CommitFields
  <2>2. Browse!Pushed(c)
    BY <1>5 DEF Browse!PushDocs
  <2> HIDE DEF c
  <2> QED
    BY <1>2, <1>3, <2>1, <2>2, PushKeeps
<1>6. CASE Browse!PushWorkflow
  <2> DEFINE c == [Browse!At EXCEPT !.forged = ~Browse!At.forged, !.parent = Browse!Tip]
  <2>1. DOMAIN c = CommitFields /\ c.base = Browse!At.base /\ c.parent = Browse!Tip
    BY <1>3 DEF CommitFields
  <2>2. Browse!Pushed(c)
    BY <1>6 DEF Browse!PushWorkflow
  <2> HIDE DEF c
  <2> QED
    BY <1>2, <1>3, <2>1, <2>2, PushKeeps
<1>7. CASE Browse!MergeBase
  <2> DEFINE c == [Browse!At EXCEPT !.base = Len(base), !.parent = Browse!Tip]
  <2>1. DOMAIN c = CommitFields /\ c.base = Len(base) /\ c.parent = Browse!Tip
    BY <1>3 DEF CommitFields
  <2>2. Browse!Pushed(c) /\ Browse!At.base < Len(base)
    BY <1>7 DEF Browse!MergeBase
  <2> HIDE DEF c
  <2> QED
    BY <1>2, <1>3, <2>1, <2>2, PushKeeps
<1>8. CASE Browse!ForcePush
  <2>1. Browse!At.parent \in 1..Len(commits) /\ Browse!Pushed(commits[Browse!At.parent])
    BY <1>2, <1>3, <1>8 DEF Browse!ForcePush
  <2>2. commits[Browse!At.parent].parent \in 0..Len(commits)
    BY <1>1, <1>2, <2>1
  <2> QED
    BY <1>1, <2>1, <2>2, PushKeeps
<1> QED
  BY <1>4, <1>5, <1>6, <1>7, <1>8

LEMMA BaseMovesKeeps == ASSUME WalkInv, Browse!BaseMoves PROVE WalkInv'
<1>1. UNCHANGED <<commits, body, edits, current, past>> /\ \E version : base' = Append(base, version)
  BY DEF Browse!BaseMoves
<1>2. PICK version : base' = Append(base, version)
  BY <1>1
<1>3. IsSeq(base) /\ Len(base) \in Nat
  BY SeqDomain DEF WalkInv, Branch
<1>4. /\ IsSeq(base') /\ Len(base') = Len(base) + 1
      /\ \A i \in 1..Len(base) : base'[i] = base[i]
  BY <1>2, <1>3, Appended
<1>5. Branch'
  BY <1>1, <1>3, <1>4 DEF WalkInv, Branch
<1>6. Browse!At' = Browse!At
  BY <1>1 DEF Browse!At, Browse!Tip
<1>7. RunOf'
  BY <1>1, <1>3, <1>4, <1>6 DEF WalkInv, RunOf
<1>8. PastOf'
  BY <1>1, <1>3, <1>4 DEF WalkInv, PastOf
<1>9. \A i \in 1..Len(past) : base'[past[i].base] = base[past[i].base]
  BY <1>4 DEF WalkInv, PastOf
<1>10. PastIsWalked'
  BY <1>1, <1>9 DEF WalkInv, PastIsWalked, WalkedOn
<1>11. base'[current.base] = base[current.base]
  BY <1>4 DEF WalkInv, RunOf
<1>12. LinesAreSeen'
  BY <1>1, <1>6, <1>11 DEF WalkInv, LinesAreSeen
<1>13. CarriedLooksSame'
  <2> SUFFICES ASSUME current.carry # Browse!NoCarry PROVE CarriedLooksSame'
    BY <1>1 DEF CarriedLooksSame
  <2>1. current.carry \in 1..Len(past) /\ commits[past[current.carry].head].base \in 1..Len(base)
    BY DEF WalkInv, CarriedLooksSame, PastOf, Branch
  <2> QED
    BY <1>1, <1>4, <1>6, <1>11, <2>1 DEF WalkInv, CarriedLooksSame
<1>14. WalkIsRequired'
  BY <1>1, <1>6 DEF WalkInv, WalkIsRequired, Browse!not_required, Browse!Exempt, Browse!Unrendered, Browse!Tip
<1>15. Browse!Saw(current)' = Browse!Saw(current)
  BY <1>1 DEF Browse!Saw
<1>16. GreenSays'
  BY <1>1, <1>6, <1>11, <1>15 DEF WalkInv, GreenSays, WalkedOn
<1> QED
  BY <1>5, <1>7, <1>8, <1>10, <1>12, <1>13, <1>14, <1>16 DEF WalkInv

\* An edit makes every run's words old.
LEMMA EditKeeps == ASSUME WalkInv, Browse!Edit PROVE WalkInv'
<1>1. /\ UNCHANGED <<commits, base>> /\ current' = [current EXCEPT !.edited = TRUE]
      /\ past' = [i \in DOMAIN past |-> [past[i] EXCEPT !.edited = TRUE]]
  BY DEF Browse!Edit
<1>2. Len(past) \in Nat /\ DOMAIN past = 1..Len(past)
  BY SeqDomain DEF WalkInv, PastOf
<1>3. IsSeq(past') /\ Len(past') = Len(past)
  BY <1>1, <1>2, Mapped
<1>4. \A i \in 1..Len(past) :
        /\ DOMAIN past'[i] = KeptFields /\ past'[i].head = past[i].head /\ past'[i].base = past[i].base
        /\ past'[i].evidence = past[i].evidence /\ past'[i].edited = TRUE
  BY <1>1, <1>2 DEF WalkInv, PastOf, KeptFields
<1>5. PastOf' /\ PastIsWalked'
  BY <1>1, <1>3, <1>4 DEF WalkInv, PastOf, PastIsWalked
<1>6. /\ DOMAIN current' = RunFields /\ current'.edited = TRUE /\ current'.base = current.base
      /\ current'.explorer = current.explorer /\ current'.carry = current.carry
  BY <1>1 DEF WalkInv, RunOf, RunFields
<1>7. Browse!At' = Browse!At
  BY <1>1 DEF Browse!At, Browse!Tip
<1>8. Branch' /\ RunOf'
  BY <1>1, <1>6, <1>7 DEF WalkInv, Branch, RunOf
<1>9. CarriedLooksSame'
  <2> SUFFICES ASSUME current.carry # Browse!NoCarry PROVE CarriedLooksSame'
    BY <1>6 DEF CarriedLooksSame
  <2> QED
    BY <1>1, <1>3, <1>4, <1>6, <1>7 DEF WalkInv, CarriedLooksSame
<1> QED
  BY <1>5, <1>6, <1>8, <1>9 DEF WalkInv, LinesAreSeen, WalkIsRequired, GreenSays

\* What a run's own steps leave alone, while they leave its page, its words and the runs before it.
LEMMA RunKeeps ==
    ASSUME WalkInv, UNCHANGED <<commits, base, body, past>>, DOMAIN current' = RunFields,
           current'.base = current.base, current'.edited = current.edited,
           current'.explorer = [k \in DOMAIN current'.explorer |-> current'.explorer[k]],
           \A k \in DOMAIN current'.explorer : DOMAIN current'.explorer[k] = ExplorerFields
    PROVE  Branch' /\ RunOf' /\ PastOf' /\ PastIsWalked' /\ Browse!At' = Browse!At
<1>1. Branch' /\ PastOf'
  BY DEF WalkInv, Branch, PastOf
<1>2. Browse!At' = Browse!At
  BY DEF Browse!At, Browse!Tip
<1>3. PastIsWalked'
  BY DEF WalkInv, PastIsWalked, WalkedOn
<1>4. RunOf'
  BY <1>2 DEF WalkInv, RunOf
<1> QED
  BY <1>1, <1>2, <1>3, <1>4

\* The run the criteria job looks at is one that left evidence.
LEMMA WalkedRun ==
    ASSUME WalkInv
    PROVE  Browse!walked_run # Browse!NoCarry => Browse!walked_run \in 1..Len(past) /\ past[Browse!walked_run].evidence
<1> DEFINE left == {i \in DOMAIN past : past[i].evidence /\ past[i].head # Browse!Tip}
<1>1. Len(past) \in Nat /\ DOMAIN past = 1..Len(past)
  BY SeqDomain DEF WalkInv, PastOf
<1>2. left \in SUBSET (1..Len(past)) /\ left \in SUBSET Nat /\ \A i \in left : past[i].evidence
  BY <1>1
<1>3. IsFiniteSet(left)
  <2>1. IsFiniteSet(1..Len(past))
    BY <1>1, FS_Interval
  <2> HIDE DEF left
  <2> QED
    BY <1>2, <2>1, FS_Subset
<1>4. Browse!walked_run = IF left = {} THEN Browse!NoCarry ELSE CHOOSE x \in left : \A y \in left : x >= y
  BY DEF Browse!walked_run, Browse!Max
<1> HIDE DEF left
<1>5. CASE left # {}
  <2>1. PICK x \in left : \A y \in left : y <= x
    BY <1>2, <1>3, <1>5, Extremes
  <2>2. \A y \in left : x >= y
    BY <1>2, <2>1
  <2>3. (CHOOSE z \in left : \A y \in left : z >= y) \in left
    BY <2>2
  <2> QED
    BY <1>2, <1>4, <1>5, <2>3
<1> QED
  BY <1>4, <1>5

LEMMA CriteriaKeeps == ASSUME WalkInv, Browse!Criteria PROVE WalkInv'
<1>1. PICK carry \in {Browse!NoCarry} \cup {run \in {Browse!walked_run} : Browse!carried(run)} :
        LET walks == ~Browse!not_required(body, carry, body) /\ Browse!Wanted(body) # {} IN
          current' = [current EXCEPT
            !.carry = carry, !.text = body, !.shards = Browse!shard_plan(body),
            !.stage = IF walks THEN "explore" ELSE "verify",
            !.explorer = IF ~walks THEN <<>>
                         ELSE [k \in 1..Browse!shard_plan(body) |-> [result |-> "waits", attempt |-> 0, lines |-> {}]]]
  BY Zenon DEF Browse!Criteria
<1>2. UNCHANGED <<commits, base, body, past>> /\ ~Browse!At.forged /\ DOMAIN current = RunFields
  BY DEF Browse!Criteria, WalkInv, RunOf
<1> DEFINE walks == ~Browse!not_required(body, carry, body) /\ Browse!Wanted(body) # {}
           shards == Browse!shard_plan(body)
           explorers == IF ~walks THEN <<>> ELSE [k \in 1..shards |-> [result |-> "waits", attempt |-> 0, lines |-> {}]]
<1>3. /\ DOMAIN current' = RunFields /\ current'.carry = carry /\ current'.text = body /\ current'.explorer = explorers
      /\ current'.base = current.base /\ current'.edited = current.edited /\ current'.stage \in {"explore", "verify"}
  BY <1>1, <1>2 DEF RunFields
<1> HIDE DEF shards
<1>4. /\ explorers = [k \in DOMAIN explorers |-> explorers[k]]
      /\ \A k \in DOMAIN explorers : DOMAIN explorers[k] = ExplorerFields /\ explorers[k].lines = {}
      /\ DOMAIN explorers # {} => ~Browse!not_required(body, carry, body)
  <2>1. CASE walks
    BY <2>1 DEF ExplorerFields
  <2>2. CASE ~walks
    BY <2>2
  <2> QED
    BY <2>1, <2>2
<1> HIDE DEF explorers
<1>5. Branch' /\ RunOf' /\ PastOf' /\ PastIsWalked' /\ Browse!At' = Browse!At
  BY <1>2, <1>3, <1>4, RunKeeps
<1>6. LinesAreSeen'
  BY <1>3, <1>4 DEF LinesAreSeen
<1>7. CarriedLooksSame'
  <2> SUFFICES ASSUME carry # Browse!NoCarry PROVE CarriedLooksSame'
    BY <1>3 DEF CarriedLooksSame
  <2>1. carry = Browse!walked_run /\ Browse!carried(carry)
    OBVIOUS
  <2>2. carry \in 1..Len(past) /\ past[carry].evidence
    BY <2>1, WalkedRun
  <2>3. LET then == commits[past[carry].head] IN
        /\ then.own = Browse!At.own /\ base[then.base] = base[Browse!At.base] /\ then.forged = Browse!At.forged
        /\ Browse!At.base = Len(base) /\ ~past[carry].edited
    BY <2>1 DEF Browse!carried
  <2>4. Browse!At.base = current.base
    <3>1. IsSeq(base)
      BY DEF WalkInv, Branch
    <3>2. Len(base) \in Nat
      BY <3>1, SeqDomain
    <3> QED
      BY <2>3, <3>2 DEF WalkInv, RunOf
  <2> QED
    BY <1>2, <1>3, <1>5, <2>2, <2>3, <2>4 DEF CarriedLooksSame
<1>8. WalkIsRequired'
  <2>1. Browse!not_required(body, carry, body)' = Browse!not_required(body, carry, body)'
    OBVIOUS
  <2> QED
    BY <1>2, <1>3, <1>4, <1>5 DEF WalkIsRequired, Browse!not_required, Browse!Exempt, Browse!Unrendered, Browse!Tip
<1>9. GreenSays'
  BY <1>3 DEF GreenSays
<1> QED
  BY <1>5, <1>6, <1>7, <1>8, <1>9 DEF WalkInv

\* An explorer that ends, with lines of what it saw or those it had.
LEMMA EndsKeepWalk ==
    ASSUME WalkInv, NEW k, k \in DOMAIN current.explorer, NEW result, NEW attempt, NEW lines,
           Browse!Ends(k, result, attempt, lines), UNCHANGED <<commits, base, body, edits, past>>, current.stage = "explore",
           ~current.edited => \A line \in lines :
             line.saw = <<Browse!Wording(body, line.item), <<Browse!At.own, base[current.base]>>>>
    PROVE  WalkInv'
<1> DEFINE left == [result |-> result, attempt |-> attempt, lines |-> lines]
           explorers == [current.explorer EXCEPT ![k] = left]
<1>1. current' = [current EXCEPT !.explorer = explorers, !.explored = current.attempt] /\ DOMAIN current = RunFields
  BY DEF Browse!Ends, WalkInv, RunOf
<1>2. /\ DOMAIN explorers = DOMAIN current.explorer /\ explorers = [j \in DOMAIN explorers |-> explorers[j]]
      /\ \A j \in DOMAIN explorers : explorers[j] = IF j = k THEN left ELSE current.explorer[j]
  BY DEF WalkInv, RunOf
<1>3. DOMAIN left = ExplorerFields /\ left.lines = lines
  BY DEF ExplorerFields
<1> HIDE DEF explorers, left
<1>4. /\ DOMAIN current' = RunFields /\ current'.explorer = explorers /\ current'.base = current.base
      /\ current'.edited = current.edited /\ current'.carry = current.carry /\ current'.text = current.text
      /\ current'.stage = "explore"
  BY <1>1 DEF RunFields
<1>5. \A j \in DOMAIN explorers : DOMAIN explorers[j] = ExplorerFields
  BY <1>2, <1>3 DEF WalkInv, RunOf
<1>6. Branch' /\ RunOf' /\ PastOf' /\ PastIsWalked' /\ Browse!At' = Browse!At
  BY <1>2, <1>4, <1>5, RunKeeps
<1>7. LinesAreSeen'
  BY <1>2, <1>3, <1>4, <1>6 DEF WalkInv, LinesAreSeen
<1>8. CarriedLooksSame'
  BY <1>4, <1>6 DEF WalkInv, CarriedLooksSame
<1>9. WalkIsRequired'
  BY <1>2, <1>4, <1>6 DEF WalkInv, WalkIsRequired, Browse!not_required, Browse!Exempt, Browse!Unrendered, Browse!Tip
<1>10. GreenSays'
  BY <1>4 DEF GreenSays
<1> QED
  BY <1>6, <1>7, <1>8, <1>9, <1>10 DEF WalkInv

LEMMA ExploreKeeps == ASSUME WalkInv, NEW k, Browse!Explore(k) \/ Browse!ExploreFails(k) PROVE WalkInv'
<1>1. k \in DOMAIN current.explorer /\ current.stage = "explore" /\ UNCHANGED <<commits, base, body, edits, past>>
  BY DEF Browse!Explore, Browse!ExploreFails, Browse!MayExplore
<1>2. CASE Browse!Explore(k)
  <2> DEFINE page == <<Browse!At.own, base[current.base]>>
             seen(holds) == {[item |-> item, saw |-> <<Browse!Wording(body, item), page>>] : item \in holds}
  <2>1. PICK holds, result : Browse!Ends(k, result, current.attempt, seen(holds))
    BY <1>2 DEF Browse!Explore, Browse!Page
  <2>2. \A line \in seen(holds) : line.saw = <<Browse!Wording(body, line.item), page>>
    OBVIOUS
  <2> HIDE DEF seen
  <2> QED
    BY <1>1, <2>1, <2>2, EndsKeepWalk
<1>3. CASE Browse!ExploreFails(k)
  <2>1. PICK result : Browse!Ends(k, result, current.explorer[k].attempt, current.explorer[k].lines)
    BY <1>3 DEF Browse!ExploreFails
  <2>2. ~current.edited => \A line \in current.explorer[k].lines :
          line.saw = <<Browse!Wording(body, line.item), <<Browse!At.own, base[current.base]>>>>
    BY <1>1 DEF WalkInv, LinesAreSeen
  <2> QED
    BY <1>1, <2>1, <2>2, EndsKeepWalk
<1> QED
  BY <1>2, <1>3

\* Between its stages a run keeps what it has.
LEMMA StageKeeps ==
    ASSUME WalkInv, UNCHANGED <<commits, base, body, past>>, DOMAIN current' = RunFields,
           current'.base = current.base, current'.edited = current.edited, current'.carry = current.carry,
           current'.text = current.text, current'.stage # "done", DOMAIN current'.explorer = DOMAIN current.explorer,
           current'.explorer = [k \in DOMAIN current'.explorer |-> current'.explorer[k]],
           \A k \in DOMAIN current.explorer :
             DOMAIN current'.explorer[k] = ExplorerFields /\ current'.explorer[k].lines = current.explorer[k].lines
    PROVE  WalkInv'
<1>1. Branch' /\ RunOf' /\ PastOf' /\ PastIsWalked' /\ Browse!At' = Browse!At
  BY RunKeeps
<1>2. LinesAreSeen' /\ CarriedLooksSame'
  BY <1>1 DEF WalkInv, LinesAreSeen, CarriedLooksSame
<1>3. WalkIsRequired'
  BY <1>1 DEF WalkInv, WalkIsRequired, Browse!not_required, Browse!Exempt, Browse!Unrendered, Browse!Tip
<1> QED
  BY <1>1, <1>2, <1>3 DEF WalkInv, GreenSays

LEMMA ExploredKeeps == ASSUME WalkInv, Browse!Explored PROVE WalkInv'
<1>1. current' = [current EXCEPT !.stage = "verify"] /\ UNCHANGED <<commits, base, body, past>>
  BY DEF Browse!Explored
<1>2. /\ DOMAIN current' = RunFields /\ current'.base = current.base /\ current'.edited = current.edited
      /\ current'.carry = current.carry /\ current'.text = current.text /\ current'.stage = "verify"
      /\ current'.explorer = current.explorer
  BY <1>1 DEF WalkInv, RunOf, RunFields
<1> QED
  BY <1>1, <1>2, StageKeeps DEF WalkInv, RunOf

LEMMA RerunFailedKeeps == ASSUME WalkInv, Browse!RerunFailed PROVE WalkInv'
<1> DEFINE explorers == [k \in DOMAIN current.explorer |->
                           [current.explorer[k] EXCEPT !.result = IF @ = "success" THEN "success" ELSE "waits"]]
           stage == IF Browse!explore_result(current) = "failure" THEN "explore" ELSE "verify"
<1>1. /\ UNCHANGED <<commits, base, body, past>>
      /\ current' = [current EXCEPT !.attempt = current.attempt + 1, !.verdict = "none", !.stage = stage, !.explorer = explorers]
  BY DEF Browse!RerunFailed
<1>2. /\ DOMAIN explorers = DOMAIN current.explorer /\ explorers = [k \in DOMAIN explorers |-> explorers[k]]
      /\ \A k \in DOMAIN current.explorer :
           DOMAIN explorers[k] = ExplorerFields /\ explorers[k].lines = current.explorer[k].lines
  BY DEF WalkInv, RunOf, ExplorerFields
<1>3. stage # "done"
  OBVIOUS
<1> HIDE DEF explorers, stage
<1>4. /\ DOMAIN current' = RunFields /\ current'.base = current.base /\ current'.edited = current.edited
      /\ current'.carry = current.carry /\ current'.text = current.text /\ current'.stage = stage
      /\ current'.explorer = explorers
  BY <1>1 DEF WalkInv, RunOf, RunFields
<1> QED
  BY <1>1, <1>2, <1>3, <1>4, StageKeeps

LEMMA RerunAllKeeps == ASSUME WalkInv, Browse!RerunAll PROVE WalkInv'
<1>1. /\ UNCHANGED <<commits, base, body, past>>
      /\ current' = [Browse!NewRun(current.base) EXCEPT !.attempt = current.attempt + 1, !.edited = current.edited]
  BY DEF Browse!RerunAll
<1> DEFINE fresh == Browse!NewRun(current.base)
<1>2. /\ DOMAIN fresh = RunFields /\ fresh.base = current.base /\ fresh.explorer = <<>> /\ fresh.carry = Browse!NoCarry
      /\ fresh.stage = "criteria"
  BY FreshRun
<1> HIDE DEF fresh
<1>3. /\ DOMAIN current' = RunFields /\ current'.base = current.base /\ current'.edited = current.edited
      /\ current'.explorer = <<>> /\ current'.carry = Browse!NoCarry /\ current'.stage = "criteria"
  BY <1>1, <1>2 DEF RunFields, fresh
<1>4. Branch' /\ RunOf' /\ PastOf' /\ PastIsWalked' /\ Browse!At' = Browse!At
  BY <1>1, <1>3, RunKeeps
<1> QED
  BY <1>3, <1>4 DEF WalkInv, LinesAreSeen, CarriedLooksSame, WalkIsRequired, GreenSays

\* A judgement of words no edit made old is of what the explorers saw.
LEMMA JudgedIsWalked ==
    ASSUME WalkInv, ~current.edited, Browse!Judged(current, body)
    PROVE  WalkedOn(Browse!At.own, current.base, Browse!Saw(current))
<1> SUFFICES ASSUME NEW w \in Browse!Wordings(body)
             PROVE  <<w, <<Browse!At.own, base[current.base]>>>> \in Browse!Saw(current)
  BY DEF WalkedOn
<1>1. PICK item \in Browse!Wanted(body) : w = Browse!Wording(body, item)
  BY DEF Browse!Wordings
<1> DEFINE passed == {k \in DOMAIN current.explorer : \E line \in current.explorer[k].lines : line.item = item}
<1>2. Browse!Cardinality(passed) = 1
  BY <1>1 DEF Browse!Judged, Browse!Passes
<1>3. Browse!Cardinality({}) = 0
  <2>1. Browse!Cardinality({}) = Cardinality({})
    BY DEF Cardinality, Browse!Cardinality
  <2> QED
    BY <2>1, FS_EmptySet
<1>4. PICK k \in passed : TRUE
  BY <1>2, <1>3
<1>5. PICK line \in current.explorer[k].lines : line.item = item
  BY <1>4
<1>6. line.saw = <<w, <<Browse!At.own, base[current.base]>>>>
  BY <1>1, <1>4, <1>5 DEF WalkInv, LinesAreSeen
<1> QED
  BY <1>4, <1>5, <1>6 DEF Browse!Saw

\* A run that succeeded and is kept.
LEMMA KeptIsWalked ==
    ASSUME WalkInv, UNCHANGED <<commits, base, body>>, NEW kept, past' = Append(past, kept),
           DOMAIN kept = KeptFields, kept.head = Browse!Tip, kept.base = current.base,
           ~kept.edited /\ kept.evidence /\ ~Browse!At.forged => WalkedOn(Browse!At.own, current.base, kept.saw)
    PROVE  PastOf' /\ PastIsWalked'
<1>1. IsSeq(past) /\ Len(past) \in Nat
  BY SeqDomain DEF WalkInv, PastOf
<1>2. /\ IsSeq(past') /\ Len(past') = Len(past) + 1
      /\ \A i \in 1..Len(past) : past'[i] = past[i]
      /\ past'[Len(past) + 1] = kept
  BY <1>1, Appended
<1>3. \A i \in 1..Len(past') : i \in 1..Len(past) \/ i = Len(past) + 1
  BY <1>1, <1>2
<1>4. Browse!Tip \in 1..Len(commits) /\ commits[Browse!Tip] = Browse!At
  <2>1. Len(commits) \in Nat /\ Len(commits) >= 1
    BY SeqDomain DEF WalkInv, Branch
  <2> QED
    BY <2>1 DEF Browse!Tip, Browse!At
<1>5. PastOf'
  BY <1>2, <1>3, <1>4 DEF WalkInv, PastOf, RunOf
<1>6. PastIsWalked'
  <2> SUFFICES ASSUME NEW i \in 1..Len(past'),
                      ~past'[i].edited /\ past'[i].evidence /\ ~commits[past'[i].head].forged
               PROVE  WalkedOn(commits[past'[i].head].own, past'[i].base, past'[i].saw)
    BY DEF PastIsWalked, WalkedOn
  <2>1. CASE i \in 1..Len(past)
    BY <1>2, <2>1 DEF WalkInv, PastIsWalked
  <2>2. CASE i = Len(past) + 1
    BY <1>2, <1>4, <2>2
  <2> QED
    BY <1>3, <2>1, <2>2
<1> QED
  BY <1>5, <1>6

\* A run concludes: a walk that succeeded is kept, with what its explorers saw.
LEMMA ConcludesKeeps ==
    ASSUME WalkInv, UNCHANGED <<commits, base, body>>, NEW said, NEW why, Browse!Concludes(said, why),
           ~current.edited /\ why = "walked" => WalkedOn(Browse!At.own, current.base, Browse!Saw(current)),
           ~current.edited /\ why = "carried" => current.carry # Browse!NoCarry,
           ~current.edited /\ said = "green" /\ Browse!explore_result(current) = "success"
             => WalkedOn(Browse!At.own, current.base, Browse!Saw(current))
    PROVE  WalkInv'
<1> DEFINE run == [current EXCEPT !.stage = "done", !.verdict = said, !.why = why, !.body = body]
           kept == [head |-> Browse!Tip, base |-> run.base, evidence |-> Browse!explore_result(run) = "success",
                    edited |-> run.edited, saw |-> Browse!Saw(run)]
<1>1. /\ current' = run
      /\ past' = IF said = "green" /\ Browse!explore_result(run) # "failure" THEN Append(past, kept) ELSE past
  BY DEF Browse!Concludes
<1>2. /\ DOMAIN run = RunFields /\ run.base = current.base /\ run.explorer = current.explorer
      /\ run.edited = current.edited /\ run.carry = current.carry /\ run.text = current.text
      /\ run.why = why /\ run.body = body
  BY DEF WalkInv, RunOf, RunFields
<1>3. /\ DOMAIN kept = KeptFields /\ kept.head = Browse!Tip /\ kept.base = run.base /\ kept.edited = run.edited
      /\ kept.evidence = (Browse!explore_result(run) = "success") /\ kept.saw = Browse!Saw(run)
  BY DEF KeptFields
<1> HIDE DEF run, kept
<1>4. Browse!explore_result(run) = Browse!explore_result(current) /\ Browse!Saw(run) = Browse!Saw(current)
  BY <1>2 DEF Browse!explore_result, Browse!Saw
<1>5. Browse!At' = Browse!At
  BY DEF Browse!At, Browse!Tip
<1>6. Branch' /\ RunOf'
  BY <1>1, <1>2, <1>5 DEF WalkInv, Branch, RunOf
<1>7. PastOf' /\ PastIsWalked' /\ Len(past') \in Nat /\ Len(past') >= Len(past)
      /\ \A i \in 1..Len(past) : past'[i] = past[i]
  <2>1. IsSeq(past) /\ Len(past) \in Nat
    BY SeqDomain DEF WalkInv, PastOf
  <2>2. CASE past' = past
    BY <2>1, <2>2 DEF WalkInv, PastOf, PastIsWalked, WalkedOn
  <2>3. CASE said = "green" /\ past' = Append(past, kept)
    <3>1. ~kept.edited /\ kept.evidence /\ ~Browse!At.forged => WalkedOn(Browse!At.own, current.base, kept.saw)
      BY <1>2, <1>3, <1>4, <2>3
    <3>2. PastOf' /\ PastIsWalked'
      BY <1>2, <1>3, <2>3, <3>1, KeptIsWalked
    <3> QED
      BY <2>1, <2>3, <3>2, Appended
  <2> QED
    BY <1>1, <2>2, <2>3
<1>8. LinesAreSeen'
  BY <1>1, <1>2, <1>5 DEF WalkInv, LinesAreSeen
<1>9. CarriedLooksSame'
  <2> SUFFICES ASSUME current.carry # Browse!NoCarry PROVE CarriedLooksSame'
    BY <1>1, <1>2 DEF CarriedLooksSame
  <2>1. current.carry \in 1..Len(past) /\ current.carry \in 1..Len(past')
    <3>1. IsSeq(past) /\ current.carry \in 1..Len(past)
      BY DEF WalkInv, PastOf, CarriedLooksSame
    <3>2. Len(past) \in Nat
      BY <3>1, SeqDomain
    <3> QED
      BY <1>7, <3>1, <3>2
  <2>2. past'[current.carry] = past[current.carry]
    BY <1>7, <2>1
  <2> QED
    BY <1>1, <1>2, <1>5, <2>1, <2>2 DEF WalkInv, CarriedLooksSame
<1>10. WalkIsRequired'
  BY <1>1, <1>2, <1>5 DEF WalkInv, WalkIsRequired, Browse!not_required, Browse!Exempt, Browse!Unrendered, Browse!Tip
<1>11. GreenSays'
  BY <1>1, <1>2, <1>4, <1>5 DEF GreenSays, WalkedOn
<1> QED
  BY <1>6, <1>7, <1>8, <1>9, <1>10, <1>11 DEF WalkInv

\* Explorers that succeeded are some, and none of them stopped at a limit.
LEMMA SuccessIsWalked ==
    ASSUME WalkInv, Browse!explore_result(current) = "success"
    PROVE  DOMAIN current.explorer # {} /\ ~Browse!explorer_limits(current)
<1>1. current.explorer # <<>> /\ \A k \in DOMAIN current.explorer : current.explorer[k].result = "success"
  BY DEF Browse!explore_result
<1>2. DOMAIN current.explorer # {}
  <2>1. current.explorer = [k \in DOMAIN current.explorer |-> current.explorer[k]]
    BY DEF WalkInv, RunOf
  <2>2. DOMAIN current.explorer = {} => current.explorer = <<>>
    <3> DEFINE f == current.explorer
    <3> SUFFICES ASSUME DOMAIN f = {} PROVE f = <<>>
      OBVIOUS
    <3>1. f = [k \in {} |-> f[k]]
      BY <2>1
    <3>2. <<>> = [k \in {} |-> f[k]]
      BY SMT
    <3> HIDE DEF f
    <3> QED
      BY <3>1, <3>2
  <2> QED
    BY <1>1, <2>2
<1> QED
  BY <1>1, <1>2 DEF Browse!explorer_limits

LEMMA VerifyKeeps == ASSUME WalkInv, Browse!Verify PROVE WalkInv'
<1>1. PICK limited \in {FALSE, Browse!explorer_limits(current)} :
        CASE Browse!not_required(body, current.carry, current.text) ->
               Browse!Concludes("green", IF Browse!Declared(body) \/ Browse!Exempt(body) THEN "declared" ELSE "carried")
          [] ~Browse!not_required(body, current.carry, current.text) /\ limited -> Browse!Concludes("green", "limited")
          [] OTHER -> IF Browse!Judged(current, body) THEN Browse!Concludes("green", "walked") ELSE Browse!Concludes("red", "")
  BY DEF Browse!Verify
<1>2. UNCHANGED <<commits, base, body>>
  BY DEF Browse!Verify
<1>3. CASE Browse!not_required(body, current.carry, current.text)
  <2> DEFINE why == IF Browse!Declared(body) \/ Browse!Exempt(body) THEN "declared" ELSE "carried"
  <2>1. Browse!Concludes("green", why)
    BY <1>1, <1>3
  <2>2. why # "walked" /\ (why = "carried" => current.carry # Browse!NoCarry)
    BY <1>3 DEF Browse!not_required
  <2>3. ~current.edited => Browse!explore_result(current) # "success"
    BY <1>3, SuccessIsWalked DEF WalkInv, WalkIsRequired
  <2> HIDE DEF why
  <2> QED
    BY <1>2, <2>1, <2>2, <2>3, ConcludesKeeps
<1>4. CASE ~Browse!not_required(body, current.carry, current.text) /\ limited
  <2>1. Browse!Concludes("green", "limited")
    BY <1>1, <1>4
  <2>2. Browse!explore_result(current) # "success"
    BY <1>4, SuccessIsWalked
  <2> QED
    BY <1>2, <2>1, <2>2, ConcludesKeeps
<1>5. CASE ~Browse!not_required(body, current.carry, current.text) /\ ~limited
  <2>1. IF Browse!Judged(current, body) THEN Browse!Concludes("green", "walked") ELSE Browse!Concludes("red", "")
    BY <1>1, <1>5
  <2>2. CASE Browse!Judged(current, body)
    BY <1>2, <2>1, <2>2, JudgedIsWalked, ConcludesKeeps
  <2>3. CASE ~Browse!Judged(current, body)
    BY <1>2, <2>1, <2>3, ConcludesKeeps
  <2> QED
    BY <2>2, <2>3
<1> QED
  BY <1>3, <1>4, <1>5

\* A workflow the branch rewrote is kept as its own, whatever it left.
LEMMA ForgedKeeps == ASSUME WalkInv, Browse!Forged PROVE WalkInv'
<1>1. UNCHANGED <<commits, base, body>> /\ Browse!At.forged
      /\ current' = [current EXCEPT !.stage = "done", !.verdict = "green", !.why = "forged", !.body = body]
  BY DEF Browse!Forged
<1>2. PICK left \in BOOLEAN :
        past' = Append(past, [head |-> Browse!Tip, base |-> current.base, evidence |-> left, edited |-> current.edited,
                              saw |-> {}])
  BY DEF Browse!Forged
<1> DEFINE kept == [head |-> Browse!Tip, base |-> current.base, evidence |-> left, edited |-> current.edited, saw |-> {}]
<1>3. DOMAIN kept = KeptFields /\ kept.head = Browse!Tip /\ kept.base = current.base
  BY DEF KeptFields
<1>4. past' = Append(past, kept)
  BY <1>2
<1> HIDE DEF kept
<1>5. /\ DOMAIN current' = RunFields /\ current'.base = current.base /\ current'.explorer = current.explorer
      /\ current'.edited = current.edited /\ current'.carry = current.carry /\ current'.text = current.text
      /\ current'.why = "forged" /\ current'.body = body
  BY <1>1 DEF WalkInv, RunOf, RunFields
<1>6. PastOf' /\ PastIsWalked'
  BY <1>1, <1>3, <1>4, KeptIsWalked
<1>7. Browse!At' = Browse!At
  BY <1>1 DEF Browse!At, Browse!Tip
<1>8. Branch' /\ RunOf' /\ LinesAreSeen'
  BY <1>1, <1>5, <1>7 DEF WalkInv, Branch, RunOf, LinesAreSeen
<1>9. CarriedLooksSame'
  <2> SUFFICES ASSUME current.carry # Browse!NoCarry PROVE CarriedLooksSame'
    BY <1>5 DEF CarriedLooksSame
  <2>1. IsSeq(past) /\ current.carry \in 1..Len(past)
    BY DEF WalkInv, PastOf, CarriedLooksSame
  <2>2. Len(past) \in Nat /\ Len(past') = Len(past) + 1 /\ past'[current.carry] = past[current.carry]
    BY <1>4, <2>1, SeqDomain, Appended
  <2>3. current.carry \in 1..Len(past')
    BY <2>1, <2>2
  <2> QED
    BY <1>1, <1>5, <1>7, <2>2, <2>3 DEF WalkInv, CarriedLooksSame
<1>10. WalkIsRequired'
  BY <1>1, <1>5, <1>7 DEF WalkInv, WalkIsRequired, Browse!not_required, Browse!Exempt, Browse!Unrendered, Browse!Tip
<1>11. GreenSays'
  <2>1. current'.why # "walked" /\ current'.why # "carried"
    BY <1>5
  <2> QED
    BY <1>1, <1>5, <2>1 DEF GreenSays
<1> QED
  BY <1>6, <1>8, <1>9, <1>10, <1>11 DEF WalkInv

LEMMA WalkStands == ASSUME WalkInv, UNCHANGED walkVars PROVE WalkInv'
<1>1. UNCHANGED <<commits, base, body, current, past>> /\ Browse!At' = Browse!At
  BY DEF walkVars, Browse!At, Browse!Tip
<1>2. Branch' /\ PastOf'
  BY <1>1 DEF WalkInv, Branch, PastOf
<1>3. RunOf'
  BY <1>1 DEF WalkInv, RunOf
<1>4. PastIsWalked'
  BY <1>1 DEF WalkInv, PastIsWalked, WalkedOn
<1>5. LinesAreSeen' /\ CarriedLooksSame'
  BY <1>1 DEF WalkInv, LinesAreSeen, CarriedLooksSame
<1>6. WalkIsRequired'
  BY <1>1 DEF WalkInv, WalkIsRequired, Browse!not_required, Browse!Exempt, Browse!Unrendered, Browse!Tip
<1>7. GreenSays'
  BY <1>1 DEF WalkInv, GreenSays, WalkedOn, Browse!Saw
<1> QED
  BY <1>2, <1>3, <1>4, <1>5, <1>6, <1>7 DEF WalkInv

\* What every state of the walk keeps makes a green check true: what the run carries was of a page that looks the same.
LEMMA WalkInvShows == WalkInv => GreenIsWalked
<1> SUFFICES ASSUME WalkInv, current.stage = "done", current.why \in {"walked", "carried"}, ~current.edited,
                    current.carry # Browse!NoCarry => ~(commits[past[current.carry].head].base < past[current.carry].base),
                    NEW w \in Browse!Wordings(current.body)
             PROVE  <<w, Browse!Page(Browse!At.own, current.base)>>
                      \in Browse!Saw(current) \cup (IF current.carry = Browse!NoCarry THEN {} ELSE past[current.carry].saw)
  BY DEF GreenIsWalked, Browse!GreenIsWalked
<1>1. w \in Browse!Wordings(body)
  BY DEF WalkInv, GreenSays
<1>2. CASE current.why = "walked"
  BY <1>1, <1>2 DEF WalkInv, GreenSays, WalkedOn, Browse!Page
<1>3. CASE current.why = "carried"
  <2> DEFINE run == past[current.carry]
  <2>1. current.carry # Browse!NoCarry
    BY <1>3 DEF WalkInv, GreenSays
  <2>2. /\ current.carry \in 1..Len(past) /\ run.evidence /\ ~run.edited
        /\ ~commits[run.head].forged /\ commits[run.head].own = Browse!At.own
        /\ base[commits[run.head].base] = base[current.base]
    BY <2>1 DEF WalkInv, CarriedLooksSame
  <2>3. commits[run.head].base = run.base
    <3>1. run.base \in 1..Len(base) /\ commits[run.head].base <= run.base /\ run.head \in 1..Len(commits)
      BY <2>2 DEF WalkInv, PastOf
    <3>2. commits[run.head].base \in 1..Len(base)
      BY <3>1 DEF WalkInv, Branch
    <3>3. ~(commits[run.head].base < run.base)
      BY <2>1
    <3> HIDE DEF run
    <3> QED
      BY <3>1, <3>2, <3>3
  <2>4. WalkedOn(commits[run.head].own, run.base, run.saw)
    BY <2>2 DEF WalkInv, PastIsWalked
  <2> QED
    BY <1>1, <2>1, <2>2, <2>3, <2>4 DEF WalkedOn, Browse!Page
<1> QED
  BY <1>2, <1>3

\* A green check stands on a walk of every criterion in its words, on this page: for any bodies, tickets and shares,
\* whatever people push, merge, edit and run again while its jobs read the body each for itself.
THEOREM GreenStandsOnWalks == Browse!Spec => []GreenIsWalked
<1>1. WalkInv /\ [Browse!Next]_Browse!walkVars => WalkInv'
  <2> SUFFICES ASSUME WalkInv, [Browse!Next]_Browse!walkVars PROVE WalkInv'
    OBVIOUS
  <2>1. CASE Browse!PushPage \/ Browse!PushDocs \/ Browse!PushWorkflow \/ Browse!MergeBase \/ Browse!ForcePush
    BY <2>1, PushesKeep
  <2>2. CASE Browse!BaseMoves
    BY <2>2, BaseMovesKeeps
  <2>3. CASE Browse!Edit
    BY <2>3, EditKeeps
  <2>4. CASE Browse!Criteria
    BY <2>4, CriteriaKeeps
  <2>5. CASE Browse!Explored
    BY <2>5, ExploredKeeps
  <2>6. CASE Browse!Verify
    BY <2>6, VerifyKeeps
  <2>7. CASE Browse!Forged
    BY <2>7, ForgedKeeps
  <2>8. CASE Browse!RerunFailed
    BY <2>8, RerunFailedKeeps
  <2>9. CASE Browse!RerunAll
    BY <2>9, RerunAllKeeps
  <2>10. CASE \E k \in 1..MaxShards : Browse!Explore(k) \/ Browse!ExploreFails(k)
    BY <2>10, ExploreKeeps
  <2>11. CASE UNCHANGED Browse!walkVars \/ Browse!Settled
    <3>1. UNCHANGED walkVars
      BY <2>11 DEF Browse!Settled, Browse!walkVars, walkVars
    <3> QED
      BY <3>1, WalkStands
  <2> QED
    BY <2>1, <2>2, <2>3, <2>4, <2>5, <2>6, <2>7, <2>8, <2>9, <2>10, <2>11 DEF Browse!Next
<1> QED
  BY <1>1, WalkStart, WalkInvShows, PTL DEF Browse!Spec

----------------------------------------------------------------------------
(* The run of the gates *)

TreeFields == {"manifest", "rules", "block", "checks", "own", "code", "moved", "planted"}

\* A line of the base's manifest is still to judge, or its result is among the run's.
Told(line, number) ==
  Run!Entry("base", number, line) \in course.left \/ course.results \cap {2, Run!code(line)} # {}

CourseInv ==
  /\ IsSeq(heads) /\ Len(heads) >= 1 /\ \A i \in 1..Len(heads) : Run!Lawful(heads[i])
  /\ Run!Lawful(start) /\ Run!Lawful(tip)
  /\ DOMAIN course = {"pc", "left", "results"}
  /\ course.pc = "entries" /\ fetched => \A i \in DOMAIN tip.manifest : Told(tip.manifest[i], i)

LEMMA EditedLawful == ASSUME NEW t, Run!Lawful(t), NEW e \in Run!Edited(t) PROVE Run!Lawful(e)
<1> USE DEF Run!Lawful
<1>1. CASE \E i \in 1..Len(t.manifest) : e = [t EXCEPT !.manifest = Run!RemoveAt(t.manifest, i)]
  BY <1>1
<1>2. CASE \E l \in NewLines : e = [t EXCEPT !.manifest = Append(t.manifest, l)]
  BY <1>2
<1>3. CASE \E i \in 1..Len(t.manifest) : e = [t EXCEPT !.manifest[i].args = t.manifest[i].args \cup {"soak"}]
  BY <1>3
<1>4. CASE e = [t EXCEPT !.manifest = Run!Reverse(t.manifest)]
  BY <1>4
<1>5. CASE \E p \in RulePaths, text \in Texts : e = [t EXCEPT !.rules[p] = text]
  BY <1>5
<1>6. CASE \E text \in Texts : e = [t EXCEPT !.checks = text]
  BY <1>6
<1>7. CASE \E n \in OwnNames, text \in Texts : e = [t EXCEPT !.own[n] = text]
  BY <1>7
<1>8. CASE \E p \in Paths, uses \in 0..MaxUses : e = [t EXCEPT !.code[p] = <<uses>>]
  BY <1>8, TreesAssumption
<1>9. CASE e = [t EXCEPT !.block = t.rules]
  BY <1>9
<1>10. CASE e = [t EXCEPT !.planted = TRUE]
  BY <1>10
<1> QED
  BY <1>1, <1>2, <1>3, <1>4, <1>5, <1>6, <1>7, <1>8, <1>9, <1>10 DEF Run!Edited

LEMMA MovedLawful == ASSUME NEW t, Run!Lawful(t), NEW e \in Run!Moved(t) PROVE Run!Lawful(e)
<1>1. PICK to \in Paths \X Paths :
        e = [t EXCEPT !.code = [t.code EXCEPT ![to[2]] = t.code[to[1]], ![to[1]] = <<>>],
                      !.moved = [t.moved EXCEPT ![to[2]] = t.moved[to[1]]]]
  BY DEF Run!Moved
<1>2. to[1] \in Paths /\ to[2] \in Paths
  OBVIOUS
<1> DEFINE shifted == [t.code EXCEPT ![to[2]] = t.code[to[1]], ![to[1]] = <<>>]
           moved == [t.moved EXCEPT ![to[2]] = t.moved[to[1]]]
<1>3. DOMAIN shifted = Paths /\ moved \in [Paths -> Paths]
  BY <1>2 DEF Run!Lawful
<1>4. \A p \in Paths : shifted[p] # <<>> => shifted[p][1] \in Nat
  BY <1>2 DEF Run!Lawful
<1>5. e = [t EXCEPT !.code = shifted, !.moved = moved]
  BY <1>1
<1> HIDE DEF shifted, moved
<1>6. DOMAIN e = TreeFields /\ e.code = shifted /\ e.moved = moved
  BY <1>5 DEF Run!Lawful, TreeFields
<1> QED
  BY <1>3, <1>4, <1>6 DEF Run!Lawful, TreeFields

LEMMA CourseStart == Run!Init => CourseInv
<1> SUFFICES ASSUME Run!Init PROVE CourseInv
  OBVIOUS
<1>1. start \in Starts /\ tip = start /\ heads = <<start>> /\ course = Run!Idle
  BY DEF Run!Init
<1>2. heads \in Seq({start})
  BY <1>1
<1>3. DOMAIN course = {"pc", "left", "results"} /\ course.pc # "entries"
  BY <1>1 DEF Run!Idle
<1> QED
  BY <1>1, <1>2, <1>3, TreesAssumption DEF CourseInv, IsSeq

LEMMA CommitKeeps == ASSUME CourseInv, Run!Commit PROVE CourseInv'
<1>1. /\ course = Run!Idle /\ UNCHANGED <<start, tip, course, fetched>>
      /\ \E t \in Run!Edited(Run!Top) \cup Run!Moved(Run!Top) : heads' = Append(heads, t)
  BY DEF Run!Commit
<1>2. PICK t \in Run!Edited(Run!Top) \cup Run!Moved(Run!Top) : heads' = Append(heads, t)
  BY <1>1
<1>3. IsSeq(heads) /\ Len(heads) \in Nat /\ Len(heads) >= 1
  BY SeqDomain DEF CourseInv
<1>4. Run!Lawful(Run!Top)
  BY <1>3 DEF CourseInv, Run!Top, Run!Last
<1>5. Run!Lawful(t)
  BY <1>2, <1>4, EditedLawful, MovedLawful
<1>6. /\ IsSeq(heads') /\ Len(heads') = Len(heads) + 1
      /\ \A i \in 1..Len(heads) : heads'[i] = heads[i]
      /\ heads'[Len(heads) + 1] = t
  BY <1>2, <1>3, Appended
<1>7. \A i \in 1..Len(heads') : i \in 1..Len(heads) \/ i = Len(heads) + 1
  BY <1>3, <1>6
<1>8. \A i \in 1..Len(heads') : Run!Lawful(heads'[i])
  BY <1>5, <1>6, <1>7 DEF CourseInv
<1>9. course.pc # "entries"
  BY <1>1 DEF Run!Idle
<1> QED
  BY <1>1, <1>3, <1>6, <1>8, <1>9 DEF CourseInv, Run!Lawful

LEMMA TipMovesKeeps == ASSUME CourseInv, Run!BaseMoves PROVE CourseInv'
<1>1. /\ course = Run!Idle /\ UNCHANGED <<start, heads, course, fetched>> /\ tip' \in Run!Edited(tip)
  BY DEF Run!BaseMoves
<1>2. Run!Lawful(tip')
  BY <1>1, EditedLawful DEF CourseInv
<1>3. course.pc # "entries"
  BY <1>1 DEF Run!Idle
<1> QED
  BY <1>1, <1>2, <1>3 DEF CourseInv, Run!Lawful

LEMMA BeginKeeps == ASSUME CourseInv, Run!Begin PROVE CourseInv'
<1>1. UNCHANGED <<start, tip, heads, fetched>> /\ course = Run!Idle
      /\ course' = [Run!Idle EXCEPT !.pc = "entries", !.left = Run!judged_entries(Run!Top.manifest, Run!base_manifest)]
  BY DEF Run!Begin
<1> DEFINE entries == Run!judged_entries(Run!Top.manifest, Run!base_manifest)
<1>2. fetched => Run!base_manifest = tip.manifest
  BY DEF Run!base_manifest, Run!Resolves, Run!resolve_base
<1>3. Run!Entries("base", Run!base_manifest, DOMAIN Run!base_manifest) \subseteq entries
  BY DEF Run!judged_entries
<1> HIDE DEF entries
<1>4. DOMAIN course' = {"pc", "left", "results"} /\ course'.pc = "entries" /\ course'.left = entries
  BY <1>1 DEF Run!Idle, entries
<1>5. fetched => \A i \in DOMAIN tip.manifest : Run!Entry("base", i, tip.manifest[i]) \in entries
  BY <1>2, <1>3 DEF Run!Entries
<1>6. fetched' => \A i \in DOMAIN tip'.manifest : Told(tip.manifest[i], i)'
  BY <1>1, <1>4, <1>5 DEF Told, Run!Entry
<1> QED
  BY <1>1, <1>4, <1>6 DEF CourseInv, Run!Lawful

\* What a line comes to depends on the trees alone.
LEMMA CodeStays ==
    ASSUME UNCHANGED <<start, tip, heads, explicit, fetched, evidence>>
    PROVE  \A line : Run!code(line)' = Run!code(line)
<1>1. Run!Top' = Run!Top /\ Run!Resolves' = Run!Resolves /\ Run!resolve_base' = Run!resolve_base
  BY DEF Run!Top, Run!Last, Run!Resolves, Run!resolve_base
<1>2. Run!merge_base' = Run!merge_base /\ Run!tracked' = Run!tracked
  BY <1>1 DEF Run!merge_base, Run!tracked
<1>3. \A p : Run!renamed(p)' = Run!renamed(p)
  BY <1>1 DEF Run!renamed
<1>4. Run!Rose' = Run!Rose /\ Run!Hits' = Run!Hits
  BY <1>1, <1>2, <1>3 DEF Run!Rose, Run!Hits, Run!Uses
<1>5. Run!repository_files' = Run!repository_files
  BY <1>1 DEF Run!repository_files
<1>6. Run!repository_names' = Run!repository_names
  BY <1>5 DEF Run!repository_names
<1>7. Run!conflicts' = Run!conflicts
  BY <1>5, <1>6 DEF Run!conflicts
<1>8. \A args : Run!judged_files(args)' = Run!judged_files(args)
  BY <1>1, <1>2 DEF Run!judged_files
<1>9. \A args : Run!repo_rules(args)' = Run!repo_rules(args)
  BY <1>1, <1>4, <1>8 DEF Run!repo_rules, Run!stale_doc
<1>10. Run!universal_checks' = Run!universal_checks /\ Run!qae_artifacts' = Run!qae_artifacts
  BY <1>1, <1>2, <1>4 DEF Run!universal_checks, Run!qae_artifacts
<1>11. \A gate, args : Run!descriptor_gate(gate, args)' = Run!descriptor_gate(gate, args)
  BY <1>1, <1>4, <1>5, <1>6, <1>7 DEF Run!descriptor_gate
<1>12. \A gate, args : Run!check(gate, args)' = Run!check(gate, args)
  BY <1>9, <1>10, <1>11 DEF Run!check
<1>13. \A gate, args : Run!run_gate(gate, args)' = Run!run_gate(gate, args)
  BY <1>12 DEF Run!run_gate
<1> QED
  BY <1>6, <1>13 DEF Run!code, Run!known, Run!shadowed

LEMMA EntryKeeps == ASSUME CourseInv, Run!run_entry PROVE CourseInv'
<1>1. UNCHANGED <<start, tip, heads, explicit, fetched, evidence>> /\ course.pc = "entries"
  BY DEF Run!run_entry
<1>2. PICK entry \in course.left : \E got \in {Run!code(entry.line), 2} :
        course' = [course EXCEPT !.left = course.left \ {entry}, !.results = course.results \cup {got}]
  BY DEF Run!run_entry
<1>3. PICK got \in {Run!code(entry.line), 2} :
        course' = [course EXCEPT !.left = course.left \ {entry}, !.results = course.results \cup {got}]
  BY <1>2
<1>4. /\ DOMAIN course' = {"pc", "left", "results"} /\ course'.pc = "entries"
      /\ course'.left = course.left \ {entry} /\ course'.results = course.results \cup {got}
  BY <1>1, <1>3 DEF CourseInv
<1>5. ASSUME fetched, NEW i \in DOMAIN tip.manifest
      PROVE  \/ Run!Entry("base", i, tip.manifest[i]) \in course'.left
             \/ course'.results \cap {2, Run!code(tip.manifest[i])} # {}
  <2>1. Told(tip.manifest[i], i)
    BY <1>1, <1>5 DEF CourseInv
  <2>2. CASE entry = Run!Entry("base", i, tip.manifest[i])
    <3>1. entry.line = tip.manifest[i]
      BY <2>2 DEF Run!Entry
    <3> QED
      BY <1>2, <1>4, <3>1
  <2> QED
    BY <1>4, <2>1, <2>2 DEF Told
<1>6. \A line : Run!code(line)' = Run!code(line)
  BY <1>1, CodeStays
<1>7. fetched' => \A i \in DOMAIN tip'.manifest : Told(tip.manifest[i], i)'
  BY <1>1, <1>5, <1>6 DEF Told, Run!Entry
<1> QED
  BY <1>1, <1>4, <1>7 DEF CourseInv, Run!Lawful

\* A line whose result blocks nothing found nothing, and could look.
LEMMA PassedLine ==
    ASSUME NEW line, Run!code(line) \notin {1, 2}, "soak" \notin line.args
    PROVE  /\ line.gate \in Run!known /\ line.gate \notin Run!shadowed
           /\ Run!check(line.gate, line.args).can /\ Run!check(line.gate, line.args).findings = {}
<1>1. line.gate \in Run!known /\ line.gate \notin Run!shadowed /\ Run!run_gate(line.gate, line.args) \notin {1, 2}
  BY DEF Run!code
<1> QED
  BY <1>1 DEF Run!run_gate, Run!exits

\* No file has more uses than it had: neither where they rose is empty, nor where there are any.
LEMMA CountedUses ==
    ASSUME CourseInv, fetched, Run!Rose = {} \/ Run!Hits = {}
    PROVE  Run!NoNewUse
<1> SUFFICES ASSUME NEW p \in Run!tracked PROVE Run!Uses(Run!Top, p) <= Run!Uses(start, Run!Top.moved[p])
  BY DEF Run!NoNewUse
<1>1. Run!Lawful(Run!Top) /\ Run!Lawful(start)
  BY SeqDomain DEF CourseInv, Run!Top, Run!Last
<1>2. p \in Paths /\ Run!Top.moved[p] \in Paths
  BY <1>1 DEF Run!tracked, Run!Lawful
<1>3. Run!Uses(Run!Top, p) \in Nat /\ Run!Uses(start, Run!Top.moved[p]) \in Nat
  BY <1>1, <1>2 DEF Run!Uses, Run!Lawful
<1>4. Run!merge_base = start /\ Run!renamed(p) = Run!Top.moved[p]
  BY DEF Run!merge_base, Run!renamed
<1>5. CASE Run!Rose = {}
  <2>1. ~(Run!Uses(Run!Top, p) > Run!Uses(start, Run!Top.moved[p]))
    BY <1>4, <1>5 DEF Run!Rose
  <2> QED
    BY <1>3, <2>1
<1>6. CASE Run!Hits = {}
  <2>1. ~(Run!Uses(Run!Top, p) > 0)
    BY <1>6 DEF Run!Hits
  <2> QED
    BY <1>3, <2>1
<1> QED
  BY <1>5, <1>6

\* A line that passes stands: its gate looked with what the base has.
LEMMA PassedStands ==
    ASSUME CourseInv, fetched, NEW line, Run!code(line) \notin {1, 2}, "soak" \notin line.args
    PROVE  Run!Stands(line)
<1>1. /\ line.gate \in Run!known /\ line.gate \notin Run!shadowed
      /\ Run!check(line.gate, line.args).can /\ Run!check(line.gate, line.args).findings = {}
  BY PassedLine
<1>2. Run!Resolves /\ Run!resolve_base = tip /\ Run!merge_base = start
  BY DEF Run!Resolves, Run!resolve_base, Run!merge_base
<1>3. CASE line.gate = "repo-rules"
  <2> SUFFICES ASSUME "all" \notin line.args, NEW p \in RulePaths, tip.rules[p] = "strict" PROVE Run!NoNewUse
    BY <1>3 DEF Run!Stands
  <2>1. Run!judged_files(line.args)[p] = "strict"
    BY <1>2 DEF Run!judged_files
  <2>2. Run!check(line.gate, line.args) = Run!repo_rules(line.args)
    BY <1>3 DEF Run!check
  <2>3. Run!Rose = {}
    BY <1>1, <2>1, <2>2 DEF Run!repo_rules, Run!Outcome, Run!CannotRun
  <2> QED
    BY <2>3, CountedUses
<1>4. CASE line.gate = "universal-checks"
  <2> SUFFICES ASSUME start.checks = "strict", NEW p \in Run!tracked PROVE Run!Uses(Run!Top, p) = 0
    BY <1>4 DEF Run!Stands
  <2>1. Run!check(line.gate, line.args) = Run!universal_checks
    BY <1>4 DEF Run!check
  <2>2. Run!Hits = {}
    BY <1>1, <1>2, <2>1 DEF Run!universal_checks, Run!Outcome, Run!CannotRun
  <2>3. Run!Uses(Run!Top, p) \in Nat
    <3>1. Run!Lawful(Run!Top)
      BY SeqDomain DEF CourseInv, Run!Top, Run!Last
    <3> QED
      BY <3>1 DEF Run!Uses, Run!Lawful, Run!tracked
  <2>4. ~(Run!Uses(Run!Top, p) > 0)
    BY <2>2 DEF Run!Hits
  <2> QED
    BY <2>3, <2>4
<1>5. CASE line.gate = "qae-artifacts"
  <2>1. Run!check(line.gate, line.args) = Run!qae_artifacts
    BY <1>5 DEF Run!check
  <2>2. evidence /\ ~Run!Top.planted
    BY <1>1, <2>1 DEF Run!qae_artifacts, Run!Outcome
  <2> QED
    BY <1>5, <2>2 DEF Run!Stands
<1>6. CASE line.gate \notin {"repo-rules", "universal-checks", "qae-artifacts"}
  <2> SUFFICES ASSUME tip.own[line.gate] = "strict" PROVE Run!NoNewUse
    BY <1>6 DEF Run!Stands
  <2>1. Run!check(line.gate, line.args) = Run!descriptor_gate(line.gate, line.args)
    BY <1>6 DEF Run!check
  <2>2. line.gate \in OwnNames
    BY <1>1, <1>6 DEF Run!known, Run!Catalog, Run!repository_names
  <2>3. Run!repository_files[line.gate] = "strict"
    BY <1>2, <2>2 DEF Run!repository_files
  <2>4. Run!Rose = {} \/ Run!Hits = {}
    BY <1>1, <2>1, <2>3 DEF Run!descriptor_gate, Run!Outcome, Run!CannotRun
  <2> QED
    BY <2>4, CountedUses
<1> QED
  BY <1>3, <1>4, <1>5, <1>6

\* A run that passes found every blocking line of the base's manifest to hold of the head, by what the base has of manifest,
\* rules, checks and descriptors: for any trees, whatever the branch's commits do to them and however often its code moves.
THEOREM NothingIsWeakened == Run!Spec => []NothingWeakened
<1>1. CourseInv => NothingWeakened
  <2> SUFFICES ASSUME CourseInv, Run!Ended, Run!Result = 0, fetched, NEW i \in DOMAIN tip.manifest,
                      "soak" \notin tip.manifest[i].args
               PROVE  Run!Stands(tip.manifest[i])
    BY DEF NothingWeakened, Run!NothingWeakened
  <2>1. course.pc = "entries" /\ course.left = {} /\ 1 \notin course.results /\ 2 \notin course.results
    BY DEF Run!Ended, Run!Result
  <2>2. Told(tip.manifest[i], i)
    BY <2>1 DEF CourseInv
  <2>4. Run!code(tip.manifest[i]) \notin {1, 2}
    BY <2>1, <2>2 DEF Told
  <2> QED
    BY <2>4, PassedStands
<1>2. CourseInv /\ [Run!Next]_Run!gateVars => CourseInv'
  <2>1. CASE UNCHANGED Run!gateVars
    BY <2>1, CodeStays DEF Run!gateVars, CourseInv, Run!Lawful, Told, Run!Entry
  <2> QED
    BY <2>1, CommitKeeps, TipMovesKeeps, BeginKeeps, EntryKeeps DEF Run!Next
<1> QED
  BY <1>1, <1>2, CourseStart, PTL DEF Run!Spec

----------------------------------------------------------------------------
(* The mutants of a change *)

LEMMA MutantCardinality == \A S : Mutate!Cardinality(S) = Cardinality(S)
BY DEF Mutate!Cardinality, Cardinality

\* The mutants of a language a test could notice, and the results its run is to leave: of each, what the tests did on it.
Noticed(lang) == UNION {{<<f, m>> : m \in Mutate!Noticeable(f)} : f \in Mutate!Of(lang)}
Result(c) == [of |-> c[1], mutant |-> c[2], result |-> Mutate!Truth(c[1], c[2])]
Leaves(lang) == {Result(c) : c \in Noticed(lang)}

\* It finished, and what it killed no refused connection did.
Sound(lang) ==
  \A r \in Leaves(lang) : /\ r.result \in Mutate!KILLED \cup Mutate!UNDETECTED \cup Mutate!EXCLUDED
                          /\ toolbox[lang].refused => r.result \notin Mutate!KILLED

MutantInv ==
  /\ edited \in ChangeSets
  /\ now \in {"check", "script", "generate", "select", "verdict", "done"}
  /\ now \in {"check", "script"} => tried = {}
  /\ now \in {"generate", "select"} => tried = Leaves("script") /\ Sound("script")
  /\ now = "verdict" => tried = Leaves("script") \cup Leaves("python") /\ Sound("script") /\ Sound("python")
  /\ now = "done" => ScoreOfWhole

\* Where a mutant breaks its function is where mutmut says it is.
LEMMA BreaksAtPlace ==
  ASSUME NEW m, Mutate!Breaks(m)
  PROVE  Mutate!place(m) = m.line
<1> DEFINE a == Len(m.original)
           b == Len(m.copy)
           at == m.line - m.first + 1
           short == Mutate!Min({a, b})
           differ == {i \in 1..short : m.original[i] # m.copy[i]}
<1>1. a \in Nat /\ b \in Nat /\ m.first \in Nat /\ m.line \in Nat
  BY DEF Mutate!Breaks
<1>2. at \in 1..a /\ at \in 1..b
  BY DEF Mutate!Breaks
<1>3. \A i \in 1..(at - 1) : m.original[i] = m.copy[i]
  BY DEF Mutate!Breaks
<1>4. m.original[at] # m.copy[at] \/ at = a \/ at = b
  BY DEF Mutate!Breaks
<1>5. short \in {a, b} /\ short <= a /\ short <= b
  <2>1. \E x \in {a, b} : \A y \in {a, b} : x =< y
    BY <1>1
  <2> QED
    BY <2>1 DEF Mutate!Min
<1>6. Mutate!place(m) = m.first + (IF differ = {} THEN short ELSE Mutate!Min(differ)) - 1
  BY DEF Mutate!place
<1> HIDE DEF a, b, short
<1>7. CASE m.original[at] # m.copy[at]
  <2>1. at \in differ /\ \A i \in differ : at <= i
    BY <1>1, <1>2, <1>3, <1>5, <1>7
  <2>2. Mutate!Min(differ) = at
    <3> HIDE DEF differ
    <3>1. \A i \in differ : i \in Nat
      BY <1>1, <1>5 DEF differ
    <3>2. at \in Nat
      BY <1>2
    <3> HIDE DEF at
    <3>3. ASSUME NEW x \in differ, \A y \in differ : x =< y
          PROVE  x = at
      BY <2>1, <3>1, <3>2, <3>3
    <3> QED
      BY <2>1, <3>3 DEF Mutate!Min
  <2> QED
    BY <1>1, <1>6, <2>1, <2>2
<1>8. CASE m.original[at] = m.copy[at]
  <2>1. short = at
    BY <1>1, <1>2, <1>4, <1>5, <1>8
  <2>2. differ = {}
    BY <1>1, <1>2, <1>3, <1>8, <2>1
  <2> QED
    BY <1>1, <1>6, <2>1, <2>2
<1> QED
  BY <1>7, <1>8

LEMMA MutantStarts == Mutate!Init => MutantInv
BY DEF Mutate!Init, MutantInv

LEMMA NoticedIsOf ==
  ASSUME NEW lang, NEW c \in Noticed(lang)
  PROVE  /\ c = <<c[1], c[2]>> /\ c[1] \in Mutate!judged_ranges /\ c[1].lang = lang
         /\ c[2] \in c[1].mutants /\ c[2].line \in c[1].spans /\ (lang = "python" => ~c[2].decorated)
BY DEF Noticed, Mutate!Of, Mutate!Noticeable

\* Stryker is given the changed lines.
LEMMA ScriptMutants ==
  {[of |-> c[1], mutant |-> c[2], result |-> c[2].fate] : c \in Mutate!Mutants("script", LAMBDA m : m.line)} = Leaves("script")
<1> DEFINE C == Mutate!Mutants("script", LAMBDA m : m.line)
<1>1. C = UNION {{<<f, m>> : m \in {m \in f.mutants : m.line \in f.spans}} : f \in Mutate!Of("script")}
  BY DEF Mutate!Mutants
<1> HIDE DEF C
<1>2. \A f \in Mutate!Of("script") : {m \in f.mutants : m.line \in f.spans} = Mutate!Noticeable(f)
  BY DEF Mutate!Noticeable, Mutate!Of
<1>3. C = Noticed("script")
  BY <1>1, <1>2 DEF Noticed
<1>4. ASSUME NEW c \in C
      PROVE  Mutate!Truth(c[1], c[2]) = c[2].fate
  <2>1. c[1].lang = "script"
    BY <1>3, NoticedIsOf
  <2> QED
    BY <2>1 DEF Mutate!Truth
<1> QED
  BY <1>3, <1>4 DEF Leaves, Result, C

\* mutmut's are those whose place is a changed line.
LEMMA PythonMutants ==
  ASSUME Mutate!Lawful(edited)
  PROVE  Mutate!select = Noticed("python")
<1> DEFINE C == UNION {{<<f, m>> : m \in {m \in f.mutants : Mutate!place(m) \in f.spans}} : f \in Mutate!Of("python")}
<1>2. ASSUME NEW f \in Mutate!Of("python"), NEW m \in f.mutants, ~m.decorated
      PROVE  Mutate!place(m) = m.line
  <2>1. f \in edited /\ f.lang = "python"
    BY DEF Mutate!Of, Mutate!judged_ranges
  <2>2. Mutate!Breaks(m)
    BY <1>2, <2>1 DEF Mutate!Lawful
  <2> QED
    BY <2>2, BreaksAtPlace
<1>3. \A f \in Mutate!Of("python") : Mutate!Noticeable(f) = {m \in f.mutants : Mutate!place(m) \in f.spans /\ ~m.decorated}
  <2>1. \A f \in Mutate!Of("python") : f.lang = "python"
    BY DEF Mutate!Of
  <2> QED
    BY <1>2, <2>1 DEF Mutate!Noticeable
<1>4. Mutate!select = {c \in C : c[2] \in c[1].mutants /\ ~c[2].decorated}
  BY DEF Mutate!select, Mutate!functions, Mutate!Mutants
<1> HIDE DEF C
<1>5. ASSUME NEW c \in Mutate!select
      PROVE  c \in Noticed("python")
  BY <1>3, <1>4 DEF Noticed, C
<1>6. ASSUME NEW c \in Noticed("python")
      PROVE  c \in Mutate!select
  <2>1. PICK f \in Mutate!Of("python") : \E m \in Mutate!Noticeable(f) : c = <<f, m>>
    BY DEF Noticed
  <2> PICK m \in Mutate!Noticeable(f) : c = <<f, m>>
    BY <2>1
  <2>2. m \in f.mutants /\ Mutate!place(m) \in f.spans /\ ~m.decorated
    BY <1>3
  <2> QED
    BY <1>4, <2>1, <2>2 DEF C
<1> QED
  BY <1>5, <1>6

\* What a run leaves when it can go on: every result it was to leave, each known, and no kill beside a refused connection.
LEMMA ResultsAreTold ==
  ASSUME NEW lang \in {"script", "python"}, tried = (IF lang = "script" THEN {} ELSE Leaves("script")),
         Mutate!Results(lang, Leaves(lang))
  PROVE  /\ tried' = tried \cup Leaves(lang)
         /\ \/ now' = "done" /\ scored' = "cannot run"
            \/ /\ UNCHANGED scored
               /\ now' = (IF lang = "script" /\ Mutate!Of("python") # {} THEN "generate" ELSE "verdict")
               /\ Sound(lang)
<1>1. tried' = tried \cup Leaves(lang)
  BY DEF Mutate!Results
<1>2. CASE (\E r \in Leaves(lang) : r.result \notin Mutate!KILLED \cup Mutate!UNDETECTED \cup Mutate!EXCLUDED) \/ Mutate!judge(lang)
  BY <1>1, <1>2 DEF Mutate!Results, Mutate!End
<1>3. CASE ~((\E r \in Leaves(lang) : r.result \notin Mutate!KILLED \cup Mutate!UNDETECTED \cup Mutate!EXCLUDED) \/ Mutate!judge(lang))
  <2>1. UNCHANGED scored /\ now' = (IF lang = "script" /\ Mutate!Of("python") # {} THEN "generate" ELSE "verdict")
    BY <1>3 DEF Mutate!Results
  <2>2. ASSUME NEW r \in Leaves(lang)
        PROVE  /\ r.result \in Mutate!KILLED \cup Mutate!UNDETECTED \cup Mutate!EXCLUDED
               /\ toolbox[lang].refused => r.result \notin Mutate!KILLED
    <3>1. r.of.lang = lang
      BY NoticedIsOf DEF Leaves, Result
    <3>2. r \in tried'
      BY <1>1
    <3> QED
      BY <1>3, <3>1, <3>2 DEF Mutate!judge
  <2> QED
    BY <1>1, <2>1, <2>2 DEF Sound
<1> QED
  BY <1>1, <1>2, <1>3

\* What is told of the change stays so while the change and the tools do.
LEMMA TellsStay ==
  ASSUME UNCHANGED <<edited, toolbox>>
  PROVE  /\ \A lang : Leaves(lang)' = Leaves(lang) /\ (Sound(lang)' <=> Sound(lang)) /\ Mutate!Of(lang)' = Mutate!Of(lang)
         /\ \A fates : Mutate!Change(fates)' = Mutate!Change(fates)
BY DEF Leaves, Sound, Noticed, Result, Mutate!Of, Mutate!judged_ranges, Mutate!Noticeable, Mutate!Truth, Mutate!Change,
       Mutate!KILLED, Mutate!UNDETECTED, Mutate!EXCLUDED

\* What of the change had a fate a verdict counts.
LEMMA ChangeIsNoticed ==
  ASSUME NEW fates, Mutate!Lawful(edited)
  PROVE  Mutate!Change(fates) = {c \in Noticed("script") \cup Noticed("python") : Mutate!Truth(c[1], c[2]) \in fates}
<1>1. \A f \in Mutate!judged_ranges : f \in Mutate!Of("script") \cup Mutate!Of("python")
  BY DEF Mutate!Lawful, Mutate!Of, Mutate!judged_ranges
<1>2. Noticed("script") \cup Noticed("python") = UNION {{<<f, m>> : m \in Mutate!Noticeable(f)} : f \in Mutate!judged_ranges}
  BY <1>1 DEF Noticed, Mutate!Of
<1>3. ASSUME NEW c \in Mutate!Change(fates)
      PROVE  c \in Noticed("script") \cup Noticed("python") /\ Mutate!Truth(c[1], c[2]) \in fates
  BY <1>2, <1>3 DEF Mutate!Change
<1>4. ASSUME NEW c \in Noticed("script") \cup Noticed("python"), Mutate!Truth(c[1], c[2]) \in fates
      PROVE  c \in Mutate!Change(fates)
  BY <1>2, <1>4 DEF Mutate!Change
<1> QED
  BY <1>3, <1>4

\* A count of results is a count of mutants.
LEMMA CountsOfWhole ==
  ASSUME NEW fates, edited \in ChangeSets, tried = Leaves("script") \cup Leaves("python")
  PROVE  /\ Mutate!Count(fates) = Cardinality(Mutate!Change(fates))
         /\ Cardinality(Mutate!Change(fates)) \in Nat
<1>1. Mutate!Lawful(edited) /\ IsFiniteSet(edited) /\ IsFiniteSet(UNION {f.mutants : f \in edited})
  BY MutantsAssumption
<1> DEFINE S == Mutate!Change(fates)
           T == {r \in tried : r.result \in fates}
           M == UNION {f.mutants : f \in edited}
           told == [c \in S |-> Result(c)]
<1>2. S = {c \in Noticed("script") \cup Noticed("python") : Mutate!Truth(c[1], c[2]) \in fates}
  BY <1>1, ChangeIsNoticed
<1>3. \A c \in S : c = <<c[1], c[2]>> /\ c[1] \in edited /\ c[2] \in c[1].mutants
  BY <1>2, NoticedIsOf DEF Mutate!judged_ranges
<1>4. IsFiniteSet(S)
  <2>1. IsFiniteSet(edited \X M)
    BY <1>1, FS_Product
  <2>2. S \subseteq edited \X M
    BY <1>3
  <2> HIDE DEF S, M
  <2> QED
    BY <2>1, <2>2, FS_Subset
<1>5. \A c \in S : Result(c) \in T
  BY <1>2 DEF Leaves, Result
<1>6. \A c, d \in S : Result(c) = Result(d) => c = d
  BY <1>3 DEF Result
<1>7. \A r \in T : \E c \in S : Result(c) = r
  BY <1>2 DEF Leaves, Result
<1> HIDE DEF S, T
<1>8. told \in Bijection(S, T)
  <2>1. told \in [S -> T] /\ \A c \in S : told[c] = Result(c)
    BY <1>5
  <2> HIDE DEF told
  <2> QED
    BY <1>6, <1>7, <2>1 DEF Bijection, Injection, Surjection, IsInjective
<1>9. Cardinality(T) = Cardinality(S) /\ Cardinality(S) \in Nat
  BY <1>4, <1>8, FS_Bijection, FS_CardinalityType DEF ExistsBijection
<1> QED
  BY <1>9, MutantCardinality DEF Mutate!Count, S, T

\* The score of every mutant: the verdict on the whole.
LEMMA ScoreIsOfWhole ==
  ASSUME edited \in ChangeSets, tried = Leaves("script") \cup Leaves("python"), Sound("script"), Sound("python"), Mutate!score
  PROVE  ScoreOfWhole'
<1> DEFINE killed == Cardinality(Mutate!Change({"killed"}))
           missed == Cardinality(Mutate!Change({"survived", "not covered"}))
<1>1. Mutate!Lawful(edited) /\ Break \in Nat
  BY MutantsAssumption
<1>2. UNCHANGED <<edited, toolbox>>
  BY DEF Mutate!score
<1>3. /\ Mutate!Count(Mutate!KILLED) = killed /\ killed \in Nat
      /\ Mutate!Count(Mutate!UNDETECTED) = missed /\ missed \in Nat
  BY CountsOfWhole DEF Mutate!KILLED, Mutate!UNDETECTED
<1> HIDE DEF killed, missed
<1>4. scored' = (IF killed + missed = 0 \/ 100 * killed >= Break * (killed + missed) THEN "passes" ELSE "fails")
  BY <1>3 DEF Mutate!score, Mutate!End
<1>5. scored' = "passes" <=> 100 * killed >= Break * (killed + missed)
  <2>1. killed + missed = 0 => 100 * killed = 0 /\ Break * (killed + missed) = 0
    BY <1>1, <1>3
  <2> QED
    BY <1>4, <2>1
<1>6. ASSUME NEW lang \in {"script", "python"}, NEW c \in Noticed(lang)
      PROVE  /\ Mutate!Truth(c[1], c[2]) \in Mutate!KILLED \cup Mutate!UNDETECTED \cup Mutate!EXCLUDED
             /\ toolbox[lang].refused => Mutate!Truth(c[1], c[2]) \notin Mutate!KILLED
  <2>1. Result(c) \in Leaves(lang) /\ Result(c).result = Mutate!Truth(c[1], c[2])
    BY DEF Leaves, Result
  <2>2. Sound(lang)
    OBVIOUS
  <2> QED
    BY <2>1, <2>2 DEF Sound
<1>7. Mutate!Change({"unfinished"}) = {}
  <2>1. "unfinished" \notin Mutate!KILLED \cup Mutate!UNDETECTED \cup Mutate!EXCLUDED
    BY DEF Mutate!KILLED, Mutate!UNDETECTED, Mutate!EXCLUDED
  <2> QED
    BY <1>1, <1>6, <2>1, ChangeIsNoticed
<1>8. ASSUME NEW lang \in {"script", "python"}, toolbox[lang].refused, NEW c \in Mutate!Change({"killed"})
      PROVE  c[1].lang # lang
  <2>1. PICK other \in {"script", "python"} : c \in Noticed(other) /\ Mutate!Truth(c[1], c[2]) = "killed"
    BY <1>1, ChangeIsNoticed
  <2>2. c[1].lang = other /\ ~toolbox[other].refused
    BY <1>6, <2>1, NoticedIsOf DEF Mutate!KILLED
  <2> QED
    BY <1>8, <2>2
<1>9. /\ Mutate!Change({"unfinished"})' = {} /\ Mutate!Change({"killed"})' = Mutate!Change({"killed"})
      /\ Mutate!Change({"survived", "not covered"})' = Mutate!Change({"survived", "not covered"})
  BY <1>2, <1>7, TellsStay
<1>10. /\ Mutate!Cardinality(Mutate!Change({"killed"})) = killed
       /\ Mutate!Cardinality(Mutate!Change({"survived", "not covered"})) = missed
  BY MutantCardinality DEF killed, missed
<1> QED
  BY <1>2, <1>5, <1>8, <1>9, <1>10 DEF ScoreOfWhole, Mutate!ScoreOfWhole

\* A change with nothing to judge passes, and has no mutant; a run that could not be made says nothing.
LEMMA NothingToBreak == edited \in ChangeSets /\ Mutate!judged_ranges = {} /\ scored = "passes" => ScoreOfWhole
<1> SUFFICES ASSUME edited \in ChangeSets, Mutate!judged_ranges = {}, scored = "passes" PROVE ScoreOfWhole
  OBVIOUS
<1>1. \A fates : Mutate!Change(fates) = {}
  BY DEF Mutate!Change
<1>2. Cardinality({}) = 0
  BY FS_EmptySet
<1>3. Mutate!Cardinality({}) = 0
  BY <1>2, MutantCardinality
<1>4. 100 * 0 >= Break * (0 + 0)
  BY MutantsAssumption
<1> QED
  BY <1>1, <1>3, <1>4 DEF ScoreOfWhole, Mutate!ScoreOfWhole

LEMMA NoVerdictScored == scored = "cannot run" => ScoreOfWhole
BY DEF ScoreOfWhole, Mutate!ScoreOfWhole

\* What ends without a verdict keeps the invariant.
LEMMA CannotScore ==
  ASSUME MutantInv, UNCHANGED edited, now' = "done", scored' = "cannot run"
  PROVE  MutantInv'
<1>1. (scored = "cannot run")'
  OBVIOUS
<1>2. ScoreOfWhole'
  BY <1>1, NoVerdictScored, PTL
<1> QED
  BY <1>2 DEF MutantInv

LEMMA MutantsChecked == ASSUME MutantInv, Mutate!check PROVE MutantInv'
<1>1. edited \in ChangeSets /\ tried = {} /\ UNCHANGED <<edited, toolbox>>
  BY DEF MutantInv, Mutate!check
<1>2. CASE Mutate!judged_ranges = {}
  <2>1. now' = "done" /\ (scored = "passes")' /\ UNCHANGED tried
    BY <1>2 DEF Mutate!check, Mutate!End
  <2>2. (edited \in ChangeSets)' /\ (Mutate!judged_ranges = {})'
    BY <1>1, <1>2 DEF Mutate!judged_ranges
  <2>3. (edited \in ChangeSets /\ Mutate!judged_ranges = {} /\ scored = "passes")'
    BY <2>1, <2>2
  <2>4. ScoreOfWhole'
    BY <2>3, NothingToBreak, PTL
  <2> QED
    BY <1>1, <2>1, <2>4 DEF MutantInv
<1>3. CASE Mutate!judged_ranges # {} /\ Mutate!Cardinality(Mutate!judged_ranges) > MaxFiles
  <2>1. now' = "done" /\ scored' = "cannot run"
    BY <1>3 DEF Mutate!check, Mutate!CannotRun, Mutate!End
  <2> QED
    BY <1>1, <2>1, CannotScore
<1>4. CASE Mutate!judged_ranges # {} /\ ~(Mutate!Cardinality(Mutate!judged_ranges) > MaxFiles)
  <2>1. now' = (IF Mutate!Of("script") # {} THEN "script" ELSE "generate") /\ UNCHANGED <<tried, scored>>
    BY <1>4 DEF Mutate!check
  <2>2. Mutate!Of("script") = {} => Leaves("script") = {} /\ Sound("script")
    BY DEF Leaves, Noticed, Sound
  <2>3. (Leaves("script") = {})' <=> Leaves("script") = {}
    BY <1>1, TellsStay
  <2>4. Sound("script")' <=> Sound("script")
    BY <1>1, TellsStay
  <2> QED
    BY <1>1, <2>1, <2>2, <2>3, <2>4 DEF MutantInv
<1> QED
  BY <1>2, <1>3, <1>4

LEMMA ScriptsRun == ASSUME MutantInv, Mutate!stryker_run PROVE MutantInv'
<1>1. edited \in ChangeSets /\ tried = {} /\ UNCHANGED <<edited, toolbox>>
  BY DEF MutantInv, Mutate!stryker_run
<1>2. \/ now' = "done" /\ scored' = "cannot run"
      \/ Mutate!Results("script", Leaves("script"))
  BY ScriptMutants DEF Mutate!stryker_run, Mutate!CannotRun, Mutate!End
<1>3. CASE now' = "done" /\ scored' = "cannot run"
  BY <1>1, <1>3, CannotScore
<1>4. CASE Mutate!Results("script", Leaves("script")) /\ ~(now' = "done" /\ scored' = "cannot run")
  <2>1. tried = (IF "script" = "script" THEN {} ELSE Leaves("script"))
    BY <1>1
  <2>2. /\ tried' = Leaves("script") /\ Sound("script")
        /\ now' = (IF Mutate!Of("python") # {} THEN "generate" ELSE "verdict")
    BY <1>1, <1>4, <2>1, ResultsAreTold
  <2>3. Mutate!Of("python") = {} => Leaves("python") = {} /\ Sound("python")
    BY DEF Leaves, Noticed, Sound
  <2>4. /\ Leaves("script")' = Leaves("script") /\ Leaves("python")' = Leaves("python")
        /\ Sound("script")' <=> Sound("script")
        /\ Sound("python")' <=> Sound("python")
    BY <1>1, TellsStay
  <2> QED
    BY <1>1, <2>2, <2>3, <2>4 DEF MutantInv
<1> QED
  BY <1>2, <1>3, <1>4

LEMMA PythonRuns == ASSUME MutantInv, Mutate!mutate PROVE MutantInv'
<1>1. edited \in ChangeSets /\ tried = Leaves("script") /\ Sound("script") /\ UNCHANGED <<edited, toolbox>>
  BY DEF MutantInv, Mutate!mutate
<1>2. Mutate!select = Noticed("python")
  BY <1>1, MutantsAssumption, PythonMutants
<1> DEFINE classify(c) ==
      [of |-> c[1], mutant |-> c[2], result |-> IF toolbox["python"].stats THEN c[2].fate ELSE "not covered"]
<1>3. \A c \in Noticed("python") : classify(c) = Result(c)
  <2>1. \A c \in Noticed("python") : c[1].lang = "python"
    BY NoticedIsOf
  <2> QED
    BY <2>1 DEF Result, Mutate!Truth
<1>4. {classify(c) : c \in Mutate!select} = Leaves("python")
  BY <1>2, <1>3 DEF Leaves
<1>5. \/ now' = "done" /\ scored' = "cannot run"
      \/ Mutate!Results("python", {classify(c) : c \in Mutate!select})
  BY DEF Mutate!mutate, Mutate!CannotRun, Mutate!End
<1> HIDE DEF classify
<1>6. CASE now' = "done" /\ scored' = "cannot run"
  BY <1>1, <1>6, CannotScore
<1>7. CASE Mutate!Results("python", Leaves("python")) /\ ~(now' = "done" /\ scored' = "cannot run")
  <2>1. tried = (IF "python" = "script" THEN {} ELSE Leaves("script"))
    BY <1>1
  <2>2. tried' = Leaves("script") \cup Leaves("python") /\ Sound("python") /\ now' = "verdict"
    BY <1>1, <1>7, <2>1, ResultsAreTold
  <2>3. /\ Leaves("script")' = Leaves("script") /\ Leaves("python")' = Leaves("python")
        /\ Sound("script")' <=> Sound("script")
        /\ Sound("python")' <=> Sound("python")
    BY <1>1, TellsStay
  <2> QED
    BY <1>1, <2>2, <2>3 DEF MutantInv
<1> QED
  BY <1>4, <1>5, <1>6, <1>7

\* A verdict of changed-code-mutation counts every mutant of every changed line, in either language, each by what the tests did
\* on it, and passes exactly when enough were noticed: for any files, mutants, tools and threshold (changed_code_mutation.py,
\* _mutation_python.py).
THEOREM ScoreStands == Mutate!Spec => []ScoreOfWhole
<1>1. Mutate!Init => MutantInv
  BY MutantStarts
<1>2. MutantInv /\ [Mutate!Next]_Mutate!mutationVars => MutantInv'
  <2> SUFFICES ASSUME MutantInv, [Mutate!Next]_Mutate!mutationVars
               PROVE  MutantInv'
    OBVIOUS
  <2>1. CASE Mutate!check
    BY <2>1, MutantsChecked
  <2>2. CASE Mutate!stryker_run
    BY <2>2, ScriptsRun
  <2>3. CASE Mutate!collect
    <3>1. now = "generate" /\ UNCHANGED <<edited, toolbox, tried>>
      BY <2>3 DEF Mutate!collect, Mutate!CannotRun
    <3>2. (now' = "done" /\ scored' = "cannot run") \/ now' = "select"
      BY <2>3 DEF Mutate!collect, Mutate!CannotRun, Mutate!End
    <3>3. CASE now' = "done" /\ scored' = "cannot run"
      BY <3>1, <3>3, CannotScore
    <3>4. CASE now' = "select"
      <4>1. Leaves("script")' = Leaves("script") /\ (Sound("script")' <=> Sound("script"))
        BY <3>1, TellsStay
      <4> QED
        BY <3>1, <3>4, <4>1 DEF MutantInv
    <3> QED
      BY <3>2, <3>3, <3>4
  <2>4. CASE Mutate!mutate
    BY <2>4, PythonRuns
  <2>5. CASE Mutate!score
    <3>1. now = "verdict" /\ UNCHANGED <<edited, toolbox, tried>> /\ now' = "done"
      BY <2>5 DEF Mutate!score, Mutate!End
    <3>2. ScoreOfWhole'
      BY <2>5, <3>1, ScoreIsOfWhole DEF MutantInv
    <3> QED
      BY <3>1, <3>2 DEF MutantInv
  <2>6. CASE Mutate!Stops
    <3>1. UNCHANGED edited /\ now' = "done" /\ scored' = "cannot run"
      BY <2>6 DEF Mutate!Stops, Mutate!CannotRun, Mutate!End
    <3> QED
      BY <3>1, CannotScore
  <2>7. CASE UNCHANGED Mutate!mutationVars
    <3>1. UNCHANGED <<edited, toolbox, now, tried, scored>>
      BY <2>7 DEF Mutate!mutationVars
    <3>2. /\ Leaves("script")' = Leaves("script") /\ Leaves("python")' = Leaves("python")
          /\ Sound("script")' <=> Sound("script")
          /\ Sound("python")' <=> Sound("python")
      BY <3>1, TellsStay
    <3>3. ScoreOfWhole' <=> ScoreOfWhole
      BY <3>1 DEF ScoreOfWhole, Mutate!ScoreOfWhole, Mutate!Change, Mutate!judged_ranges, Mutate!Noticeable, Mutate!Truth
    <3> QED
      BY <3>1, <3>2, <3>3 DEF MutantInv
  <2> QED
    BY <2>1, <2>2, <2>3, <2>4, <2>5, <2>6, <2>7 DEF Mutate!Next
<1>3. MutantInv => ScoreOfWhole
  <2>1. now # "done" => ScoreOfWhole
    BY DEF ScoreOfWhole, Mutate!ScoreOfWhole
  <2> QED
    BY <2>1 DEF MutantInv
<1> QED
  BY <1>1, <1>2, <1>3, PTL DEF Mutate!Spec

----------------------------------------------------------------------------
(* The feature map *)

\* While nobody judged, nothing is said.
MapInv == ReWalkStands /\ (rewalk.verdict = "" => drift = "")

LEMMA MapQuiet == rewalk.verdict = "" /\ drift = "" => MapInv
BY DEF MapInv, ReWalkStands, Map!ReWalkStands

LEMMA MapStarts == Map!Init => MapInv
<1> SUFFICES ASSUME Map!Init PROVE MapInv
  OBVIOUS
<1>1. rewalk.verdict = "" /\ drift = ""
  BY DEF Map!Init
<1> QED
  BY <1>1, MapQuiet

\* Nothing moves once the gates judged.
LEMMA OpenBefore == Map!Next => rewalk.verdict = ""
BY DEF Map!Next, Map!Change, Map!Declare, Map!RemoveTest, Map!Write, Map!BaseWrites, Map!TakeBase, Map!CrissCross, Map!Pushes,
       Map!EditBody, Map!Moves, Map!Explore, Map!Judge

\* What the base's own pages select is selected, when no new page lists a changed file.
LEMMA DueIsSelected ==
  ASSUME deep, \A id \in Map!Added : map[id].sources \intersect code.changed = {}
  PROVE  Map!Due \subseteq Map!select
<1>1. \A id \in Map!Kept : Map!Speaks(id) = onBase[id]
  BY DEF Map!Kept, Map!Speaks, Map!base_map, Map!feature_paths
<1>2. \A id \in Map!Added : Map!Speaks(id) = map[id]
  BY DEF Map!Added, Map!Speaks, Map!base_map, Map!feature_paths
<1>3. Map!feature_paths(map) = Map!Kept \cup Map!Added
  BY DEF Map!Kept, Map!Added
<1>4. ASSUME NEW file \in code.changed
      PROVE  Map!listers(file) = {id \in Map!Kept : file \in onBase[id].sources}
  BY <1>1, <1>2, <1>3 DEF Map!listers
<1>5. ASSUME NEW file \in code.changed
      PROVE  file \in Map!shared <=> Map!Cardinality({id \in Map!Kept : file \in onBase[id].sources}) > SharedOver
  BY <1>4 DEF Map!shared
<1> DEFINE few(file) == Map!Cardinality({id \in Map!Kept : file \in onBase[id].sources})
<1>6. ASSUME NEW id \in Map!Kept
      PROVE  Map!owned(id) = {file \in code.changed : ~(few(file) > SharedOver) /\ file \in onBase[id].sources}
  BY <1>4, <1>5 DEF Map!owned
<1>7. ASSUME NEW id \in Map!Added
      PROVE  Map!owned(id) = {}
  BY <1>4 DEF Map!owned, Map!Added, Map!Kept
<1>8. ASSUME NEW id \in Map!Kept
      PROVE  Map!owned(id) = Map!Touched(id)
  BY <1>6 DEF Map!Touched
<1>9. Map!Walkable = Map!ranked
  <2>1. \A id \in Map!ranked : id \in Map!Kept
    BY <1>3, <1>7 DEF Map!ranked
  <2>2. \A id \in Map!Kept : id \in Map!feature_paths(map) /\ Map!Speaks(id) = onBase[id] /\ Map!owned(id) = Map!Touched(id)
    BY <1>1, <1>3, <1>8
  <2> QED
    BY <2>1, <2>2 DEF Map!ranked, Map!Walkable
<1>10. ASSUME NEW id \in Map!Walkable, NEW other \in Map!Walkable
       PROVE  Map!First(other, id) <=> Map!Before(other, id)
  BY <1>8 DEF Map!First, Map!Before, Map!Walkable
<1>11. ASSUME NEW id \in Map!Walkable
       PROVE  {other \in Map!Walkable : Map!First(other, id)} = {other \in Map!ranked : Map!Before(other, id)}
  BY <1>9, <1>10
<1> QED
  BY <1>9, <1>11 DEF Map!Due, Map!select

\* A PASS line, or a failure the base has too, over a walked step.
LEMMA WalkedIsOnRecord ==
  ASSUME NEW id \in Map!select, Map!regression_findings = {}
  PROVE  Map!OnRecord(id)
BY DEF Map!regression_findings, Map!regression_finding, Map!known_on_main, Map!walked_steps, Map!OnRecord

\* A page the branch's side of the merge replaced was the base's own at the merge base.
LEMMA ChangedIsNoted ==
  ASSUME NEW id \in Map!select, NEW point \in points, onBase[id] # <<>>, map[id].steps # onBase[id].steps,
         Map!select \subseteq Ids, Map!Merged(onBase, map, point)[id] # onBase[id]
  PROVE  id \in Map!verify_edits(point)
<1>1. point[id] = onBase[id]
  BY DEF Map!Merged
<1> QED
  BY <1>1 DEF Map!verify_edits

\* A base that has a map keeps it when the head has none and none of the merge bases had one.
LEMMA PredatesKeepsMap ==
  ASSUME Map!missing_map = "predates", NEW point \in points
  PROVE  Map!Merged(onBase, map, point) # Map!NoMap
<1>1. PICK id \in Ids : onBase[id] # <<>>
  BY DEF Map!missing_map, Map!feature_paths
<1>2. point[id] = <<>>
  BY DEF Map!missing_map, Map!feature_paths
<1>3. Map!Merged(onBase, map, point)[id] = onBase[id] /\ Map!NoMap[id] = <<>>
  BY <1>1, <1>2 DEF Map!Merged, Map!NoMap
<1> QED
  BY <1>1, <1>3

\* What is said of the maps and the walk is said of them again while they stay.
LEMMA MapStays ==
  ASSUME UNCHANGED <<map, onBase, points, code, deep, asked, moves, walked>>
  PROVE  /\ Map!Added' = Map!Added /\ Map!Due' = Map!Due /\ Map!select' = Map!select
         /\ Map!feature_paths(map)' = Map!feature_paths(map) /\ Map!NoMap' = Map!NoMap
         /\ \A id \in Map!Due : Map!OnRecord(id)' <=> Map!OnRecord(id)
         /\ \A p \in points : Map!Merged(onBase, map, p)' = Map!Merged(onBase, map, p)
<1>1. /\ Map!Added' = Map!Added /\ Map!Due' = Map!Due /\ Map!select' = Map!select
      /\ Map!feature_paths(map)' = Map!feature_paths(map) /\ Map!NoMap' = Map!NoMap
  BY DEF Map!Added, Map!Due, Map!Walkable, Map!Kept, Map!Touched, Map!First, Map!select, Map!ranked, Map!Before, Map!owned,
         Map!shared, Map!listers, Map!Speaks, Map!base_map, Map!feature_paths, Map!NoMap
<1>2. \A id \in Map!Due : Map!OnRecord(id)' <=> Map!OnRecord(id)
  BY DEF Map!OnRecord, Map!Left
<1>3. \A p \in points : Map!Merged(onBase, map, p)' = Map!Merged(onBase, map, p)
  BY DEF Map!Merged
<1> QED
  BY <1>1, <1>2, <1>3

LEMMA MapJudged == ASSUME MapInv, Map!Judge PROVE MapInv'
<1>1. UNCHANGED <<map, onBase, points, code, deep, asked, moves, walked>>
  BY DEF Map!Judge
<1>2. PICK point \in points :
        rewalk' = [verdict |-> CASE ~asked -> "pass"
                                 [] asked /\ map = Map!NoMap -> Map!missing_map
                                 [] asked /\ map # Map!NoMap /\ Map!regression_findings # {} -> "red"
                                 [] OTHER -> "pass",
                   notes |-> IF asked /\ deep THEN Map!verify_edits(point) ELSE {}]
  BY DEF Map!Judge
<1>3. Map!missing_map \in {"predates", "cannot"}
  BY DEF Map!missing_map
<1>4. rewalk'.verdict \in {"predates", "cannot", "red", "pass"} /\ (asked /\ deep => rewalk'.notes = Map!verify_edits(point))
  BY <1>2, <1>3
<1>5. rewalk'.verdict = "pass" /\ asked => map # Map!NoMap /\ Map!regression_findings = {}
  BY <1>2, <1>3
<1>6. rewalk'.verdict = "predates" => Map!missing_map = "predates"
  BY <1>2, <1>3
<1>7. Map!select \subseteq Ids
  BY DEF Map!select, Map!ranked, Map!feature_paths
<1>8. ASSUME rewalk'.verdict = "pass", asked, deep,
             \A id \in Map!Added : map[id].sources \intersect code.changed = {}
      PROVE  \A id \in Map!Due : Map!OnRecord(id)
  BY <1>5, <1>8, DueIsSelected, WalkedIsOnRecord
<1>9. ASSUME rewalk'.verdict = "pass", asked, deep, NEW id \in Map!select,
             \A p \in points : Map!Merged(onBase, map, p)[id] # onBase[id] /\ onBase[id] # <<>> /\ map[id].steps # onBase[id].steps
      PROVE  id \in rewalk'.notes
  BY <1>4, <1>7, <1>9, ChangedIsNoted
<1>10. ASSUME rewalk'.verdict = "predates", NEW p \in points
       PROVE  Map!Merged(onBase, map, p) # Map!NoMap
  BY <1>6, <1>10, PredatesKeepsMap
<1>11. ASSUME drift' = "pass"
       PROVE  code.surfaces = UNION {map[id].surfaces : id \in Map!feature_paths(map)}
  <2>1. Map!feature_map = "pass"
    BY <1>11 DEF Map!Judge
  <2>2. Map!feature_paths(map) # {}
    BY <1>3, <2>1 DEF Map!feature_map
  <2>3. /\ \A id \in Map!feature_paths(map) : ~Map!surface_findings(id)
        /\ Map!extract \subseteq Map!Owned
    BY <2>1, <2>2 DEF Map!feature_map
  <2> QED
    BY <2>3 DEF Map!surface_findings, Map!extract, Map!Owned
<1>12. rewalk'.verdict # ""
  BY <1>4
<1> QED
  BY <1>1, <1>8, <1>9, <1>10, <1>11, <1>12, MapStays DEF MapInv, ReWalkStands, Map!ReWalkStands

\* When the browser check passes a pull request with a criterion a run checks, every feature the base's map selects for
\* the changed files was walked and its line stands, and no merge changes a re-walked feature's steps unsaid; the map itself
\* survives: for any maps, pages, walks, bodies and moves of either side (_features.py, feature_map.py, acceptance_verdict.py).
THEOREM ReWalksStand == Map!Spec => []ReWalkStands
<1>1. Map!Init => MapInv
  BY MapStarts
<1>2. MapInv /\ [Map!Next]_Map!featureVars => MapInv'
  <2> SUFFICES ASSUME MapInv, [Map!Next]_Map!featureVars
               PROVE  MapInv'
    OBVIOUS
  <2>1. CASE Map!Judge
    BY <2>1, MapJudged
  <2>2. CASE UNCHANGED Map!featureVars
    <3>1. UNCHANGED <<map, onBase, points, code, deep, asked, moves, walked>> /\ UNCHANGED <<drift, rewalk>>
      BY <2>2 DEF Map!featureVars
    <3> QED
      BY <3>1, MapStays DEF MapInv, ReWalkStands, Map!ReWalkStands
  <2>3. CASE Map!Next /\ ~Map!Judge
    <3>1. UNCHANGED <<drift, rewalk>> /\ rewalk.verdict = ""
      BY <2>3, OpenBefore DEF Map!Next, Map!Change, Map!Declare, Map!RemoveTest, Map!Write, Map!BaseWrites, Map!TakeBase,
         Map!CrissCross, Map!EditBody, Map!Pushes, Map!Moves, Map!Explore
    <3>2. (rewalk.verdict = "" /\ drift = "")'
      BY <3>1 DEF MapInv
    <3> QED
      BY <3>2, MapQuiet, PTL
  <2> QED
    BY <2>1, <2>2, <2>3
<1>3. MapInv => ReWalkStands
  BY DEF MapInv
<1> QED
  BY <1>1, <1>2, <1>3, PTL DEF Map!Spec
=============================================================================
