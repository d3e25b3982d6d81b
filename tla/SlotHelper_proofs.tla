------------------------- MODULE SlotHelper_proofs -------------------------
(***************************************************************************)
(* Proofs about the slot helper, for every set of instances and every bound *)
(* of the trash: its types, the Codex store's one user at a time, what a   *)
(* container starts on, and how far the trash outgrows its bound.          *)
(***************************************************************************)
EXTENDS SlotHelper, FiniteSetTheorems, TLAPS

\* A trash of n entries leaves one of the n + 1 names of an instance free.
LEMMA NewEntryFree ==
    ASSUME IsFiniteSet(trash), NEW i \in Instances
    PROVE  /\ NewEntry(i) \in {i} \X Nat
           /\ NewEntry(i) \notin trash
<1> DEFINE n == Cardinality(trash)
           names == {i} \X (0 .. n)
<1>1. n \in Nat
  BY FS_CardinalityType
<1>2. IsFiniteSet(names) /\ Cardinality(names) = n + 1
  <2>1. IsFiniteSet({i}) /\ Cardinality({i}) = 1
    BY FS_Singleton
  <2>2. IsFiniteSet(0 .. n) /\ Cardinality(0 .. n) = n + 1
    BY <1>1, FS_Interval
  <2>3. IsFiniteSet(names) /\ Cardinality(names) = 1 * (n + 1)
    <3> DEFINE S == {i}  T == 0 .. n
    <3>1. IsFiniteSet(S) /\ Cardinality(S) = 1 /\ IsFiniteSet(T) /\ Cardinality(T) = n + 1
      BY <2>1, <2>2
    <3> HIDE DEF S, T
    <3>2. IsFiniteSet(S \X T) /\ Cardinality(S \X T) = 1 * (n + 1)
      BY <3>1, FS_Product
    <3> QED BY <3>2 DEF S, T
  <2> QED
    BY <1>1, <2>3
<1>3. \E e \in names : e \notin trash
  <2> SUFFICES ASSUME names \subseteq trash PROVE FALSE
    OBVIOUS
  <2>1. Cardinality(names) <= n
    BY FS_Subset
  <2> QED
    BY <1>1, <1>2, <2>1
<1>4. NewEntry(i) \in names /\ NewEntry(i) \notin trash
  BY <1>3 DEF NewEntry
<1>5. names \subseteq {i} \X Nat
  BY <1>1
<1> QED
  BY <1>4, <1>5

\* What the assumption says of the bounds, and of the names.
LEMMA BoundTypes == TrashMax \in Nat \ {0} /\ MaxRuns \in [Instances -> Nat] /\ MaxFaults \in Nat
BY SlotHelperAssumption

\* The names of whoever takes a lock differ.
LEMMA Names == "reaper" \notin Instances /\ None \notin Instances /\ None # "reaper"
BY SlotHelperAssumption

\* A lock that is free is not held.
LEMMA LockNames == None # "slot" /\ None # "keepalive"
BY SlotHelperAssumption

------------------------------------------------------------------------------
(* The types, in parts.  A retire knows where its unit goes on.             *)

Units == {u \in [at : Steps, then : {"", "room", "copy", "clean", "codex", "end"}] :
            u.at \in RetireSteps => u.then # ""}

UnitType == unit \in [Instances -> Units]

SlotType ==
    /\ job \in [Instances -> BOOLEAN] /\ container \in [Instances -> BOOLEAN]
    /\ copy \in [Instances -> {"none", "fresh", "used"}]

RunsType == runs \in [Instances -> Nat] /\ \A i \in Instances : runs[i] <= MaxRuns[i]

PileType ==
    /\ trash \subseteq Instances \X Nat /\ stuck \subseteq trash
    /\ reap \in [by : Instances \cup {"reaper", None}, left : SUBSET trash, progressed : BOOLEAN]
    /\ reaper \in {"off", "start", "work"} /\ (reap.by = "reaper" <=> reaper = "work")

Stores == [owner : {"lane", "job"}, left : BOOLEAN, unheard : BOOLEAN]

LoginType ==
    /\ codex \in [Instances -> Stores]
    /\ lock \in [Instances -> {None, "slot", "keepalive"}]
    /\ keeper \in [store : Instances \cup {None}, runs : BOOLEAN]

CountType == faults \in 0 .. MaxFaults /\ missed \subseteq Instances

Types == UnitType /\ SlotType /\ RunsType /\ PileType /\ LoginType /\ CountType

\* The parts, with what a retire knows, give TypeOK.
LEMMA TypesImplyTypeOK == Types => TypeOK
<1> SUFFICES ASSUME Types PROVE TypeOK
  OBVIOUS
<1>1. unit \in [Instances -> [at : Steps, then : {"", "room", "copy", "clean", "codex", "end"}]]
  BY DEF Types, UnitType, Units
<1> QED
  BY <1>1 DEF Types, SlotType, RunsType, PileType, LoginType, CountType, TypeOK, Stores

\* The steps by name.
LEMMA StepNames ==
    Steps = {"ready", "room", "wait", "reaping", "recheck", "copy", "lock", "reset", "exec",
             "clean", "codex", "return", "end", "retire", "rename", "delete", "running", "down"}
BY DEF Steps, PrepareSteps, CleanupSteps, RetireSteps

\* The types hold at the start.
LEMMA InitTypes == Init => Types
<1> SUFFICES ASSUME Init PROVE Types
  OBVIOUS
<1>1. UnitType
  BY StepNames DEF Init, UnitType, Units, RetireSteps
<1>2. SlotType
  BY DEF Init, SlotType
<1>3. RunsType
  <2>1. runs = [i \in Instances |-> 0]
    BY DEF Init
  <2> QED
    BY <2>1, BoundTypes DEF RunsType
<1>4. PileType
  BY Names DEF Init, Unlocked, PileType
<1>5. LoginType
  BY DEF Init, Off, LoginType, Login, Stores
<1>6. CountType
  <2>1. faults = 0 /\ missed = {}
    BY DEF Init
  <2> QED
    BY <2>1, BoundTypes DEF CountType
<1> QED
  BY <1>1, <1>2, <1>3, <1>4, <1>5, <1>6 DEF Types

\* A helper's step, and one into a retire, lead to a step.
LEMMA StepUnit ==
    ASSUME UnitType, NEW i \in Instances, NEW from, NEW to \in Steps \ RetireSteps,
           Step(i, from, to)
    PROVE  UnitType'
BY DEF UnitType, Units, Step

\* A step into a retire leads to one that knows where it goes on.
LEMMA RetiringUnit ==
    ASSUME UnitType, NEW i \in Instances, NEW from,
           NEW next \in {"room", "copy", "clean", "codex", "end"}, Retiring(i, from, next)
    PROVE  UnitType'
<1>1. [at |-> "retire", then |-> next] \in Units
  BY StepNames DEF Units, RetireSteps
<1>2. unit' = [unit EXCEPT ![i] = [at |-> "retire", then |-> next]]
  BY DEF Retiring
<1> QED
  BY <1>1, <1>2 DEF UnitType

\* A retire goes through its own steps, and out of them to where it leads.
LEMMA RetireUnit ==
    ASSUME UnitType, NEW i \in Instances, unit[i].at \in RetireSteps
    PROVE  /\ unit[i].then \in Steps \ RetireSteps
           /\ \A at \in RetireSteps : unit' = [unit EXCEPT ![i].at = at] => UnitType'
<1>1. unit[i] \in Units
  BY DEF UnitType
<1>2. unit[i].then \in {"room", "copy", "clean", "codex", "end"}
  BY <1>1 DEF Units
<1>3. unit[i].then \in Steps \ RetireSteps
  BY <1>2, StepNames DEF RetireSteps
<1>4. \A at \in RetireSteps : [unit[i] EXCEPT !.at = at] \in Units
  BY <1>1, <1>2, StepNames DEF Units, RetireSteps
<1>5. \A at \in RetireSteps : unit' = [unit EXCEPT ![i].at = at] => UnitType'
  BY <1>4 DEF UnitType
<1> QED
  BY <1>3, <1>5

\* Every step of the system keeps the type of the units, action by action;
LEMMA UnitTypeStep == ASSUME UnitType, Next PROVE UnitType'
<1>1. ASSUME NEW i \in Instances, ListenerStarts(i) PROVE UnitType'
  BY <1>1, StepUnit, StepNames DEF ListenerStarts, RetireSteps
<1>2. ASSUME NEW i \in Instances, ChooseRetire(i) PROVE UnitType'
  BY <1>2, StepUnit, RetireUnit DEF ChooseRetire, RetireSteps, At, Step
<1>3. ASSUME NEW i \in Instances, Rename(i) PROVE UnitType'
  BY <1>3, StepUnit, RetireUnit DEF Rename, RetireSteps, At, Step
<1>4. ASSUME NEW i \in Instances, DeleteInPlace(i) PROVE UnitType'
  BY <1>4, StepUnit, RetireUnit DEF DeleteInPlace, RetireSteps, At, Step
<1>5. ASSUME NEW i \in Instances, Ready(i) PROVE UnitType'
  BY <1>5, StepUnit, StepNames, RetiringUnit DEF Ready, RetireSteps, Fails
<1>6. ASSUME NEW i \in Instances, MakeRoom(i) PROVE UnitType'
  BY <1>6, StepUnit, StepNames, RetiringUnit DEF MakeRoom, RetireSteps
<1>7. ASSUME NEW i \in Instances, LockTrash(i) PROVE UnitType'
  BY <1>7, StepUnit, StepNames DEF LockTrash, RetireSteps
<1>8. ASSUME NEW i \in Instances, RoomReaped(i) PROVE UnitType'
  BY <1>8, StepUnit, StepNames DEF RoomReaped, RetireSteps
<1>9. ASSUME NEW i \in Instances, NoneReaped(i) PROVE UnitType'
  BY <1>9, StepUnit, StepNames DEF NoneReaped, RetireSteps
<1>10. ASSUME NEW i \in Instances, Recheck(i) PROVE UnitType'
  BY <1>10, StepUnit, StepNames, RetiringUnit DEF Recheck, RetireSteps
<1>11. ASSUME NEW i \in Instances, Copy(i) PROVE UnitType'
  BY <1>11, StepUnit, StepNames, RetiringUnit DEF Copy, RetireSteps
<1>12. ASSUME NEW i \in Instances, LockCodex(i) PROVE UnitType'
  BY <1>12, StepUnit, StepNames DEF LockCodex, RetireSteps
<1>13. ASSUME NEW i \in Instances, ResetCodex(i) PROVE UnitType'
  BY <1>13, StepUnit, StepNames DEF ResetCodex, RetireSteps, Fails
<1>14. ASSUME NEW i \in Instances, Exec(i) PROVE UnitType'
  BY <1>14, StepUnit, StepNames DEF Exec, RetireSteps
<1>15. ASSUME NEW i \in Instances, RunEnds(i) PROVE UnitType'
  BY <1>15, StepUnit, StepNames DEF RunEnds, RetireSteps
<1>16. ASSUME NEW i \in Instances, Clean(i) PROVE UnitType'
  BY <1>16, RetiringUnit DEF Clean
<1>17. ASSUME NEW i \in Instances, LockForReturn(i) PROVE UnitType'
  BY <1>17, StepUnit, StepNames DEF LockForReturn, RetireSteps
<1>18. ASSUME NEW i \in Instances, ReturnCodex(i) PROVE UnitType'
  BY <1>18, StepUnit, StepNames DEF ReturnCodex, RetireSteps
<1>19. ASSUME NEW i \in Instances, End(i) PROVE UnitType'
  BY <1>19, StepUnit, StepNames DEF End, RetireSteps
<1>20. ASSUME NEW i \in Instances, Kill(i) PROVE UnitType'
  BY <1>20, StepNames DEF Kill, UnitType, Units, RetireSteps
<1>21. ASSUME UNCHANGED unit PROVE UnitType'
  BY <1>21 DEF UnitType
<1> QED
  BY <1>1, <1>2, <1>3, <1>4, <1>5, <1>6, <1>7, <1>8, <1>9, <1>10, <1>11, <1>12,
     <1>13, <1>14, <1>15, <1>16, <1>17, <1>18, <1>19, <1>20, <1>21 DEF Next,
     UnitStep, PassStep, KeeperStep, slot, pile, login, ListenerClears,
     ReaperLocks, DeleteEntry, Relist, ReaperEnds, Afresh, ReaperKilled, Timer,
     KeeperLocks, KeeperSkips, KeeperRuns, KeeperFails, KeeperReturns

\* and that of the job files, the copies and the containers;
LEMMA SlotTypeStep == ASSUME SlotType, Next PROVE SlotType'
<1>1. ASSUME NEW i \in Instances, ListenerStarts(i) PROVE SlotType'
  BY <1>1 DEF ListenerStarts, SlotType
<1>2. ASSUME NEW i \in Instances, ListenerClears(i) PROVE SlotType'
  BY <1>2 DEF ListenerClears, SlotType
<1>3. ASSUME NEW i \in Instances, Rename(i) PROVE SlotType'
  BY <1>3 DEF Rename, SlotType
<1>4. ASSUME NEW i \in Instances, DeleteInPlace(i) PROVE SlotType'
  BY <1>4 DEF DeleteInPlace, SlotType
<1>5. ASSUME NEW i \in Instances, Ready(i) PROVE SlotType'
  BY <1>5 DEF Ready, SlotType
<1>6. ASSUME NEW i \in Instances, Copy(i) PROVE SlotType'
  BY <1>6 DEF Copy, SlotType
<1>7. ASSUME NEW i \in Instances, Exec(i) PROVE SlotType'
  BY <1>7 DEF Exec, SlotType
<1>8. ASSUME NEW i \in Instances, RunEnds(i) PROVE SlotType'
  BY <1>8 DEF RunEnds, SlotType
<1>9. ASSUME NEW i \in Instances, Clean(i) PROVE SlotType'
  BY <1>9 DEF Clean, SlotType
<1>10. ASSUME NEW i \in Instances, End(i) PROVE SlotType'
  BY <1>10 DEF End, SlotType
<1>11. ASSUME NEW i \in Instances, Kill(i) PROVE SlotType'
  BY <1>11 DEF Kill, SlotType
<1>12. ASSUME UNCHANGED <<job, copy, container>> PROVE SlotType'
  BY <1>12 DEF SlotType
<1>13. ASSUME NEW i \in Instances, UnitStep(i) PROVE SlotType'
  BY <1>2, <1>3, <1>4, <1>5, <1>6, <1>7, <1>8, <1>9, <1>10, <1>11, <1>12, <1>13
     DEF UnitStep, slot, ChooseRetire, MakeRoom, LockTrash, NoneReaped, Recheck, LockCodex,
         ResetCodex, LockForReturn, ReturnCodex
<1>14. ASSUME PassStep \/ (\E i \in Instances : KeeperStep(i)) PROVE SlotType'
  BY <1>12, <1>14 DEF PassStep, KeeperStep, slot, Relist, ReaperEnds, DeleteEntry, KeeperSkips,
         KeeperRuns, KeeperFails, KeeperReturns
<1> QED
  BY <1>1, <1>2, <1>11, <1>12, <1>13, <1>14
     DEF Next, slot, RoomReaped, KeeperLocks, ReaperLocks, Afresh, ReaperKilled, Timer

\* and the bound of the starts;
LEMMA RunsTypeStep == ASSUME RunsType, Next PROVE RunsType'
<1>1. ASSUME NEW i \in Instances, ListenerStarts(i) PROVE RunsType'
  <2>1. runs' = [runs EXCEPT ![i] = @ + 1] /\ runs[i] < MaxRuns[i]
    BY <1>1 DEF ListenerStarts
  <2>2. runs' \in [Instances -> Nat]
    BY <2>1 DEF RunsType
  <2>3. ASSUME NEW k \in Instances PROVE runs'[k] <= MaxRuns[k]
    <3>1. runs[k] \in Nat /\ runs[k] <= MaxRuns[k] /\ MaxRuns[k] \in Nat
      BY BoundTypes DEF RunsType
    <3>2. runs'[k] = IF k = i THEN runs[k] + 1 ELSE runs[k]
      BY <2>1 DEF RunsType
    <3> QED
      BY <2>1, <3>1, <3>2
  <2> QED
    BY <2>2, <2>3 DEF RunsType
<1>2. ASSUME UNCHANGED runs PROVE RunsType'
  BY <1>2 DEF RunsType
<1>3. ASSUME NEW i \in Instances, UnitStep(i) PROVE RunsType'
  BY <1>1, <1>2, <1>3 DEF UnitStep, slot, pile, login, ChooseRetire, Rename, DeleteInPlace, Ready, MakeRoom,
     LockTrash, NoneReaped, Recheck, Copy, LockCodex, ResetCodex, Exec, RunEnds, Clean,
     LockForReturn, ReturnCodex, End
<1>4. ASSUME PassStep \/ (\E i \in Instances : KeeperStep(i)) PROVE RunsType'
  BY <1>1, <1>2, <1>4 DEF PassStep, KeeperStep, slot, pile, login, Relist, ReaperEnds, DeleteEntry, KeeperSkips, KeeperRuns,
     KeeperFails, KeeperReturns
<1> QED
  BY <1>1, <1>2, <1>3, <1>4 DEF Next, slot, pile, login, ListenerClears, RoomReaped, Kill, KeeperLocks, ReaperLocks,
     Afresh, ReaperKilled, Timer

\* What a store holds is of its type;
LEMMA StoreType ==
    ASSUME LoginType, NEW i \in Instances
    PROVE  codex[i].owner \in {"lane", "job"} /\ codex[i].left \in BOOLEAN
           /\ codex[i].unheard \in BOOLEAN /\ codex[i] \in Stores
<1>1. codex[i] \in Stores
  BY DEF LoginType
<1> QED
  BY <1>1 DEF Stores

\* one that is partly returned is a store;
LEMMA PartType ==
    ASSUME LoginType, NEW i \in Instances, NEW store \in PartlyReturned(i)
    PROVE  store \in Stores
BY StoreType DEF PartlyReturned, LeftBy, Stores

\* so is one with the login only;
LEMMA LoginStore == Login \in Stores
BY DEF Login, Stores

\* and so is one of which only what is left changes;
LEMMA LeftType ==
    ASSUME NEW store \in Stores, NEW left \in BOOLEAN
    PROVE  [store EXCEPT !.left = left] \in Stores
BY DEF Stores

\* Whatever store takes an instance's place, all are stores;
LEMMA PutType ==
    ASSUME LoginType, NEW i \in Instances, NEW store \in Stores
    PROVE  [codex EXCEPT ![i] = store] \in [Instances -> Stores]
BY DEF LoginType

\* and the types of the Codex stores;
LEMMA LoginTypeStep == ASSUME LoginType, Next PROVE LoginType'
<1>1. ASSUME NEW i \in Instances, LockCodex(i) PROVE LoginType'
  BY <1>1 DEF LockCodex, LoginType, Locks
<1>2. ASSUME NEW i \in Instances, ResetCodex(i) PROVE LoginType'
  <2>1. lock' \in [Instances -> {None, "slot", "keepalive"}] /\ keeper' = keeper
    BY <1>2 DEF ResetCodex, LoginType, Unlocks
  <2>2. codex' \in [Instances -> Stores]
    <3>1. [owner |-> "job", left |-> FALSE, unheard |-> FALSE] \in Stores
      BY DEF Stores
    <3>2. CASE codex' = [codex EXCEPT ![i] = [owner |-> "job", left |-> FALSE, unheard |-> FALSE]]
      BY <3>1, <3>2, PutType
    <3>3. ASSUME NEW left \in LeftBy(i), codex' = [codex EXCEPT ![i] = [owner |-> "job", left |-> left, unheard |-> TRUE]]
          PROVE  codex' \in [Instances -> Stores]
      <4>1. [owner |-> "job", left |-> left, unheard |-> TRUE] \in Stores
        BY StoreType DEF Stores, LeftBy
      <4> QED
        BY <3>3, <4>1, PutType
    <3>4. ASSUME NEW left \in LeftBy(i), codex' = [codex EXCEPT ![i].left = left]
          PROVE  codex' \in [Instances -> Stores]
      <4>1. [codex[i] EXCEPT !.left = left] \in Stores
        BY StoreType, LeftType DEF LeftBy
      <4> QED
        BY <3>4, <4>1, PutType
    <3> QED
      BY <1>2, <3>2, <3>3, <3>4 DEF ResetCodex
  <2> QED
    BY <2>1, <2>2 DEF LoginType
<1>3. ASSUME NEW i \in Instances, Exec(i) PROVE LoginType'
  <2>1. lock' \in [Instances -> {None, "slot", "keepalive"}] /\ keeper' = keeper
    BY <1>3 DEF Exec, LoginType, Locks
  <2>2. codex' = codex \/ codex' = [codex EXCEPT ![i] = [codex[i] EXCEPT !.left = TRUE]]
    BY <1>3 DEF Exec
  <2>3. [codex[i] EXCEPT !.left = TRUE] \in Stores
    BY StoreType, LeftType
  <2>4. codex' \in [Instances -> Stores]
    BY <2>2, <2>3, PutType DEF LoginType
  <2> QED
    BY <2>1, <2>4 DEF LoginType
<1>4. ASSUME NEW i \in Instances, RunEnds(i) PROVE LoginType'
  BY <1>4 DEF RunEnds, LoginType, Unlocks
<1>5. ASSUME NEW i \in Instances, LockForReturn(i) PROVE LoginType'
  BY <1>5 DEF LockForReturn, LoginType, Locks
<1>6. ASSUME NEW i \in Instances, ReturnCodex(i) PROVE LoginType'
  <2>1. lock' \in [Instances -> {None, "slot", "keepalive"}] /\ keeper' = keeper
    BY <1>6 DEF ReturnCodex, LoginType, Unlocks
  <2>2. codex' \in [Instances -> Stores]
    BY <1>6, PartType, PutType, LoginStore DEF ReturnCodex
  <2> QED
    BY <2>1, <2>2 DEF LoginType
<1>7. ASSUME NEW i \in Instances, Kill(i) PROVE LoginType'
  BY <1>7 DEF Kill, LoginType
<1>8. ASSUME NEW i \in Instances, KeeperLocks(i) PROVE LoginType'
  BY <1>8 DEF KeeperLocks, LoginType, Locks
<1>9. ASSUME NEW i \in Instances, KeeperSkips(i) PROVE LoginType'
  BY <1>9 DEF KeeperSkips, LoginType, Off, Unlocks
<1>10. ASSUME NEW i \in Instances, KeeperRuns(i) PROVE LoginType'
  <2>1. /\ lock' \in [Instances -> {None, "slot", "keepalive"}]
        /\ keeper' \in [store : Instances \cup {None}, runs : BOOLEAN]
    BY <1>10 DEF KeeperRuns, LoginType
  <2>2. PICK unheard \in BOOLEAN :
           codex' = [codex EXCEPT ![i] = [owner |-> "lane", left |-> TRUE, unheard |-> unheard]]
    BY <1>10 DEF KeeperRuns
  <2>3. [owner |-> "lane", left |-> TRUE, unheard |-> unheard] \in Stores
    BY DEF Stores
  <2>4. codex' \in [Instances -> Stores]
    BY <2>2, <2>3, PutType
  <2> QED
    BY <2>1, <2>4 DEF LoginType
<1>11. ASSUME NEW i \in Instances, KeeperReturns(i) PROVE LoginType'
  <2>1. /\ lock' \in [Instances -> {None, "slot", "keepalive"}]
        /\ keeper' \in [store : Instances \cup {None}, runs : BOOLEAN]
    BY <1>11 DEF KeeperReturns, LoginType, Off, Unlocks
  <2>2. codex' \in [Instances -> Stores]
    BY <1>11, PartType, PutType, LoginStore DEF KeeperReturns
  <2> QED
    BY <2>1, <2>2 DEF LoginType
<1>13. ASSUME NEW i \in Instances, KeeperFails(i) PROVE LoginType'
  <2>1. /\ lock' \in [Instances -> {None, "slot", "keepalive"}]
        /\ keeper' \in [store : Instances \cup {None}, runs : BOOLEAN]
    BY <1>13 DEF KeeperFails, LoginType, Off, Unlocks
  <2>2. codex' \in [Instances -> Stores]
    BY <1>13, PartType, PutType DEF KeeperFails
  <2> QED
    BY <2>1, <2>2 DEF LoginType
<1>12. ASSUME UNCHANGED login PROVE LoginType'
  BY <1>12 DEF LoginType, login
<1> QED
  BY <1>1, <1>2, <1>3, <1>4, <1>5, <1>6, <1>7, <1>8, <1>9, <1>10, <1>11, <1>12, <1>13
     DEF Next, UnitStep, PassStep, KeeperStep, slot, pile, login,
     ListenerStarts, ListenerClears, ChooseRetire, Rename, DeleteInPlace, Ready,
     MakeRoom, LockTrash, RoomReaped, NoneReaped, Recheck, Copy, Clean, End,
     ReaperLocks, DeleteEntry, Relist, ReaperEnds, Afresh, ReaperKilled, Timer

\* A fault is one of those the bound allows.
LEMMA FaultCounts == ASSUME faults \in 0 .. MaxFaults, Fault PROVE faults' \in 0 .. MaxFaults
BY BoundTypes DEF Fault

\* and those of the history;
LEMMA CountTypeStep == ASSUME CountType, Next PROVE CountType'
<1>1. ASSUME NEW i \in Instances, ChooseRetire(i) PROVE CountType'
  BY <1>1, FaultCounts DEF ChooseRetire, CountType
<1>2. ASSUME NEW i \in Instances, Rename(i) PROVE CountType'
  BY <1>2, FaultCounts DEF Rename, CountType
<1>3. ASSUME NEW i \in Instances, DeleteInPlace(i) PROVE CountType'
  BY <1>3, FaultCounts DEF DeleteInPlace, CountType
<1>4. ASSUME NEW i \in Instances, Ready(i) PROVE CountType'
  BY <1>4, FaultCounts DEF Ready, CountType, Fails
<1>5. ASSUME NEW i \in Instances, Copy(i) PROVE CountType'
  BY <1>5, FaultCounts DEF Copy, CountType
<1>6. ASSUME NEW i \in Instances, ResetCodex(i) PROVE CountType'
  BY <1>6, FaultCounts DEF ResetCodex, CountType, Fails
<1>7. ASSUME NEW i \in Instances, RunEnds(i) PROVE CountType'
  BY <1>7, FaultCounts DEF RunEnds, CountType
<1>8. ASSUME NEW i \in Instances, ReturnCodex(i) PROVE CountType'
  BY <1>8, FaultCounts DEF ReturnCodex, CountType
<1>9. ASSUME NEW i \in Instances, Kill(i) PROVE CountType'
  BY <1>9, FaultCounts DEF Kill, CountType
<1>10. ASSUME NEW i \in Instances, LockForReturn(i) PROVE CountType'
  BY <1>10, FaultCounts DEF LockForReturn, CountType
<1>11. ASSUME NEW e \in reap.left, DeleteEntry(e) PROVE CountType'
  BY <1>11, FaultCounts DEF DeleteEntry, CountType
<1>12. ASSUME ReaperKilled PROVE CountType'
  BY <1>12, FaultCounts DEF ReaperKilled, CountType
<1>13. ASSUME NEW i \in Instances, KeeperReturns(i) PROVE CountType'
  BY <1>13, FaultCounts DEF KeeperReturns, CountType
<1>15. ASSUME NEW i \in Instances, KeeperRuns(i) PROVE CountType'
  BY <1>15, FaultCounts DEF KeeperRuns, CountType
<1>16. ASSUME NEW i \in Instances, KeeperFails(i) PROVE CountType'
  BY <1>16, FaultCounts DEF KeeperFails, CountType
<1>14. ASSUME UNCHANGED <<faults, missed>> PROVE CountType'
  BY <1>14 DEF CountType
<1> QED
  BY <1>1, <1>2, <1>3, <1>4, <1>5, <1>6, <1>7, <1>8, <1>9, <1>10, <1>11, <1>12,
     <1>13, <1>14, <1>15, <1>16 DEF Next, UnitStep, PassStep, KeeperStep, slot, pile, login,
     ListenerStarts, ListenerClears, MakeRoom, LockTrash, RoomReaped,
     NoneReaped, Recheck, LockCodex, Exec, Clean, End, ReaperLocks, Relist,
     ReaperEnds, Afresh, Timer, KeeperLocks, KeeperSkips

\* Whoever takes the trash's lock lists the trash.
LEMMA PassType ==
    ASSUME NEW who \in Instances \cup {"reaper", None}
    PROVE  [by |-> who, left |-> trash, progressed |-> FALSE]
              \in [by : Instances \cup {"reaper", None}, left : SUBSET trash, progressed : BOOLEAN]
<1>1. trash \in SUBSET trash /\ FALSE \in BOOLEAN
  OBVIOUS
<1> QED
  BY <1>1

\* and those of the trash.
LEMMA PileTypeStep == ASSUME PileType, IsFiniteSet(trash), Next PROVE PileType'
<1>1. ASSUME NEW i \in Instances, ChooseRetire(i) PROVE PileType'
  BY <1>1, Names DEF ChooseRetire, PileType, StartReaper
<1>2. ASSUME NEW i \in Instances, Rename(i) PROVE PileType'
  <2>1. \/ trash' = trash \cup {NewEntry(i)} /\ StartReaper
        \/ trash' = trash /\ reaper' = reaper
    BY <1>2 DEF Rename
  <2>2. reap' = reap /\ stuck' = stuck
    BY <1>2 DEF Rename
  <2>3. NewEntry(i) \in Instances \X Nat
    BY NewEntryFree
  <2>4. trash \subseteq trash' /\ trash' \subseteq Instances \X Nat
    BY <2>1, <2>3 DEF PileType
  <2>5. reaper' \in {"off", "start", "work"} /\ (reaper' = "work" <=> reaper = "work")
    BY <2>1 DEF PileType, StartReaper
  <2> QED
    BY <2>2, <2>4, <2>5 DEF PileType
<1>3. ASSUME NEW i \in Instances, LockTrash(i) PROVE PileType'
  <2>1. trash' = trash /\ stuck' = stuck /\ reaper' = reaper
    BY <1>3 DEF LockTrash
  <2>2. \/ reap' = reap
        \/ reap.by = None /\ reap' = [by |-> i, left |-> trash, progressed |-> FALSE]
    BY <1>3 DEF LockTrash
  <2>3. reap.by = None => reaper # "work"
    BY Names DEF PileType
  <2>4. reap' \in [by : Instances \cup {"reaper", None}, left : SUBSET trash, progressed : BOOLEAN]
    BY <2>2, PassType DEF PileType
  <2>5. reap'.by = "reaper" <=> reaper = "work"
    BY <2>2, <2>3, Names DEF PileType
  <2> QED
    BY <2>1, <2>4, <2>5 DEF PileType
<1>4. ASSUME NEW i \in Instances, RoomReaped(i) PROVE PileType'
  BY <1>4, Names DEF RoomReaped, PileType, Released, Unlocked
<1>5. ASSUME NEW i \in Instances, NoneReaped(i) PROVE PileType'
  BY <1>5, Names DEF NoneReaped, PileType, Released, Unlocked
<1>6. ASSUME NEW i \in Instances, Kill(i) PROVE PileType'
  BY <1>6, Names DEF Kill, PileType, Released, Unlocked
<1>7. ASSUME ReaperLocks PROVE PileType'
  <2>1. trash' = trash /\ stuck' = stuck
    BY <1>7 DEF ReaperLocks
  <2>2. \/ reap' = [by |-> "reaper", left |-> trash, progressed |-> FALSE] /\ reaper' = "work"
        \/ reap' = reap /\ reaper' = "off" /\ reaper = "start"
    BY <1>7 DEF ReaperLocks
  <2>3. reap' \in [by : Instances \cup {"reaper", None}, left : SUBSET trash, progressed : BOOLEAN]
    BY <2>2, PassType DEF PileType
  <2>4. reaper' \in {"off", "start", "work"} /\ (reap'.by = "reaper" <=> reaper' = "work")
    BY <2>2 DEF PileType
  <2> QED
    BY <2>1, <2>3, <2>4 DEF PileType
<1>8. ASSUME NEW e \in reap.left, DeleteEntry(e) PROVE PileType'
  <2>1. /\ reaper' = reaper
        /\ reap' \in {[reap EXCEPT !.left = @ \ {e}],
                      [reap EXCEPT !.left = @ \ {e}, !.progressed = TRUE]}
    BY <1>8 DEF DeleteEntry
  <2>2. \/ trash' = trash /\ stuck' \in {stuck, stuck \cup {e}}
        \/ trash' = trash \ {e} /\ stuck' = stuck /\ e \notin stuck
    BY <1>8 DEF DeleteEntry
  <2>3. e \in trash
    BY DEF PileType
  <2>4. trash' \subseteq Instances \X Nat /\ stuck' \subseteq trash'
    BY <2>2, <2>3 DEF PileType
  <2>5. /\ reap'.by = reap.by
        /\ reap' \in [by : Instances \cup {"reaper", None}, left : SUBSET trash',
                      progressed : BOOLEAN]
    <3>1. /\ reap.by \in Instances \cup {"reaper", None} /\ reap.left \subseteq trash
          /\ reap \in [by : Instances \cup {"reaper", None}, left : SUBSET trash, progressed : BOOLEAN]
      BY DEF PileType
    <3>2. \A left \in SUBSET trash', progressed \in BOOLEAN :
            [reap EXCEPT !.left = left] \in [by : Instances \cup {"reaper", None}, left : SUBSET trash', progressed : BOOLEAN]
            /\ [reap EXCEPT !.left = left, !.progressed = TRUE]
                 \in [by : Instances \cup {"reaper", None}, left : SUBSET trash', progressed : BOOLEAN]
      BY <3>1
    <3>3. reap.left \ {e} \in SUBSET trash'
      BY <2>2, <3>1
    <3> QED
      BY <2>1, <3>1, <3>2, <3>3
  <2> QED
    BY <2>1, <2>4, <2>5 DEF PileType
<1>9. ASSUME Relist PROVE PileType'
  BY <1>9, Names DEF Relist, PileType
<1>10. ASSUME ReaperEnds PROVE PileType'
  BY <1>10, Names DEF ReaperEnds, PileType, Released, Unlocked
<1>11. ASSUME Afresh PROVE PileType'
  BY <1>11, Names DEF Afresh, PileType, Released, Unlocked
<1>12. ASSUME ReaperKilled PROVE PileType'
  BY <1>12, Names DEF ReaperKilled, PileType, Released, Unlocked
<1>13. ASSUME Timer PROVE PileType'
  BY <1>13, Names DEF Timer, PileType
<1>14. ASSUME UNCHANGED pile PROVE PileType'
  BY <1>14 DEF PileType, pile
<1> QED
  BY <1>1, <1>2, <1>3, <1>4, <1>5, <1>6, <1>7, <1>8, <1>9, <1>10, <1>11, <1>12,
     <1>13, <1>14 DEF Next, UnitStep, PassStep, KeeperStep, slot, pile, login,
     ListenerStarts, ListenerClears, DeleteInPlace, Ready, MakeRoom, Recheck,
     Copy, LockCodex, ResetCodex, Exec, RunEnds, Clean, LockForReturn,
     ReturnCodex, End, KeeperLocks, KeeperSkips, KeeperRuns, KeeperFails, KeeperReturns

\* The trash stays finite.
LEMMA TrashFiniteStep == ASSUME PileType, IsFiniteSet(trash), Next PROVE IsFiniteSet(trash')
<1>1. ASSUME NEW i \in Instances, Rename(i) PROVE IsFiniteSet(trash')
  <2>1. trash' = trash \cup {NewEntry(i)} \/ trash' = trash
    BY <1>1 DEF Rename
  <2> QED
    BY <2>1, FS_AddElement
<1>2. ASSUME NEW e \in reap.left, DeleteEntry(e) PROVE IsFiniteSet(trash')
  <2>1. trash' = trash \ {e} \/ trash' = trash
    BY <1>2 DEF DeleteEntry
  <2> QED
    BY <2>1, FS_RemoveElement
<1>3. ASSUME UNCHANGED trash PROVE IsFiniteSet(trash')
  BY <1>3
<1>4. ASSUME NEW i \in Instances, UnitStep(i) PROVE IsFiniteSet(trash')
  BY <1>1, <1>2, <1>3, <1>4 DEF UnitStep, pile, ChooseRetire, DeleteInPlace, Ready, MakeRoom, LockTrash, NoneReaped,
     Recheck, Copy, LockCodex, ResetCodex, Exec, RunEnds, Clean, LockForReturn,
     ReturnCodex, End
<1>5. ASSUME PassStep \/ (\E i \in Instances : KeeperStep(i)) PROVE IsFiniteSet(trash')
  BY <1>1, <1>2, <1>3, <1>5 DEF PassStep, KeeperStep, pile, Relist, ReaperEnds, KeeperSkips, KeeperRuns, KeeperFails, KeeperReturns
<1> QED
  BY <1>1, <1>2, <1>3, <1>4, <1>5 DEF Next, pile, ListenerStarts, ListenerClears, RoomReaped, Kill, KeeperLocks, ReaperLocks,
     Afresh, ReaperKilled, Timer

\* The types are kept by every step.
LEMMA TypesStep ==
    ASSUME Types, IsFiniteSet(trash), [Next]_vars
    PROVE  Types' /\ IsFiniteSet(trash')
<1> USE DEF Types
<1>1. CASE Next
  BY <1>1, UnitTypeStep, SlotTypeStep, RunsTypeStep, PileTypeStep, TrashFiniteStep,
     LoginTypeStep, CountTypeStep
<1>2. CASE UNCHANGED vars
  <2>1. UNCHANGED <<slot, pile, login, faults, missed>>
    BY <1>2 DEF vars
  <2>2. UnitType' /\ SlotType' /\ RunsType'
    BY <2>1 DEF slot, UnitType, SlotType, RunsType
  <2>3. PileType' /\ IsFiniteSet(trash')
    BY <2>1 DEF pile, PileType
  <2>4. LoginType' /\ CountType'
    BY <2>1 DEF login, LoginType, CountType
  <2> QED
    BY <2>2, <2>3, <2>4
<1> QED
  BY <1>1, <1>2

------------------------------------------------------------------------------
(* The inductive invariant, instance by instance                           *)

\* A unit that is not down has its job file.
Busy(i) == ~At(i, "down") => job[i]

\* A container runs between the start and the cleanup, except one that a
\* cleanup which was cut short left.
ContainerAt(i) ==
    container[i] => \/ unit[i].at \in {"running", "clean"}
                    \/ unit[i].at \in {"down", "ready"} /\ i \in missed

\* From the copy to the start, the copy is the one that was made.
FreshCopy(i) == unit[i].at \in {"lock", "reset", "exec"} => copy[i] = "fresh"

\* The keepalive's lock is the one of the store it works on, a qae instance's;
\* a slot holds its own where it resets or returns the store, and while a qae
\* job runs.
LockHeld(i) ==
    /\ lock[i] = "keepalive" <=> keeper.store = i
    /\ keeper.store = i => KindOf[i] = "qae"
    /\ unit[i].at \in {"reset", "return"} => lock[i] = "slot"
    /\ At(i, "running") /\ KindOf[i] = "qae" => lock[i] = "slot"

\* Where the container of a qae job is to start, the store is as its prepare
\* reset it, though the lock was free in between: the keepalive has not run.
CodexReset(i) ==
    At(i, "exec") /\ KindOf[i] = "qae" =>
        codex[i].owner = "job" /\ (codex[i].left => codex[i].unheard) /\ keeper # [store |-> i, runs |-> TRUE]

\* CodexAlone, of one instance.
Alone(i) == keeper = [store |-> i, runs |-> TRUE] /\ container[i] => i \in missed

Good(i) ==
    Busy(i) /\ ContainerAt(i) /\ FreshCopy(i) /\ LockHeld(i) /\ CodexReset(i) /\ Alone(i)

IInv ==
    /\ Types /\ IsFiniteSet(trash)
    /\ \A i \in Instances : Good(i)
    /\ TrashWithin

\* What a step of the helper does to its unit, and not to others.
LEMMA StepAt ==
    ASSUME UnitType, NEW i \in Instances, NEW from, NEW to, Step(i, from, to)
    PROVE  /\ unit[i].at = from /\ unit'[i].at = to
           /\ \A k \in Instances \ {i} : unit'[k] = unit[k]
BY DEF UnitType, Step, At

\* What a step into a retire does to its unit.
LEMMA RetiringAt ==
    ASSUME UnitType, NEW i \in Instances, NEW from, NEW next, Retiring(i, from, next)
    PROVE  /\ unit[i].at = from /\ unit'[i].at = "retire"
           /\ \A k \in Instances \ {i} : unit'[k] = unit[k]
BY DEF UnitType, Retiring, At

\* What Good says of an instance, an instance of which nothing changes keeps.
Same(k) ==
    /\ unit'[k] = unit[k] /\ job'[k] = job[k] /\ copy'[k] = copy[k]
    /\ container'[k] = container[k] /\ codex'[k] = codex[k] /\ lock'[k] = lock[k]
    /\ k \in missed' <=> k \in missed

\* So it stays good, unless the keepalive comes to it or leaves it.
LEMMA SameGood ==
    ASSUME NEW k \in Instances, Good(k), Same(k),
           \/ keeper' = keeper
           \/ keeper.store # k /\ keeper'.store # k
    PROVE  Good(k)'
<1>1. keeper'.store = k <=> keeper.store = k
  OBVIOUS
<1>2. keeper' = [store |-> k, runs |-> TRUE] <=> keeper = [store |-> k, runs |-> TRUE]
  OBVIOUS
<1> QED
  BY <1>1, <1>2
  DEF Good, Busy, ContainerAt, FreshCopy, LockHeld, CodexReset, Alone, Same, At

\* Where a unit is between its steps on the store, its lock and its
\* container, it needs nothing but its job file.
LEMMA PlainGood ==
    ASSUME NEW i \in Instances, Good(i), unit[i].at # "down",
           unit'[i].at \in {"room", "wait", "reaping", "recheck", "copy", "clean", "codex", "end",
                            "retire", "rename", "delete"},
           job'[i] = job[i], lock'[i] = lock[i], keeper' = keeper,
           ~container'[i]
    PROVE  Good(i)'
BY DEF Good, Busy, ContainerAt, FreshCopy, LockHeld, CodexReset, Alone, At

\* A step of one instance leaves every other as it is.
LEMMA OthersSame ==
    ASSUME UnitType, SlotType, LoginType, NEW i \in Instances, NEW k \in Instances, i # k,
           \/ ListenerStarts(i) \/ ListenerClears(i) \/ UnitStep(i) \/ RoomReaped(i) \/ Kill(i)
           \/ KeeperLocks(i) \/ KeeperStep(i)
    PROVE  /\ Same(k)
           /\ \/ keeper' = keeper
              \/ keeper.store # k /\ keeper'.store # k
<1> DEFINE Apart == Same(k) /\ (keeper' = keeper \/ (keeper.store # k /\ keeper'.store # k))
<1>1. ASSUME ListenerStarts(i) PROVE Apart
  BY <1>1, StepAt DEF ListenerStarts, Same, SlotType, login
<1>2. ASSUME ListenerClears(i) PROVE Apart
  BY <1>2 DEF ListenerClears, Same, SlotType, login
<1>3. ASSUME ChooseRetire(i) PROVE Apart
  BY <1>3, StepAt DEF ChooseRetire, Same, UnitType, login
<1>4. ASSUME Rename(i) PROVE Apart
  BY <1>4, StepAt DEF Rename, Same, UnitType, SlotType, login
<1>5. ASSUME DeleteInPlace(i) PROVE Apart
  BY <1>5, StepAt DEF DeleteInPlace, Same, SlotType, login
<1>6. ASSUME Ready(i) PROVE Apart
  BY <1>6, StepAt, RetiringAt DEF Ready, Same, SlotType, Fails, login
<1>7. ASSUME MakeRoom(i) PROVE Apart
  BY <1>7, StepAt, RetiringAt DEF MakeRoom, Same, login
<1>8. ASSUME LockTrash(i) PROVE Apart
  BY <1>8, StepAt DEF LockTrash, Same, login
<1>9. ASSUME RoomReaped(i) PROVE Apart
  BY <1>9, StepAt DEF RoomReaped, Same, login
<1>10. ASSUME NoneReaped(i) PROVE Apart
  BY <1>10, StepAt DEF NoneReaped, Same, login
<1>11. ASSUME Recheck(i) PROVE Apart
  BY <1>11, StepAt, RetiringAt DEF Recheck, Same, login
<1>12. ASSUME Copy(i) PROVE Apart
  BY <1>12, StepAt, RetiringAt DEF Copy, Same, SlotType, login
<1>13. ASSUME LockCodex(i) PROVE Apart
  BY <1>13, StepAt DEF LockCodex, Same, LoginType, Locks
<1>14. ASSUME ResetCodex(i) PROVE Apart
  BY <1>14, StepAt DEF ResetCodex, Same, LoginType, Fails, Unlocks
<1>15. ASSUME Exec(i) PROVE Apart
  BY <1>15, StepAt DEF Exec, Same, SlotType, LoginType, Locks
<1>16. ASSUME RunEnds(i) PROVE Apart
  BY <1>16, StepAt DEF RunEnds, Same, SlotType, LoginType, Unlocks
<1>17. ASSUME Clean(i) PROVE Apart
  BY <1>17, RetiringAt DEF Clean, Same, SlotType, login
<1>18. ASSUME LockForReturn(i) PROVE Apart
  BY <1>18, StepAt DEF LockForReturn, Same, LoginType, Locks
<1>19. ASSUME ReturnCodex(i) PROVE Apart
  BY <1>19, StepAt DEF ReturnCodex, Same, LoginType, Unlocks
<1>20. ASSUME End(i) PROVE Apart
  BY <1>20, StepAt DEF End, Same, SlotType, login
<1>21. ASSUME Kill(i) PROVE Apart
  BY <1>21 DEF Kill, Same, UnitType, SlotType, LoginType
<1>22. ASSUME KeeperLocks(i) PROVE Apart
  BY <1>22, Names DEF KeeperLocks, Same, LoginType, Locks, Off, slot
<1>23. ASSUME KeeperSkips(i) PROVE Apart
  BY <1>23, Names DEF KeeperSkips, Same, LoginType, Unlocks, Off, slot
<1>24. ASSUME KeeperRuns(i) PROVE Apart
  BY <1>24 DEF KeeperRuns, Same, LoginType, slot
<1>25. ASSUME KeeperReturns(i) PROVE Apart
  BY <1>25, Names DEF KeeperReturns, Same, LoginType, Unlocks, Off, slot
<1>26. ASSUME KeeperFails(i) PROVE Apart
  BY <1>26, Names DEF KeeperFails, Same, LoginType, Unlocks, Off, slot
<1> QED
  BY <1>1, <1>2, <1>3, <1>4, <1>5, <1>6, <1>7, <1>8, <1>9, <1>10, <1>11, <1>12,
     <1>13, <1>14, <1>15, <1>16, <1>17, <1>18, <1>19, <1>20, <1>21, <1>22,
     <1>23, <1>24, <1>25, <1>26 DEF UnitStep, KeeperStep

\* The instance that makes a step is good after it.
LEMMA OwnGood ==
    ASSUME UnitType, SlotType, LoginType, NEW i \in Instances, Good(i),
           \/ ListenerStarts(i) \/ ListenerClears(i) \/ UnitStep(i) \/ RoomReaped(i) \/ Kill(i)
           \/ KeeperLocks(i) \/ KeeperStep(i)
    PROVE  Good(i)'
<1> USE LockNames, Names
<1>1. ASSUME ListenerStarts(i) PROVE Good(i)'
  <2>1. /\ unit[i].at = "down" /\ unit'[i].at = "ready" /\ job'[i] = TRUE
        /\ container' = container /\ UNCHANGED <<login, missed>>
    BY <1>1, StepAt DEF ListenerStarts, SlotType
  <2> QED
    BY <2>1 DEF login, Good, Busy, ContainerAt, FreshCopy, LockHeld, CodexReset, Alone, At
<1>2. ASSUME ListenerClears(i) PROVE Good(i)'
  <2>1. unit[i].at = "down" /\ unit' = unit /\ container' = container /\ UNCHANGED <<login, missed>>
    BY <1>2 DEF ListenerClears, At
  <2> QED
    BY <2>1 DEF login, Good, Busy, ContainerAt, FreshCopy, LockHeld, CodexReset, Alone, At
<1>3. ASSUME ChooseRetire(i) PROVE Good(i)'
  <2>1. unit[i].at = "retire"
    BY <1>3 DEF ChooseRetire, Step, At
  <2>2. unit'[i].at \in {"room", "copy", "clean", "codex", "end", "rename", "delete"}
    <3>1. unit[i].then \in {"room", "copy", "clean", "codex", "end"}
      BY <2>1 DEF UnitType, Units, RetireSteps
    <3>2. \/ Step(i, "retire", unit[i].then)
          \/ \E at \in RetireSteps : unit' = [unit EXCEPT ![i].at = at] /\ at # "retire"
      BY <1>3 DEF ChooseRetire, RetireSteps
    <3>3. ASSUME NEW at \in RetireSteps, at # "retire", unit' = [unit EXCEPT ![i].at = at]
          PROVE  unit'[i].at \in {"rename", "delete"}
      BY <3>3 DEF UnitType, Units, RetireSteps
    <3> QED
      BY <3>1, <3>2, <3>3, StepAt
  <2>3. job' = job /\ container' = container /\ UNCHANGED login
    BY <1>3 DEF ChooseRetire
  <2>4. ~container[i]
    BY <2>1 DEF Good, ContainerAt
  <2> QED
    BY <2>1, <2>2, <2>3, <2>4, PlainGood DEF login
<1>4. ASSUME Rename(i) PROVE Good(i)'
  <2>1. unit[i].at = "rename"
    BY <1>4 DEF Rename, Step, At
  <2>2. unit'[i].at \in {"room", "copy", "clean", "codex", "end", "rename", "delete"}
    <3>1. unit[i].then \in {"room", "copy", "clean", "codex", "end"}
      BY <2>1 DEF UnitType, Units, RetireSteps
    <3>2. \/ Step(i, "rename", unit[i].then)
          \/ \E at \in RetireSteps : unit' = [unit EXCEPT ![i].at = at] /\ at # "retire"
      BY <1>4 DEF Rename, RetireSteps
    <3>3. ASSUME NEW at \in RetireSteps, at # "retire", unit' = [unit EXCEPT ![i].at = at]
          PROVE  unit'[i].at \in {"rename", "delete"}
      BY <3>3 DEF UnitType, Units, RetireSteps
    <3> QED
      BY <3>1, <3>2, <3>3, StepAt
  <2>3. job' = job /\ container' = container /\ UNCHANGED login
    BY <1>4 DEF Rename
  <2>4. ~container[i]
    BY <2>1 DEF Good, ContainerAt
  <2> QED
    BY <2>1, <2>2, <2>3, <2>4, PlainGood DEF login
<1>5. ASSUME DeleteInPlace(i) PROVE Good(i)'
  <2>1. unit[i].at = "delete"
    BY <1>5 DEF DeleteInPlace, Step, At
  <2>2. unit'[i].at \in {"room", "copy", "clean", "codex", "end"}
    <3>1. unit[i].then \in {"room", "copy", "clean", "codex", "end"}
      BY <2>1 DEF UnitType, Units, RetireSteps
    <3> QED
      BY <1>5, <3>1, StepAt DEF DeleteInPlace
  <2>3. job' = job /\ container' = container /\ UNCHANGED login
    BY <1>5 DEF DeleteInPlace
  <2>4. ~container[i]
    BY <2>1 DEF Good, ContainerAt
  <2> QED
    BY <2>1, <2>2, <2>3, <2>4, PlainGood DEF login
<1>6. ASSUME Ready(i) PROVE Good(i)'
  <2>1. unit[i].at = "ready" /\ job' = job /\ UNCHANGED login
    BY <1>6, StepAt, RetiringAt DEF Ready, Fails
  <2>2. CASE unit'[i].at = "retire" /\ container'[i] = FALSE
    BY <2>1, <2>2, PlainGood DEF login
  <2>3. CASE unit'[i].at = "clean" /\ container' = container /\ missed' = missed
    BY <2>1, <2>3 DEF login, Good, Busy, ContainerAt, FreshCopy, LockHeld, CodexReset, Alone, At
  <2>4. \/ /\ \E next : Retiring(i, "ready", next)
           /\ container' = [container EXCEPT ![i] = FALSE]
        \/ /\ Step(i, "ready", "clean")
           /\ container' = container /\ missed' = missed
    BY <1>6 DEF Ready, Fails
  <2>5. ASSUME NEW next, Retiring(i, "ready", next), container' = [container EXCEPT ![i] = FALSE]
        PROVE  Good(i)'
    BY <2>2, <2>5, RetiringAt DEF SlotType
  <2>6. ASSUME Step(i, "ready", "clean"), container' = container, missed' = missed
        PROVE  Good(i)'
    BY <2>3, <2>6, StepAt
  <2> QED
    BY <2>4, <2>5, <2>6
<1>7. ASSUME MakeRoom(i) PROVE Good(i)'
  <2>1. /\ unit[i].at = "room" /\ unit'[i].at \in {"retire", "wait"}
        /\ job' = job /\ container' = container /\ UNCHANGED login
    BY <1>7, StepAt, RetiringAt DEF MakeRoom
  <2> QED
    BY <2>1, PlainGood DEF login, Good, ContainerAt
<1>8. ASSUME LockTrash(i) PROVE Good(i)'
  <2>1. /\ unit[i].at = "wait" /\ unit'[i].at \in {"reaping", "recheck"}
        /\ job' = job /\ container' = container /\ UNCHANGED login
    BY <1>8, StepAt DEF LockTrash
  <2> QED
    BY <2>1, PlainGood DEF login, Good, ContainerAt
<1>9. ASSUME RoomReaped(i) PROVE Good(i)'
  <2>1. /\ unit[i].at = "reaping" /\ unit'[i].at \in {"recheck"}
        /\ job' = job /\ container' = container /\ UNCHANGED login
    BY <1>9, StepAt DEF RoomReaped
  <2> QED
    BY <2>1, PlainGood DEF login, Good, ContainerAt
<1>10. ASSUME NoneReaped(i) PROVE Good(i)'
  <2>1. /\ unit[i].at = "reaping" /\ unit'[i].at \in {"recheck"}
        /\ job' = job /\ container' = container /\ UNCHANGED login
    BY <1>10, StepAt DEF NoneReaped
  <2> QED
    BY <2>1, PlainGood DEF login, Good, ContainerAt
<1>11. ASSUME Recheck(i) PROVE Good(i)'
  <2>1. /\ unit[i].at = "recheck" /\ unit'[i].at \in {"retire", "clean"}
        /\ job' = job /\ container' = container /\ UNCHANGED login
    BY <1>11, StepAt, RetiringAt DEF Recheck
  <2> QED
    BY <2>1, PlainGood DEF login, Good, ContainerAt
<1>12. ASSUME Copy(i) PROVE Good(i)'
  <2>1. unit[i].at = "copy" /\ job' = job /\ container' = container /\ UNCHANGED <<login, missed>>
    BY <1>12, StepAt, RetiringAt DEF Copy
  <2>2. ~container[i]
    BY <2>1 DEF Good, ContainerAt
  <2>3. CASE unit'[i].at \in {"retire", "clean"}
    BY <2>1, <2>2, <2>3, PlainGood DEF login
  <2>4. CASE /\ unit'[i].at = IF KindOf[i] = "qae" THEN "lock" ELSE "exec"
             /\ copy'[i] = "fresh"
    BY <2>1, <2>2, <2>4 DEF login, Good, Busy, ContainerAt, FreshCopy, LockHeld, CodexReset, Alone, At
  <2> QED
    BY <1>12, <2>3, <2>4, StepAt, RetiringAt DEF Copy, SlotType
<1>13. ASSUME LockCodex(i) PROVE Good(i)'
  <2>1. /\ unit[i].at = "lock" /\ job' = job /\ copy' = copy /\ container' = container
        /\ codex' = codex /\ keeper' = keeper /\ missed' = missed
    BY <1>13, StepAt DEF LockCodex
  <2>2. CASE unit'[i].at = "reset" /\ lock[i] = None /\ lock'[i] = "slot"
    BY <2>1, <2>2 DEF Good, Busy, ContainerAt, FreshCopy, LockHeld, CodexReset, Alone, At
  <2>3. CASE unit'[i].at = "clean" /\ lock' = lock
    BY <2>1, <2>3 DEF Good, Busy, ContainerAt, FreshCopy, LockHeld, CodexReset, Alone, At
  <2> QED
    BY <1>13, <2>2, <2>3, StepAt DEF LockCodex, Locks, LoginType
<1>14. ASSUME ResetCodex(i) PROVE Good(i)'
  <2>1. /\ unit[i].at = "reset" /\ job' = job /\ copy' = copy /\ container' = container
        /\ keeper' = keeper /\ missed' = missed /\ lock'[i] = None
        /\ \/ /\ unit'[i].at = "exec" /\ codex'[i].owner = "job"
              /\ codex'[i].left => codex'[i].unheard
           \/ unit'[i].at = "clean"
    BY <1>14, StepAt DEF ResetCodex, Fails, Unlocks, LoginType, Login
  <2>2. lock[i] = "slot" /\ keeper.store # i /\ ~container[i]
    BY <2>1 DEF Good, LockHeld, ContainerAt
  <2> QED
    BY <2>1, <2>2 DEF Good, Busy, ContainerAt, FreshCopy, LockHeld, CodexReset, Alone, At
<1>15. ASSUME Exec(i) PROVE Good(i)'
  <2>1. unit[i].at = "exec" /\ job' = job /\ keeper' = keeper /\ missed' = missed
    BY <1>15, StepAt DEF Exec
  <2>2. CASE /\ unit'[i].at = "running" /\ KindOf[i] = "qae" /\ lock[i] = None /\ lock'[i] = "slot"
    BY <2>1, <2>2 DEF Good, Busy, ContainerAt, FreshCopy, LockHeld, CodexReset, Alone, At
  <2>3. CASE /\ unit'[i].at = "running" /\ KindOf[i] # "qae" /\ lock' = lock
    BY <2>1, <2>3 DEF Good, Busy, ContainerAt, FreshCopy, LockHeld, CodexReset, Alone, At
  <2>4. CASE unit'[i].at = "clean" /\ lock' = lock /\ container' = container
    BY <2>1, <2>4 DEF Good, Busy, ContainerAt, FreshCopy, LockHeld, CodexReset, Alone, At
  <2> QED
    BY <1>15, <2>2, <2>3, <2>4, StepAt DEF Exec, Locks, LoginType
<1>16. ASSUME RunEnds(i) PROVE Good(i)'
  <2>1. /\ unit[i].at = "running" /\ unit'[i].at = "clean" /\ job' = job /\ keeper' = keeper
        /\ missed' = missed /\ lock'[i] = None /\ (container'[i] => container[i])
    BY <1>16, StepAt DEF RunEnds, Unlocks, LoginType, SlotType
  <2>2. keeper.store # i
    BY <2>1 DEF Good, Busy, ContainerAt, FreshCopy, LockHeld, CodexReset, Alone, At
  <2> QED
    BY <2>1, <2>2 DEF Good, Busy, ContainerAt, FreshCopy, LockHeld, CodexReset, Alone, At
<1>17. ASSUME Clean(i) PROVE Good(i)'
  <2>1. /\ unit[i].at = "clean" /\ unit'[i].at = "retire" /\ job' = job /\ ~container'[i]
        /\ UNCHANGED login
    BY <1>17, RetiringAt DEF Clean, SlotType
  <2> QED
    BY <2>1, PlainGood DEF login
<1>18. ASSUME LockForReturn(i) PROVE Good(i)'
  <2>1. /\ unit[i].at = "codex" /\ job' = job /\ container' = container /\ keeper' = keeper
        /\ \/ unit'[i].at = "return" /\ lock[i] = None /\ lock'[i] = "slot"
           \/ unit'[i].at = "end" /\ lock' = lock
    BY <1>18, StepAt DEF LockForReturn, Locks, LoginType
  <2> QED
    BY <2>1 DEF Good, Busy, ContainerAt, FreshCopy, LockHeld, CodexReset, Alone, At
<1>19. ASSUME ReturnCodex(i) PROVE Good(i)'
  <2>1. /\ unit[i].at = "return" /\ unit'[i].at = "end" /\ job' = job /\ container' = container
        /\ keeper' = keeper /\ lock'[i] = None
    BY <1>19, StepAt DEF ReturnCodex, Unlocks, LoginType
  <2>2. keeper.store # i /\ ~container[i]
    BY <2>1 DEF Good, Busy, ContainerAt, FreshCopy, LockHeld, CodexReset, Alone, At
  <2> QED
    BY <2>1, <2>2 DEF Good, Busy, ContainerAt, FreshCopy, LockHeld, CodexReset, Alone, At
<1>20. ASSUME End(i) PROVE Good(i)'
  <2>1. /\ unit[i].at = "end" /\ unit'[i].at = "down" /\ container' = container
        /\ UNCHANGED <<login, missed>>
    BY <1>20, StepAt DEF End
  <2> QED
    BY <2>1 DEF login, Good, Busy, ContainerAt, FreshCopy, LockHeld, CodexReset, Alone, At
<1>21. ASSUME Kill(i) PROVE Good(i)'
  <2>1. /\ unit[i].at \notin {"down", "running"} /\ unit'[i].at \in {"down", "clean"}
        /\ job' = job /\ container' = container /\ keeper' = keeper
        /\ unit'[i].at = "down" => i \in missed'
    BY <1>21 DEF Kill, UnitType
  <2>2. lock'[i] = IF unit[i].at \in {"reset", "return"} THEN None ELSE lock[i]
    BY <1>21 DEF Kill, LoginType
  <2>3. i \in missed => i \in missed'
    BY <1>21 DEF Kill
  <2> QED
    BY <2>1, <2>2, <2>3 DEF Good, Busy, ContainerAt, FreshCopy, LockHeld, CodexReset, Alone, At
<1>22. ASSUME KeeperLocks(i) PROVE Good(i)'
  <2>1. /\ UNCHANGED slot /\ codex' = codex /\ missed' = missed /\ lock[i] = None
        /\ lock'[i] = "keepalive" /\ keeper' = [store |-> i, runs |-> FALSE] /\ KindOf[i] = "qae"
    BY <1>22 DEF KeeperLocks, Locks, LoginType
  <2> QED
    BY <2>1 DEF slot, Good, Busy, ContainerAt, FreshCopy, LockHeld, CodexReset, Alone, At
<1>23. ASSUME KeeperSkips(i) PROVE Good(i)'
  <2>1. /\ UNCHANGED slot /\ codex' = codex /\ missed' = missed /\ keeper.store = i
        /\ lock'[i] = None /\ keeper' = [store |-> None, runs |-> FALSE]
    BY <1>23 DEF KeeperSkips, Unlocks, Off, LoginType
  <2> QED
    BY <2>1 DEF slot, Good, Busy, ContainerAt, FreshCopy, LockHeld, CodexReset, Alone, At
<1>24. ASSUME KeeperRuns(i) PROVE Good(i)'
  <2>1. /\ UNCHANGED slot /\ lock' = lock /\ missed' = missed /\ ~job[i]
        /\ keeper.store = i /\ keeper' = [store |-> i, runs |-> TRUE]
    BY <1>24 DEF KeeperRuns, MayKeep, LoginType
  <2>2. unit[i].at = "down"
    BY <2>1 DEF Good, Busy, At
  <2> QED
    BY <2>1, <2>2 DEF slot, Good, Busy, ContainerAt, FreshCopy, LockHeld, CodexReset, Alone, At
<1>25. ASSUME KeeperReturns(i) PROVE Good(i)'
  <2>1. /\ UNCHANGED slot /\ keeper = [store |-> i, runs |-> TRUE] /\ (i \in missed => i \in missed')
        /\ lock'[i] = None /\ keeper' = [store |-> None, runs |-> FALSE]
    BY <1>25 DEF KeeperReturns, Unlocks, Off, LoginType
  <2> QED
    BY <2>1 DEF slot, Good, Busy, ContainerAt, FreshCopy, LockHeld, CodexReset, Alone, At
<1>26. ASSUME KeeperFails(i) PROVE Good(i)'
  <2>1. /\ UNCHANGED slot /\ keeper = [store |-> i, runs |-> FALSE] /\ missed' = missed
        /\ lock'[i] = None /\ keeper' = [store |-> None, runs |-> FALSE] /\ ~job[i]
    BY <1>26 DEF KeeperFails, Unlocks, Off, LoginType, MayKeep
  <2>2. unit[i].at = "down"
    BY <2>1 DEF Good, Busy, At
  <2> QED
    BY <2>1, <2>2 DEF slot, Good, Busy, ContainerAt, FreshCopy, LockHeld, CodexReset, Alone, At
<1> QED
  BY <1>1, <1>2, <1>3, <1>4, <1>5, <1>6, <1>7, <1>8, <1>9, <1>10, <1>11, <1>12,
     <1>13, <1>14, <1>15, <1>16, <1>17, <1>18, <1>19, <1>20, <1>21, <1>22,
     <1>23, <1>24, <1>25, <1>26 DEF UnitStep, KeeperStep

------------------------------------------------------------------------------
(* The trash and its bound                                                  *)

Renaming == {i \in CountedInstances : At(i, "rename")}

\* What the bound of the trash counts can be counted.
LEMMA CountsFinite ==
    ASSUME IsFiniteSet(trash)
    PROVE  /\ IsFiniteSet(Counted(trash)) /\ Cardinality(Counted(trash)) \in Nat
           /\ IsFiniteSet(CountedInstances) /\ Cardinality(CountedInstances) \in Nat
           /\ IsFiniteSet(Renaming) /\ Cardinality(Renaming) \in Nat
<1>1. IsFiniteSet(Counted(trash))
  BY FS_Subset DEF Counted
<1>2. IsFiniteSet(CountedInstances)
  BY SlotHelperAssumption, FS_Subset DEF CountedInstances
<1>3. IsFiniteSet(Renaming)
  BY <1>2, FS_Subset DEF Renaming
<1> QED
  BY <1>1, <1>2, <1>3, FS_CardinalityType

\* A step that adds no entry and brings no slot to its rename keeps the bound.
LEMMA ShrinkWithin ==
    ASSUME IsFiniteSet(trash), IsFiniteSet(trash'), TrashWithin,
           Counted(trash)' \subseteq Counted(trash), Renaming' \subseteq Renaming
    PROVE  TrashWithin'
<1>1. Cardinality(Counted(trash)') <= Cardinality(Counted(trash))
  BY CountsFinite, FS_Subset
<1>2. Cardinality(Renaming') <= Cardinality(Renaming)
  BY CountsFinite, FS_Subset
<1>3. CountedInstances' = CountedInstances
  BY DEF CountedInstances
<1>4. Cardinality(Counted(trash)') \in Nat /\ Cardinality(Renaming') \in Nat
  <2>1. IsFiniteSet(Counted(trash)') /\ IsFiniteSet(Renaming')
    BY <1>3, CountsFinite, FS_Subset
  <2> QED
    BY <2>1, FS_CardinalityType
<1> QED
  BY <1>1, <1>2, <1>3, <1>4, CountsFinite, BoundTypes DEF TrashWithin, Renaming

\* Only a slot that chooses to retire to the trash comes to its rename.
LEMMA NoNewRename ==
    ASSUME UnitType, Next, NEW k \in Instances, At(k, "rename")', ~At(k, "rename")
    PROVE  ChooseRetire(k)
<1>1. ASSUME NEW i \in Instances, ListenerStarts(i) PROVE FALSE
  BY <1>1, StepAt DEF ListenerStarts, At
<1>2. ASSUME NEW i \in Instances, ChooseRetire(i) PROVE k = i
  <2>1. \A j \in Instances \ {i} : unit'[j] = unit[j]
    BY <1>2 DEF ChooseRetire, Step, UnitType
  <2> QED
    BY <2>1 DEF At
<1>3. ASSUME NEW i \in Instances, Rename(i) PROVE FALSE
  <2>1. unit[i].at = "rename" /\ unit[i].then # "rename"
    BY <1>3 DEF Rename, Step, At, UnitType, Units
  <2>2. unit'[i].at # "rename" /\ \A j \in Instances \ {i} : unit'[j] = unit[j]
    <3>1. CASE Step(i, "rename", unit[i].then)
      BY <2>1, <3>1, StepAt
    <3>2. CASE unit' = [unit EXCEPT ![i].at = "delete"]
      BY <3>2 DEF UnitType, Units
    <3> QED
      BY <1>3, <3>1, <3>2 DEF Rename
  <2> QED
    BY <2>2 DEF At
<1>4. ASSUME NEW i \in Instances, DeleteInPlace(i) PROVE FALSE
  <2>1. unit[i].at = "delete" /\ unit[i].then # "rename"
    BY <1>4 DEF DeleteInPlace, Step, At, UnitType, Units
  <2>2. unit'[i].at # "rename" /\ \A j \in Instances \ {i} : unit'[j] = unit[j]
    BY <1>4, <2>1, StepAt DEF DeleteInPlace
  <2> QED
    BY <2>2 DEF At
<1>5. ASSUME NEW i \in Instances, Ready(i) PROVE FALSE
  <2>1. Step(i, "ready", "clean") \/ \E next : Retiring(i, "ready", next)
    BY <1>5 DEF Ready, Fails
  <2>2. unit'[i].at # "rename" /\ \A j \in Instances \ {i} : unit'[j] = unit[j]
    BY <2>1, StepAt, RetiringAt
  <2> QED
    BY <2>2 DEF At
<1>6. ASSUME NEW i \in Instances, MakeRoom(i) PROVE FALSE
  BY <1>6, StepAt, RetiringAt DEF MakeRoom, At
<1>7. ASSUME NEW i \in Instances, LockTrash(i) PROVE FALSE
  BY <1>7, StepAt DEF LockTrash, At
<1>8. ASSUME NEW i \in Instances, RoomReaped(i) PROVE FALSE
  BY <1>8, StepAt DEF RoomReaped, At
<1>9. ASSUME NEW i \in Instances, NoneReaped(i) PROVE FALSE
  BY <1>9, StepAt DEF NoneReaped, At
<1>10. ASSUME NEW i \in Instances, Recheck(i) PROVE FALSE
  BY <1>10, StepAt, RetiringAt DEF Recheck, At
<1>11. ASSUME NEW i \in Instances, Copy(i) PROVE FALSE
  BY <1>11, StepAt, RetiringAt DEF Copy, At
<1>12. ASSUME NEW i \in Instances, LockCodex(i) PROVE FALSE
  BY <1>12, StepAt DEF LockCodex, At
<1>13. ASSUME NEW i \in Instances, ResetCodex(i) PROVE FALSE
  BY <1>13, StepAt DEF ResetCodex, At, Fails
<1>14. ASSUME NEW i \in Instances, Exec(i) PROVE FALSE
  BY <1>14, StepAt DEF Exec, At
<1>15. ASSUME NEW i \in Instances, RunEnds(i) PROVE FALSE
  BY <1>15, StepAt DEF RunEnds, At
<1>16. ASSUME NEW i \in Instances, Clean(i) PROVE FALSE
  BY <1>16, RetiringAt DEF Clean, At
<1>17. ASSUME NEW i \in Instances, LockForReturn(i) PROVE FALSE
  BY <1>17, StepAt DEF LockForReturn, At
<1>18. ASSUME NEW i \in Instances, ReturnCodex(i) PROVE FALSE
  BY <1>18, StepAt DEF ReturnCodex, At
<1>19. ASSUME NEW i \in Instances, End(i) PROVE FALSE
  BY <1>19, StepAt DEF End, At
<1>20. ASSUME NEW i \in Instances, Kill(i) PROVE FALSE
  BY <1>20 DEF Kill, At, UnitType
<1>21. unit' # unit
  BY DEF At
<1> QED
  BY <1>1, <1>2, <1>3, <1>4, <1>5, <1>6, <1>7, <1>8, <1>9, <1>10, <1>11, <1>12,
     <1>13, <1>14, <1>15, <1>16, <1>17, <1>18, <1>19, <1>20, <1>21 DEF Next,
     UnitStep, PassStep, KeeperStep, slot, ListenerClears, ReaperLocks,
     DeleteEntry, Relist, ReaperEnds, Afresh, ReaperKilled, Timer, KeeperLocks,
     KeeperSkips, KeeperRuns, KeeperFails, KeeperReturns

\* Every step keeps the bound of the trash: a look at it that finds room comes
\* with every slot at its rename at the most, and a rename makes an entry of one.
LEMMA TrashWithinStep ==
    ASSUME UnitType, IsFiniteSet(trash), IsFiniteSet(trash'), TrashWithin, Next
    PROVE  TrashWithin'
<1> DEFINE Count == Cardinality(Counted(trash))
           Slots == Cardinality(CountedInstances)
<1>1. CASE \E i \in Instances : ChooseRetire(i)
  <2>1. PICK i \in Instances : ChooseRetire(i)
    BY <1>1
  <2>2. trash' = trash
    BY <2>1 DEF ChooseRetire
  <2>3. CASE KindOf[i] # "wait" /\ TrashHasSpace
    <3>1. Count < TrashMax /\ Counted(trash)' = Counted(trash)
      BY <2>2, <2>3 DEF TrashHasSpace, Counted
    <3>2. /\ Renaming' \subseteq CountedInstances /\ CountedInstances' = CountedInstances
      BY DEF Renaming, CountedInstances
    <3>3. Cardinality(Renaming') <= Slots /\ Cardinality(Renaming') \in Nat
      BY <3>2, CountsFinite, FS_Subset, FS_CardinalityType
    <3> QED
      BY <3>1, <3>2, <3>3, CountsFinite, BoundTypes DEF TrashWithin, Renaming
  <2>4. CASE ~(KindOf[i] # "wait" /\ TrashHasSpace)
    <3>1. ASSUME NEW k \in CountedInstances, At(k, "rename")', ~At(k, "rename") PROVE FALSE
      <4>1. k \in Instances /\ KindOf[k] # "wait"
        BY DEF CountedInstances
      <4>2. ChooseRetire(k)
        BY <3>1, <4>1, NoNewRename
      <4>3. k = i
        BY <2>1, <3>1, <4>1, StepAt DEF ChooseRetire, At, UnitType
      <4>4. unit'[i] = [unit[i] EXCEPT !.at = "delete"] \/ Step(i, "retire", unit[i].then)
        BY <2>1, <2>4, <4>1, <4>3 DEF ChooseRetire, UnitType
      <4>5. unit[i].then # "rename"
        BY DEF UnitType, Units
      <4> QED
        BY <3>1, <4>3, <4>4, <4>5, StepAt DEF At, UnitType, Units
    <3>2. Renaming' \subseteq Renaming /\ Counted(trash)' \subseteq Counted(trash)
      BY <2>2, <3>1 DEF Renaming, CountedInstances, Counted
    <3> QED
      BY <3>2, ShrinkWithin
  <2> QED
    BY <2>3, <2>4
<1>2. CASE \E i \in Instances : Rename(i)
  <2>1. PICK i \in Instances : Rename(i)
    BY <1>2
  <2>2. \A k \in Instances : At(k, "rename")' => At(k, "rename")
    <3>1. ASSUME NEW k \in Instances, At(k, "rename")', ~At(k, "rename") PROVE FALSE
      <4>1. ChooseRetire(k)
        BY <3>1, NoNewRename
      <4>2. unit[k].at = "retire" /\ unit[i].at = "rename"
        BY <2>1, <4>1 DEF ChooseRetire, Rename, At, Step
      <4>3. unit'[k] = unit[k]
        <5>1. CASE Step(i, "rename", unit[i].then)
          BY <4>2, <5>1, StepAt
        <5>2. CASE unit' = [unit EXCEPT ![i].at = "delete"]
          BY <4>2, <5>2 DEF UnitType
        <5> QED
          BY <2>1, <5>1, <5>2 DEF Rename
      <4> QED
        BY <3>1, <4>3 DEF At
    <3> QED
      BY <3>1
  <2>3. Renaming' \subseteq Renaming
    BY <2>2 DEF Renaming, CountedInstances
  <2>4. CASE trash' = trash
    BY <2>3, <2>4, ShrinkWithin DEF Counted
  <2>5. CASE Step(i, "rename", unit[i].then) /\ trash' = trash \cup {NewEntry(i)}
    <3>1. NewEntry(i) \in {i} \X Nat
      BY NewEntryFree
    <3>2. CASE KindOf[i] = "wait"
      BY <2>3, <2>5, <3>1, <3>2, ShrinkWithin DEF Counted
    <3>3. CASE KindOf[i] # "wait"
      <4>1. Counted(trash)' = Counted(trash) \cup {NewEntry(i)}
        BY <2>5, <3>1, <3>3 DEF Counted
      <4>2. i \in Renaming /\ i \notin Renaming'
        <5>1. unit[i].at = "rename" /\ unit'[i].at = unit[i].then /\ unit[i].then # "rename"
          BY <2>5, StepAt DEF UnitType, Units
        <5> QED
          BY <3>3, <5>1 DEF Renaming, CountedInstances, At
      <4>3. Cardinality(Counted(trash)') <= Count + 1 /\ Cardinality(Counted(trash)') \in Nat
        <5> DEFINE C == Counted(trash)
        <5>1. IsFiniteSet(C) /\ Cardinality(C) \in Nat
          BY CountsFinite
        <5> HIDE DEF C
        <5>2. /\ IsFiniteSet(C \cup {NewEntry(i)})
              /\ Cardinality(C \cup {NewEntry(i)}) \in {Cardinality(C), Cardinality(C) + 1}
          <6> DEFINE e == NewEntry(i)
          <6> HIDE DEF e
          <6>1. IsFiniteSet(C \cup {e}) /\ Cardinality(C \cup {e}) \in {Cardinality(C), Cardinality(C) + 1}
            BY <5>1, FS_AddElement
          <6> QED
            BY <6>1 DEF e
        <5>3. Cardinality(C \cup {NewEntry(i)}) \in Nat
          BY <5>2, FS_CardinalityType
        <5> QED
          BY <4>1, <5>1, <5>2, <5>3 DEF C
      <4>4. /\ Cardinality(Renaming \ {i}) = Cardinality(Renaming) - 1
            /\ IsFiniteSet(Renaming \ {i})
        BY <4>2, CountsFinite, FS_RemoveElement
      <4>5. Renaming' \subseteq Renaming \ {i}
        BY <2>3, <4>2
      <4>6. Cardinality(Renaming') <= Cardinality(Renaming) - 1 /\ Cardinality(Renaming') \in Nat
        BY <4>4, <4>5, FS_Subset, FS_CardinalityType
      <4>7. CountedInstances' = CountedInstances
        BY DEF CountedInstances
      <4> QED
        BY <4>3, <4>6, <4>7, CountsFinite, BoundTypes DEF TrashWithin, Renaming
    <3> QED
      BY <3>2, <3>3
  <2> QED
    BY <2>1, <2>4, <2>5 DEF Rename
<1>3. CASE ~(\E i \in Instances : ChooseRetire(i) \/ Rename(i))
  <2>1. trash' \subseteq trash
    <3>1. ASSUME NEW i \in Instances, UnitStep(i) PROVE trash' \subseteq trash
      BY <1>3, <3>1 DEF UnitStep, pile,
         DeleteInPlace, Ready, MakeRoom, LockTrash, NoneReaped, Recheck, Copy,
         LockCodex, ResetCodex, Exec, RunEnds, Clean, LockForReturn, ReturnCodex, End
    <3>2. ASSUME PassStep \/ (\E i \in Instances : KeeperStep(i)) PROVE trash' \subseteq trash
      BY <3>2 DEF PassStep, KeeperStep, pile, Relist, ReaperEnds, DeleteEntry, KeeperSkips, KeeperRuns, KeeperFails, KeeperReturns
    <3> QED
      BY <3>1, <3>2 DEF Next, pile,
         ListenerStarts, ListenerClears, RoomReaped, Kill, KeeperLocks, ReaperLocks,
         Afresh, ReaperKilled, Timer
  <2>2. Renaming' \subseteq Renaming
    BY <1>3, NoNewRename DEF Renaming, CountedInstances
  <2>3. Counted(trash)' \subseteq Counted(trash)
    BY <2>1 DEF Counted
  <2> QED
    BY <2>2, <2>3, ShrinkWithin
<1> QED
  BY <1>1, <1>2, <1>3

------------------------------------------------------------------------------
(* The theorems                                                             *)

\* The invariant holds at the start.
LEMMA InitIInv == Init => IInv
<1> SUFFICES ASSUME Init PROVE IInv
  OBVIOUS
<1>1. Types /\ IsFiniteSet(trash)
  BY InitTypes, FS_EmptySet DEF Init
<1>2. ASSUME NEW i \in Instances PROVE Good(i)
  <2>1. /\ unit[i].at = "down" /\ ~container[i] /\ lock[i] = None
        /\ keeper = [store |-> None, runs |-> FALSE]
    BY DEF Init, Off
  <2> QED
    BY <2>1, Names, LockNames
    DEF Good, Busy, ContainerAt, FreshCopy, LockHeld, CodexReset, Alone, At
<1>3. TrashWithin
  <2>1. Counted(trash) = {} /\ Renaming = {}
    BY DEF Init, Counted, Renaming, CountedInstances, At
  <2> QED
    BY <1>1, <2>1, CountsFinite, FS_EmptySet, BoundTypes DEF TrashWithin, Renaming
<1> QED
  BY <1>1, <1>2, <1>3 DEF IInv

\* Every step leaves every instance good.
LEMMA GoodStep ==
    ASSUME Types, \A i \in Instances : Good(i), Next, NEW k \in Instances
    PROVE  Good(k)'
<1>1. ASSUME NEW i \in Instances,
             \/ ListenerStarts(i) \/ ListenerClears(i) \/ UnitStep(i) \/ RoomReaped(i) \/ Kill(i)
             \/ KeeperLocks(i) \/ KeeperStep(i)
      PROVE  Good(k)'
  <2>1. CASE i = k
    BY <1>1, <2>1, OwnGood DEF Types
  <2>2. CASE i # k
    BY <1>1, <2>2, OthersSame, SameGood DEF Types
  <2> QED
    BY <2>1, <2>2
<1>2. ASSUME ReaperLocks \/ PassStep \/ Afresh \/ ReaperKilled \/ Timer PROVE Good(k)'
  <2>1. UNCHANGED <<slot, login, missed>>
    BY <1>2 DEF PassStep, ReaperLocks, Relist, ReaperEnds, DeleteEntry, Afresh, ReaperKilled, Timer
  <2> QED
    BY <2>1, SameGood DEF slot, login, Same
<1> QED
  BY <1>1, <1>2 DEF Next

\* The invariant is inductive.
LEMMA NextIInv == IInv /\ [Next]_vars => IInv'
<1> SUFFICES ASSUME IInv, [Next]_vars PROVE IInv'
  OBVIOUS
<1>1. Types' /\ IsFiniteSet(trash')
  BY TypesStep DEF IInv
<1>2. CASE Next
  <2>1. \A k \in Instances : Good(k)'
    BY <1>2, GoodStep DEF IInv
  <2>2. TrashWithin'
    BY <1>1, <1>2, TrashWithinStep DEF IInv, Types
  <2> QED
    BY <1>1, <2>1, <2>2 DEF IInv
<1>3. CASE UNCHANGED vars
  <2>1. UNCHANGED <<slot, pile, login, missed>>
    BY <1>3 DEF vars
  <2>2. ASSUME NEW k \in Instances PROVE Good(k)'
    BY <2>1, <2>2, SameGood DEF IInv, slot, login, Same
  <2>3. Counted(trash)' = Counted(trash) /\ Renaming' = Renaming
    BY <2>1 DEF slot, pile, Counted, Renaming, CountedInstances, At
  <2>4. TrashWithin'
    BY <2>3 DEF IInv, TrashWithin, Renaming, CountedInstances
  <2> QED
    BY <1>1, <2>2, <2>4 DEF IInv
<1> QED
  BY <1>2, <1>3

\* The invariant holds throughout.
LEMMA SpecIInv == Spec => []IInv
BY InitIInv, NextIInv, PTL DEF Spec

\* Every variable keeps its type.
THEOREM SlotTypesCorrect == Spec => []TypeOK
<1>1. IInv => TypeOK
  BY TypesImplyTypeOK DEF IInv
<1> QED
  BY <1>1, SpecIInv, PTL

\* Codex never works on a store for the lane user while a job's container has
\* its login, on any number of instances: the lock and the job file together
\* leave no gap, whatever is killed (codex_keepalive, prepare, the unit).
THEOREM CodexIsAlone == Spec => []CodexAlone
<1>1. IInv => CodexAlone
  BY DEF IInv, Good, Alone, CodexAlone
<1> QED
  BY <1>1, SpecIInv, PTL

\* Only a start of the unit runs a container.
LEMMA ContainerStarts ==
    ASSUME SlotType, Next, NEW k \in Instances, ~container[k], container'[k]
    PROVE  Exec(k)
<1>1. ASSUME NEW i \in Instances, Ready(i) PROVE FALSE
  BY <1>1 DEF Ready, SlotType
<1>2. ASSUME NEW i \in Instances, Exec(i) PROVE i = k
  BY <1>2 DEF Exec, SlotType
<1>3. ASSUME NEW i \in Instances, RunEnds(i) PROVE FALSE
  BY <1>3 DEF RunEnds, SlotType
<1>4. ASSUME NEW i \in Instances, Clean(i) PROVE FALSE
  BY <1>4 DEF Clean, SlotType
<1>5. container' # container
  OBVIOUS
<1>6. ASSUME NEW i \in Instances, UnitStep(i) PROVE Exec(k)
  BY <1>1, <1>2, <1>3, <1>4, <1>5, <1>6 DEF UnitStep, slot, ChooseRetire, Rename, DeleteInPlace, MakeRoom, LockTrash, NoneReaped,
     Recheck, Copy, LockCodex, ResetCodex, LockForReturn, ReturnCodex, End
<1>7. ASSUME PassStep \/ (\E i \in Instances : KeeperStep(i)) PROVE Exec(k)
  BY <1>1, <1>2, <1>3, <1>4, <1>5, <1>7 DEF PassStep, KeeperStep, slot, Relist, ReaperEnds, DeleteEntry, KeeperSkips, KeeperRuns, KeeperFails, KeeperReturns
<1> QED
  BY <1>1, <1>2, <1>3, <1>4, <1>5, <1>6, <1>7 DEF Next, slot, ListenerStarts, ListenerClears, RoomReaped, Kill, KeeperLocks, ReaperLocks,
     Afresh, ReaperKilled, Timer

\* A container starts on its own job's fresh copy and, for a qae job, on the
\* Codex store its prepare handed to it, whatever ran in between (Exec, the copy,
\* codex_keepalive) and whatever failed before; more than the login is left in it
\* only where a step of that reset failed unheard (reset_codex_store).
THEOREM StartsAreFresh == Spec => FreshStart
<1>1. ASSUME IInv, [Next]_vars, NEW i \in Instances, ~container[i], container'[i]
      PROVE  /\ copy[i] = "fresh"
             /\ KindOf[i] = "qae" =>
                   codex[i].owner = "job" /\ (codex[i].left => codex[i].unheard)
  <2>1. CASE Next
    <3>1. At(i, "exec")
      BY <1>1, <2>1, ContainerStarts DEF IInv, Types, Exec, Step, At
    <3> QED
      BY <1>1, <3>1 DEF IInv, Good, FreshCopy, CodexReset, At
  <2>2. CASE UNCHANGED vars
    BY <1>1, <2>2 DEF vars, slot
  <2> QED
    BY <1>1, <2>1, <2>2
<1>2. IInv /\ [Next]_vars =>
        [\A i \in Instances : ~container[i] /\ container'[i] =>
            /\ copy[i] = "fresh"
            /\ KindOf[i] = "qae" =>
                  codex[i].owner = "job" /\ (codex[i].left => codex[i].unheard)]_vars
  BY <1>1
<1> QED
  BY <1>2, SpecIInv, PTL DEF Spec, FreshStart

\* The trash outgrows its bound by no more than one entry for each further ci
\* or qae instance, for every bound and set of instances (retire_store).
THEOREM TrashStaysWithin == Spec => []TrashWithin
<1>1. IInv => TrashWithin
  BY DEF IInv
<1> QED
  BY <1>1, SpecIInv, PTL

============================================================================
