--------------------------- MODULE Lane_proofs ---------------------------
(***************************************************************************)
(* Proofs that a lane's slots stay apart and within its budgets: for every *)
(* lane, any number of sets, instances and runners, and however            *)
(* reconciles, goroutines, units, messages, crashes and restarts           *)
(* interleave.                                                             *)
(***************************************************************************)
EXTENDS Lane, LanePlanner_proofs

\* The steps of a start's goroutine up to its unit's answer.
Early == {"mint", "write", "start", "starting"}

\* A start's goroutine owns its slot until its unit answers.
StartsOwn == \A r \in Runners : op[r] \in Early => Tracks(r) /\ slots[RefOf(r)].phase = "starting"

\* Its runner is new: it has no job, and no message is about it.
StartsFresh ==
    \A r \in Runners : op[r] \in Early =>
        runner[r] # "busy" /\ <<"started", r>> \notin events /\ <<"completed", r>> \notin events

\* Nothing runs on its instance before it starts the unit there.
StartsWait ==
    \A r \in Runners : /\ op[r] \in {"mint", "write", "start"} => unit[RefOf(r)] = "inactive"
                       /\ op[r] = "starting" => unit[RefOf(r)] = "activating"

\* Slots and files are those of their instance, and a slot's file names its runner or is gone.
FilesOwn ==
    \A x \in Refs : /\ file[x] # NoRunner => RefOf(file[x]) = x
                    /\ slots[x] # NoSlot => RefOf(slots[x].runner) = x /\ file[x] \in {NoRunner, slots[x].runner}

\* What runs on an instance is what its slot and its files name.
LoadsOwn ==
    \A x \in Refs : unit[x] = "active" =>
        /\ load[x] # NoRunner /\ file[x] \in {load[x], NoRunner}
        /\ slots[x] # NoSlot => slots[x].runner = load[x]

\* A listener that is down has no goroutine.
DownIsQuiet == ~up => \A r \in Runners : op[r] = "none"

IInv ==
    TypeOK /\ StartsOwn /\ StartsFresh /\ StartsWait /\ FilesOwn /\ LoadsOwn /\ DownIsQuiet /\ StopSparesOwnJob

------------------------------------------------------------------------------
(* What a round decides *)

LEMMA RunnersFinite == IsFiniteSet(Runners)
<1>1. IsFiniteSet(1 .. RunnersPerRef)
  <2>1. RunnersPerRef \in Int /\ 1 \in Int
    BY LaneAssumption
  <2> QED
    BY <2>1, FS_Interval
<1> QED
  BY <1>1, RefsFinite, FS_Product DEF Runners

\* The starts of a round are on instances that are neither owned nor foreign, one each, and its stops
\* on owned ones that are idle.
LEMMA RoundFacts ==
    ASSUME TypeOK, NEW aged, NEW old, NEW mem
    PROVE  LET plan == MakePlan(RoundInput(aged, old, mem)) IN
           /\ plan.starts \subseteq [set : SetKeys, ref : Refs]
           /\ \A s \in plan.starts : /\ s.ref \notin Owned \cup Foreign
                                     /\ \A t \in plan.starts : t.ref = s.ref => t = s
           /\ \A x \in plan.idleStops \cup plan.recycles : x \in Owned /\ slots[x].phase = "idle"
           /\ StartsWithin(RoundInput(aged, old, mem), plan.starts)
           /\ DOMAIN RoundInput(aged, old, mem).occupied = Owned \cup Foreign
<1> DEFINE i == RoundInput(aged, old, mem)
<1>1. /\ DOMAIN i.occupied = Owned \cup Foreign
      /\ \A x \in Owned \cup Foreign : i.occupied[x].phase = IF x \in Foreign THEN "done" ELSE slots[x].phase
  BY DEF RoundInput, Occupied
<1>2. Owned \cup Foreign \subseteq Refs
  BY DEF Owned, Foreign, Tracked
<1>3. IsFiniteSet(DOMAIN i.occupied)
  BY <1>1, <1>2, RefsFinite, FS_Subset
<1> HIDE DEF i
<1>4. /\ PlanStarts(i) \subseteq [set : SetKeys, ref : Refs]
      /\ StartsApart(i, PlanStarts(i)) /\ StartsWithin(i, PlanStarts(i))
  BY <1>3, RoundIsSafe
<1>5. \A k : \A x \in IdleOf(i, k) : x \in Owned /\ slots[x].phase = "idle"
  BY <1>1 DEF IdleOf, SlotsIn
<1>6. \A x \in PlanIdleStops(i) : x \in Owned /\ slots[x].phase = "idle"
  BY <1>5 DEF PlanIdleStops, IdleStopsOf
<1>7. \A stops : \A x \in PlanRecycles(i, stops) : x \in Owned /\ slots[x].phase = "idle"
  BY <1>5 DEF PlanRecycles, RecyclesOf, Recyclable
<1>8. /\ MakePlan(i).starts = PlanStarts(i) /\ MakePlan(i).idleStops = PlanIdleStops(i)
      /\ MakePlan(i).recycles = PlanRecycles(i, PlanIdleStops(i))
  BY DEF MakePlan
<1>9. /\ MakePlan(i).starts \subseteq [set : SetKeys, ref : Refs]
      /\ \A s \in MakePlan(i).starts : /\ s.ref \notin Owned \cup Foreign
                                       /\ \A t \in MakePlan(i).starts : t.ref = s.ref => t = s
      /\ \A x \in MakePlan(i).idleStops \cup MakePlan(i).recycles : x \in Owned /\ slots[x].phase = "idle"
      /\ StartsWithin(i, MakePlan(i).starts)
      /\ DOMAIN i.occupied = Owned \cup Foreign
  BY <1>1, <1>4, <1>6, <1>7, <1>8 DEF StartsApart
<1> QED
  BY <1>9 DEF i

\* What a reconcile makes of an instance's slot.
Begins(x) ==
    \/ x \in Owned /\ slots'[x] = slots[x]
    \/ /\ x \in Owned /\ slots[x].phase = "idle" /\ slots'[x] = [slots[x] EXCEPT !.phase = "stopping"]
       /\ op'[slots[x].runner] \in {"mint", "marker"}
    \/ x \notin Owned /\ slots'[x] = NoSlot
    \/ /\ x \notin Owned \cup Foreign
       /\ \E r \in Runners, k \in SetKeys :
            /\ RefOf(r) = x /\ Unused(r) /\ op'[r] = "mint"
            /\ slots'[x] = [set |-> k, phase |-> "starting", runner |-> r]

\* And of a runner's goroutine.
GoesOn(r) ==
    \/ op'[r] = op[r]
    \/ /\ op'[r] = "marker"
       /\ \E x \in Owned : /\ slots[x].runner = r /\ slots[x].phase = "idle"
                          /\ slots'[x] = [slots[x] EXCEPT !.phase = "stopping"]
    \/ /\ op'[r] = "mint" /\ Unused(r) /\ RefOf(r) \notin Owned \cup Foreign
       /\ \E k \in SetKeys : slots'[RefOf(r)] = [set |-> k, phase |-> "starting", runner |-> r]

LEMMA ReconcileFacts ==
    ASSUME TypeOK, NEW aged, NEW old, NEW mem, Reconcile(aged, old, mem)
    PROVE  /\ \A x \in Refs : Begins(x)
           /\ \A r \in Runners : GoesOn(r)
           /\ \A x \in Refs : /\ file'[x] \in {file[x], NoRunner}
                              /\ x \notin Owned \cup Foreign => file'[x] = NoRunner
           /\ slots' = [x \in Refs |-> slots'[x]] /\ op' = [r \in Runners |-> op'[r]]
           /\ setOf' \in [Runners -> SetKeys \cup {NoSet}]
           /\ \A x \in Refs : slots'[x] # NoSlot =>
                x \in Owned \cup StartedIn(MakePlan(RoundInput(aged, old, mem)).starts)
<1> DEFINE plan == MakePlan(RoundInput(aged, old, mem))
           starts == Startable(plan.starts)
           stops == plan.idleStops \cup plan.recycles
           starting == {s.ref : s \in starts}
<1>1. Begin(starts, stops)
  BY DEF Reconcile
<1>2. /\ starts \subseteq [set : SetKeys, ref : Refs]
      /\ \A s \in starts : /\ s.ref \notin Owned \cup Foreign
                           /\ \E r \in Runners : RefOf(r) = s.ref /\ Unused(r)
      /\ \A x \in stops : x \in Owned /\ slots[x].phase = "idle"
  BY RoundFacts DEF Startable
<1>14. starting \subseteq StartedIn(plan.starts)
  BY DEF Startable, StartedIn
<1> HIDE DEF plan, starts, stops
<1>3. \A x \in starting : /\ x \in Refs \ (Owned \cup Foreign)
                          /\ RunnerFor(x) \in Runners /\ RefOf(RunnerFor(x)) = x /\ Unused(RunnerFor(x))
                          /\ StartAt(starts, x).set \in SetKeys
  <2> SUFFICES ASSUME NEW s \in starts
               PROVE  /\ s.ref \in Refs \ (Owned \cup Foreign)
                      /\ RunnerFor(s.ref) \in Runners /\ RefOf(RunnerFor(s.ref)) = s.ref /\ Unused(RunnerFor(s.ref))
                      /\ StartAt(starts, s.ref).set \in SetKeys
    OBVIOUS
  <2>1. s.ref \in Refs /\ s.ref \notin Owned \cup Foreign /\ \E r \in Runners : RefOf(r) = s.ref /\ Unused(r)
    BY <1>2
  <2>2. RunnerFor(s.ref) \in Runners /\ RefOf(RunnerFor(s.ref)) = s.ref /\ Unused(RunnerFor(s.ref))
    BY <2>1 DEF RunnerFor
  <2>3. StartAt(starts, s.ref) \in starts
    BY DEF StartAt
  <2> QED
    BY <1>2, <2>1, <2>2, <2>3
<1>4. slots' = [x \in Refs |->
               CASE x \in starting -> [set |-> StartAt(starts, x).set, phase |-> "starting", runner |-> RunnerFor(x)]
                 [] x \in stops -> [slots[x] EXCEPT !.phase = "stopping"]
                 [] x \in Lost \ starting -> NoSlot
                 [] OTHER -> slots[x]]
  BY <1>1 DEF Begin
<1>5. op' = [r \in Runners |-> IF r \in {RunnerFor(x) : x \in starting} THEN "mint"
                               ELSE IF r \in {slots[x].runner : x \in stops} THEN "marker" ELSE op[r]]
  BY <1>1 DEF Begin
<1>6. setOf' = [r \in Runners |-> IF r \in {RunnerFor(x) : x \in starting} THEN StartAt(starts, RefOf(r)).set ELSE setOf[r]]
  BY <1>1 DEF Begin
<1>13. starting \cap stops = {} /\ starting \cap Owned = {} /\ Lost \cap Owned = {} /\ stops \subseteq Owned
  BY <1>2, <1>3 DEF Lost
<1> HIDE DEF starting
<1>7. ASSUME NEW x \in starting
      PROVE  /\ slots'[x] = [set |-> StartAt(starts, x).set, phase |-> "starting", runner |-> RunnerFor(x)]
             /\ op'[RunnerFor(x)] = "mint"
  <2>1. x \in Refs /\ RunnerFor(x) \in Runners
    BY <1>3
  <2>2. slots'[x] = [set |-> StartAt(starts, x).set, phase |-> "starting", runner |-> RunnerFor(x)]
    BY <1>4, <1>13, <2>1
  <2>3. op'[RunnerFor(x)] = "mint"
    BY <1>5, <2>1
  <2> QED
    BY <2>2, <2>3
<1>8. ASSUME NEW x \in Refs PROVE Begins(x)
  <2>1. CASE x \in starting
    BY <1>3, <1>7, <2>1 DEF Begins
  <2>2. CASE x \notin starting /\ x \in stops
    <3>1. slots'[x] = [slots[x] EXCEPT !.phase = "stopping"]
      BY <1>4, <1>13, <2>2
    <3>2. x \in Owned /\ slots[x].phase = "idle"
      BY <1>2, <2>2
    <3>3. slots[x].runner \in Runners
      BY <3>2 DEF Owned, Tracked, TypeOK, Slot
    <3>4. op'[slots[x].runner] \in {"mint", "marker"}
      BY <1>5, <2>2, <3>3
    <3> QED
      BY <3>1, <3>2, <3>4 DEF Begins
  <2>3. CASE x \notin starting /\ x \notin stops /\ x \in Lost
    BY <1>4, <2>3 DEF Begins, Lost
  <2>4. CASE x \notin starting /\ x \notin stops /\ x \notin Lost
    BY <1>4, <2>4 DEF Begins, Lost, Tracked
  <2> QED
    BY <2>1, <2>2, <2>3, <2>4
<1>9. ASSUME NEW r \in Runners PROVE GoesOn(r)
  <2>1. CASE r \in {RunnerFor(x) : x \in starting}
    <3>1. PICK x \in starting : r = RunnerFor(x)
      BY <2>1
    <3> QED
      BY <1>3, <1>7, <3>1 DEF GoesOn
  <2>2. CASE r \notin {RunnerFor(x) : x \in starting} /\ r \in {slots[x].runner : x \in stops}
    <3>1. PICK x \in stops : r = slots[x].runner
      BY <2>2
    <3>2. x \in Owned /\ slots[x].phase = "idle" /\ x \in Refs /\ x \notin starting
      BY <1>2, <1>13, <3>1 DEF Owned, Tracked
    <3>3. slots'[x] = [slots[x] EXCEPT !.phase = "stopping"]
      BY <1>4, <3>1, <3>2, <1>13
    <3>4. op'[r] = "marker"
      BY <1>5, <2>2
    <3> QED
      BY <3>1, <3>2, <3>3, <3>4 DEF GoesOn
  <2>3. CASE r \notin {RunnerFor(x) : x \in starting} /\ r \notin {slots[x].runner : x \in stops}
    BY <1>5, <2>3 DEF GoesOn
  <2> QED
    BY <2>1, <2>2, <2>3
<1>10. \A x \in Refs : /\ file'[x] \in {file[x], NoRunner}
                       /\ x \notin Owned \cup Foreign => file'[x] = NoRunner
  BY DEF Reconcile, Cleared, Leftover, Lost, Owned, Foreign, Tracked
<1>11. setOf' \in [Runners -> SetKeys \cup {NoSet}]
  <2>1. \A r \in Runners : setOf'[r] \in SetKeys \cup {NoSet}
    <3> TAKE r \in Runners
    <3>1. CASE r \in {RunnerFor(x) : x \in starting}
      BY <1>3, <1>6, <3>1
    <3>2. CASE r \notin {RunnerFor(x) : x \in starting}
      BY <1>6, <3>2 DEF TypeOK
    <3> QED
      BY <3>1, <3>2
  <2> QED
    BY <1>6, <2>1
<1>12. \A x \in Refs : slots'[x] # NoSlot => x \in Owned \cup StartedIn(plan.starts)
  <2> TAKE x \in Refs
  <2>1. CASE x \in starting \/ x \in stops
    BY <1>13, <1>14, <2>1
  <2>2. CASE x \notin starting /\ x \notin stops
    BY <1>4, <2>2 DEF Lost, Tracked
  <2> QED
    BY <2>1, <2>2
<1> QED
  BY <1>4, <1>5, <1>8, <1>9, <1>10, <1>11, <1>12 DEF plan

------------------------------------------------------------------------------
(* Types *)

\* What a goroutine or a message makes of slots is a slot or none.
LEMMA SlotTypes ==
    ASSUME TypeOK, NEW r \in Runners
    PROVE  /\ \A phase \in Phases : Tracks(r) => SetPhase(r, phase) \in [Refs -> Slot \cup {NoSlot}]
           /\ \A from, to \in Phases : PhaseIf(r, from, to) \in [Refs -> Slot \cup {NoSlot}]
           /\ Forget(r) \in [Refs -> Slot \cup {NoSlot}]
<1>1. ASSUME NEW phase \in Phases, Tracks(r) PROVE SetPhase(r, phase) \in [Refs -> Slot \cup {NoSlot}]
  <2>1. slots[RefOf(r)] \in Slot /\ RefOf(r) \in Refs
    BY <1>1 DEF TypeOK, Tracks, Runners, RefOf
  <2>2. [slots[RefOf(r)] EXCEPT !.phase = phase] \in Slot
    BY <2>1 DEF Slot
  <2>3. SetPhase(r, phase) = [x \in Refs |-> IF x = RefOf(r) THEN [slots[RefOf(r)] EXCEPT !.phase = phase] ELSE slots[x]]
    BY <2>1 DEF SetPhase, TypeOK
  <2> QED
    BY <2>2, <2>3 DEF TypeOK
<1>2. \A from, to \in Phases : PhaseIf(r, from, to) \in [Refs -> Slot \cup {NoSlot}]
  BY <1>1 DEF PhaseIf, TypeOK
<1>3. Forget(r) \in [Refs -> Slot \cup {NoSlot}]
  BY DEF Forget, TypeOK
<1> QED
  BY <1>1, <1>2, <1>3

LEMMA RunnerTypes ==
    ASSUME TypeOK, NEW r
    PROVE  /\ Removed(r) \in [Runners -> {"none", "ready", "busy"}]
           /\ \A s \in {"none", "ready", "busy"} : [runner EXCEPT ![r] = s] \in [Runners -> {"none", "ready", "busy"}]
BY DEF TypeOK, Removed

LEMMA TypeStep == TypeOK /\ [Next]_vars => TypeOK'
<1> SUFFICES ASSUME TypeOK, [Next]_vars PROVE TypeOK'
  OBVIOUS
<1> USE DEF listener, machine, github
<1>0. /\ \A r \in Runners : RefOf(r) \in Refs
      /\ Fault => faults' \in 0 .. MaxFaults
  BY LaneAssumption DEF Runners, RefOf, Fault, TypeOK
<1>1. ASSUME NEW aged, NEW old, NEW mem, Reconcile(aged, old, mem) PROVE TypeOK'
  <2>1. slots' \in [Refs -> Slot \cup {NoSlot}]
    <3>1. \A x \in Refs : slots'[x] \in Slot \cup {NoSlot}
      <4> TAKE x \in Refs
      <4>1. Begins(x)
        BY <1>1, ReconcileFacts
      <4>2. slots[x] \in Slot => [slots[x] EXCEPT !.phase = "stopping"] \in Slot
        BY DEF Slot, Phases
      <4>3. \A r \in Runners, k \in SetKeys : [set |-> k, phase |-> "starting", runner |-> r] \in Slot
        BY DEF Slot, Phases
      <4>4. x \in Owned => slots[x] \in Slot
        BY DEF Owned, Tracked, TypeOK
      <4>5. slots[x] \in Slot \cup {NoSlot}
        BY DEF TypeOK
      <4> QED
        BY <4>1, <4>2, <4>3, <4>4, <4>5 DEF Begins
    <3> QED
      BY <1>1, <3>1, ReconcileFacts
  <2>2. op' \in [Runners -> OpSteps]
    <3>1. \A r \in Runners : op'[r] \in OpSteps
      BY <1>1, ReconcileFacts DEF GoesOn, TypeOK, OpSteps
    <3> QED
      BY <1>1, <3>1, ReconcileFacts
  <2>3. Withdrawn \subseteq Runners
    <3>1. \A x \in Tracked : slots[x].runner \in Runners
      BY DEF Tracked, TypeOK, Slot
    <3> QED
      BY <3>1 DEF Withdrawn, Lost, Leftover, TypeOK
  <2>4. setOf' \in [Runners -> SetKeys \cup {NoSet}]
    BY <1>1, ReconcileFacts
  <2>5. file' \in [Refs -> Runners \cup {NoRunner}] /\ marker' \subseteq Refs /\ removing' \subseteq Runners
    BY <1>1, <2>3 DEF Reconcile, TypeOK
  <2> QED
    BY <1>1, <2>1, <2>2, <2>4, <2>5 DEF Reconcile, TypeOK
<1>2. ASSUME NEW r \in Runners, StartStep(r) \/ StartMisreported(r) \/ StopStep(r) \/ RemoveLater(r) PROVE TypeOK'
  <2>1. \A next \in OpSteps : [op EXCEPT ![r] = next] \in [Runners -> OpSteps]
    BY DEF TypeOK
  <2> USE DEF OpSteps
  <2>2. /\ \A from, to \in Phases : PhaseIf(r, from, to) \in [Refs -> Slot \cup {NoSlot}]
        /\ Forget(r) \in [Refs -> Slot \cup {NoSlot}] /\ AbortStop(r) \in [Refs -> Slot \cup {NoSlot}]
        /\ slots \in [Refs -> Slot \cup {NoSlot}]
    BY SlotTypes DEF AbortStop, Phases, TypeOK
  <2>3. /\ Removed(r) \in [Runners -> {"none", "ready", "busy"}]
        /\ [runner EXCEPT ![r] = "ready"] \in [Runners -> {"none", "ready", "busy"}]
        /\ runner \in [Runners -> {"none", "ready", "busy"}]
    BY RunnerTypes DEF TypeOK
  <2>4. CASE StopUnit(r)
    <3>1. op' \in [Runners -> OpSteps] /\ unit' \in [Refs -> UnitStates]
      BY <2>4 DEF StopUnit, TypeOK, UnitStates
    <3> QED
      BY <2>4, <3>1 DEF StopUnit, TypeOK
  <2>5. CASE ~StopUnit(r)
    <3>1. op' \in [Runners -> OpSteps]
      BY <1>2, <2>1, <2>5 DEF StartStep, StopStep, Mint, MintFails, WriteFiles, StartUnit, StartReturns, Undo, StartMisreported,
           WriteMarker, RemoveForStop, RemoveForStopFails, StopReturns, RemoveLater, Goroutine, TypeOK
    <3>2. slots' \in [Refs -> Slot \cup {NoSlot}]
      BY <1>2, <2>2, <2>5 DEF StartStep, StopStep, Mint, MintFails, WriteFiles, StartUnit, StartReturns, Undo, StartMisreported,
           WriteMarker, RemoveForStop, RemoveForStopFails, StopReturns, RemoveLater, Phases
    <3>3. runner' \in [Runners -> {"none", "ready", "busy"}]
      BY <1>2, <2>3, <2>5 DEF StartStep, StopStep, Mint, MintFails, WriteFiles, StartUnit, StartReturns, Undo, StartMisreported,
           WriteMarker, RemoveForStop, RemoveForStopFails, StopReturns, RemoveLater
    <3>4. /\ file' \in [Refs -> Runners \cup {NoRunner}] /\ marker' \subseteq Refs /\ unit' \in [Refs -> UnitStates]
          /\ removing' \subseteq Runners /\ orphans' \subseteq Runners
      BY <1>0, <1>2, <2>5 DEF StartStep, StopStep, Mint, MintFails, WriteFiles, StartUnit, StartReturns, Undo, StartMisreported,
           WriteMarker, RemoveForStop, RemoveForStopFails, StopReturns, RemoveLater, TypeOK, UnitStates
    <3>5. faults' \in 0 .. MaxFaults
      BY <1>0, <1>2, <2>5 DEF StartStep, StopStep, Mint, MintFails, WriteFiles, StartUnit, StartReturns, Undo, StartMisreported,
           WriteMarker, RemoveForStop, RemoveForStopFails, StopReturns, RemoveLater, TypeOK
    <3>6. UNCHANGED <<up, served, assigned, load, setOf, queued, events>>
      BY <1>2, <2>5 DEF StartStep, StopStep, Mint, MintFails, WriteFiles, StartUnit, StartReturns, Undo, StartMisreported,
           WriteMarker, RemoveForStop, RemoveForStopFails, StopReturns, RemoveLater
    <3> QED
      BY <3>1, <3>2, <3>3, <3>4, <3>5, <3>6 DEF TypeOK
  <2> QED
    BY <2>4, <2>5
<1>3. ASSUME NEW r \in Runners, JobStarted(r) \/ JobCompleted(r) PROVE TypeOK'
  BY <1>3, SlotTypes DEF JobStarted, JobCompleted, Deliver, TypeOK, Phases
<1>4. ASSUME NEW r \in Runners, TakeJob(r) \/ JobEnds(r) \/ Sweep(r) PROVE TypeOK'
  <2>1. runner' \in [Runners -> {"none", "ready", "busy"}]
    <3>1. runner' = [runner EXCEPT ![r] = "busy"] \/ runner' = [runner EXCEPT ![r] = "none"] \/ runner' = Removed(r)
      BY <1>4 DEF TakeJob, JobEnds, Sweep
    <3>2. TypeOK
      OBVIOUS
    <3> QED
      BY <3>1, <3>2, RunnerTypes
  <2>2. queued' \in [SetKeys -> Nat]
    BY <1>4 DEF TakeJob, JobEnds, Sweep, TypeOK
  <2> QED
    BY <1>4, <2>1, <2>2 DEF TakeJob, JobEnds, Sweep, TypeOK
<1>5. ASSUME NEW k \in SetKeys, Statistics(k) PROVE TypeOK'
  <2>1. TotalAssigned(k) \in Int
    <3>1. IsFiniteSet({r \in Runners : runner[r] = "busy" /\ setOf[r] = k})
      BY RunnersFinite, FS_Subset
    <3> QED
      BY <3>1, FS_CardinalityType DEF TotalAssigned, TypeOK
  <2> QED
    BY <1>5, <2>1 DEF Statistics, TypeOK
<1>6. ASSUME NEW k \in SetKeys, ServeSet(k) \/ DropSet(k) \/ JobArrives(k) PROVE TypeOK'
  BY <1>6 DEF ServeSet, DropSet, JobArrives, TypeOK
<1>7. ASSUME NEW x \in Refs, UnitStep(x) \/ CleanupKilled(x) PROVE TypeOK'
  <2>1. unit' \in [Refs -> UnitStates]
    BY <1>7 DEF UnitStep, PrepareOk, PrepareFails, Exit, Deregister, CleanupFiles, CleanupKilled, UnitMoves, TypeOK, UnitStates
  <2>2. op' \in [Runners -> OpSteps]
    BY <1>7 DEF UnitStep, PrepareOk, PrepareFails, Exit, Deregister, CleanupFiles, CleanupKilled, StartEnds, TypeOK, OpSteps
  <2>3. CASE PrepareOk(x) \/ PrepareFails(x) \/ Exit(x)
    BY <1>0, <2>1, <2>2, <2>3 DEF PrepareOk, PrepareFails, Exit, TypeOK
  <2>4. CASE Deregister(x)
    BY <1>0, <2>1, <2>2, <2>4, RunnerTypes DEF Deregister, TypeOK
  <2>5. CASE CleanupFiles(x) \/ CleanupKilled(x)
    BY <1>0, <2>1, <2>2, <2>5 DEF CleanupFiles, CleanupKilled, TypeOK
  <2> QED
    BY <1>7, <2>3, <2>4, <2>5 DEF UnitStep
<1>8. ASSUME NEW e \in events, LoseEvent(e) PROVE TypeOK'
  BY <1>8 DEF LoseEvent, TypeOK
<1>9. CASE Crash
  <2>1. slots' \in [Refs -> Slot \cup {NoSlot}] /\ op' \in [Runners -> OpSteps] /\ assigned' \in [SetKeys -> Int]
    BY <1>9 DEF Crash, OpSteps
  <2>2. orphans' \subseteq Runners
    BY <1>9 DEF Crash, TypeOK
  <2> QED
    BY <1>0, <1>9, <2>1, <2>2 DEF Crash, TypeOK
<1>10. CASE Restart
  <2>1. PICK unreadable \in BOOLEAN : Restart!2!(unreadable)
    BY <1>10 DEF Restart
  <2>2. slots' \in [Refs -> Slot \cup {NoSlot}]
    <3>1. \A x \in Refs : file[x] # NoRunner => [set |-> setOf[file[x]], phase |-> "idle", runner |-> file[x]] \in Slot
      BY DEF TypeOK, Slot, Phases
    <3> QED
      BY <2>1, <3>1
  <2>3. file' \in [Refs -> Runners \cup {NoRunner}] /\ marker' \subseteq Refs /\ removing' \subseteq Runners
    BY <2>1 DEF TypeOK
  <2>4. faults' \in 0 .. MaxFaults
    BY <1>0, <2>1 DEF TypeOK
  <2> QED
    BY <1>10, <2>2, <2>3, <2>4 DEF Restart, TypeOK
<1>11. CASE UNCHANGED vars
  BY <1>11 DEF vars, TypeOK
<1> QED
  BY <1>1, <1>2, <1>3, <1>4, <1>5, <1>6, <1>7, <1>8, <1>9, <1>10, <1>11 DEF Next, AnyReconcile

------------------------------------------------------------------------------
(* Slots stay apart *)

\* A step about r changes r's slot alone, and gives it to no other runner.
Touches(r) ==
    \A x \in Refs :
        /\ slots'[x] # slots[x] => Tracks(r) /\ x = RefOf(r)
        /\ slots'[x] # NoSlot => slots[x] # NoSlot /\ slots'[x].runner = slots[x].runner

LEMMA SlotsTouched ==
    ASSUME TypeOK, NEW r \in Runners
    PROVE  /\ slots' = slots \/ slots' = Forget(r) => Touches(r)
           /\ \A phase : slots' = SetPhase(r, phase) /\ Tracks(r) => Touches(r)
           /\ \A from, to : slots' = PhaseIf(r, from, to) => Touches(r)
<1>1. slots' = slots \/ slots' = Forget(r) => Touches(r)
  BY DEF Forget, Touches, TypeOK
<1>2. ASSUME NEW phase, slots' = SetPhase(r, phase), Tracks(r) PROVE Touches(r)
  <2>1. RefOf(r) \in Refs /\ slots[RefOf(r)] \in Slot
    BY <1>2 DEF Runners, RefOf, Tracks, TypeOK
  <2>2. slots' = [slots EXCEPT ![RefOf(r)] = [slots[RefOf(r)] EXCEPT !.phase = phase]]
    BY <1>2 DEF SetPhase
  <2>3. [slots[RefOf(r)] EXCEPT !.phase = phase].runner = slots[RefOf(r)].runner
    BY <2>1 DEF Slot
  <2>4. slots[RefOf(r)] # NoSlot
    BY <1>2 DEF Tracks
  <2>5. \A x \in Refs : slots'[x] = IF x = RefOf(r) THEN [slots[RefOf(r)] EXCEPT !.phase = phase] ELSE slots[x]
    BY <2>2 DEF TypeOK
  <2> QED
    BY <1>2, <2>3, <2>4, <2>5 DEF Touches
<1>3. \A from, to : slots' = PhaseIf(r, from, to) => Touches(r)
  BY <1>1, <1>2 DEF PhaseIf
<1> QED
  BY <1>1, <1>2, <1>3

\* What the steps of a goroutine, and the background removals, leave to all others.
LEMMA GoroutineFacts ==
    ASSUME TypeOK, NEW r \in Runners, StartStep(r) \/ StartMisreported(r) \/ StopStep(r) \/ RemoveLater(r)
    PROVE  /\ Touches(r)
           /\ \A q \in Runners : op'[q] \in Early => op[q] \in Early /\ (q # r => op'[q] = op[q])
           /\ op'[r] \in Early => slots' = slots
           /\ \A q \in Runners : runner'[q] = "busy" => runner[q] = "busy"
           /\ UNCHANGED <<up, load, events>> /\ up
<1> USE DEF StartStep, StopStep, Mint, MintFails, WriteFiles, StartUnit, StartReturns, Undo, StartMisreported,
            WriteMarker, RemoveForStop, RemoveForStopFails, StopReturns, StopUnit, RemoveLater, Goroutine, AbortStop
<1>1. Touches(r)
  BY SlotsTouched
<1>2. \A q \in Runners : op'[q] \in Early => op[q] \in Early /\ (q # r => op'[q] = op[q])
  BY DEF Early, TypeOK
<1>3. op'[r] \in Early => slots' = slots
  BY DEF Early, TypeOK
<1>4. \A q \in Runners : runner'[q] = "busy" => runner[q] = "busy"
  <2>1. runner' \in {runner, Removed(r), [runner EXCEPT ![r] = "ready"]}
    BY DEF github
  <2>2. \A q \in Runners : Removed(r)[q] = "busy" => runner[q] = "busy"
    BY DEF Removed, TypeOK
  <2>3. \A q \in Runners : [runner EXCEPT ![r] = "ready"][q] = "busy" => runner[q] = "busy"
    BY DEF TypeOK
  <2> QED
    BY <2>1, <2>2, <2>3
<1>5. UNCHANGED <<up, load, events>> /\ up
  BY DEF machine, github
<1> QED
  BY <1>1, <1>2, <1>3, <1>4, <1>5

LEMMA GoroutineKeeps ==
    ASSUME IInv, NEW r \in Runners, StartStep(r) \/ StartMisreported(r) \/ StopStep(r) \/ RemoveLater(r)
    PROVE  (StartsOwn /\ StartsFresh /\ StartsWait /\ FilesOwn /\ LoadsOwn /\ DownIsQuiet /\ StopSparesOwnJob)'
<1> USE DEF Early
<1>1. /\ Touches(r)
      /\ \A q \in Runners : op'[q] \in Early => op[q] \in Early /\ (q # r => op'[q] = op[q])
      /\ op'[r] \in Early => slots' = slots
      /\ \A q \in Runners : runner'[q] = "busy" => runner[q] = "busy"
      /\ UNCHANGED <<up, load, events>> /\ up
  BY GoroutineFacts DEF IInv
<1>2. \A q \in Runners : RefOf(q) \in Refs
  BY DEF Runners, RefOf
<1>3. \A q \in Runners : op[q] \in Early /\ op[r] \in Early /\ RefOf(q) = RefOf(r) => q = r
  BY DEF IInv, StartsOwn, Tracks
<1>4. StartsOwn'
  BY <1>1, <1>2 DEF IInv, StartsOwn, Touches, Tracks
<1>5. StartsFresh'
  BY <1>1 DEF IInv, StartsFresh
<1>6. \/ unit' = unit
      \/ op[r] = "start" /\ op'[r] = "starting" /\ unit' = [unit EXCEPT ![RefOf(r)] = "activating"]
      \/ StopUnit(r)
  BY DEF StartStep, StopStep, Mint, MintFails, WriteFiles, StartUnit, StartReturns, Undo, StartMisreported, WriteMarker,
         RemoveForStop, RemoveForStopFails, StopReturns, RemoveLater, Goroutine, TypeOK, IInv, machine
<1>7. \/ file' = file \/ file' = [file EXCEPT ![RefOf(r)] = NoRunner]
      \/ op[r] = "write" /\ op'[r] = "start" /\ file' = [file EXCEPT ![RefOf(r)] = r]
  BY DEF StartStep, StopStep, Mint, MintFails, WriteFiles, StartUnit, StartReturns, Undo, StartMisreported, WriteMarker,
         RemoveForStop, RemoveForStopFails, StopUnit, StopReturns, RemoveLater, Goroutine, TypeOK, IInv, machine
<1>8. StartsWait'
  <2>1. CASE unit' = unit
    <3>1. op'[r] \in {"mint", "write", "start"} => op[r] \in {"mint", "write", "start"}
      BY DEF StartStep, StopStep, Mint, MintFails, WriteFiles, StartUnit, StartReturns, Undo, StartMisreported, WriteMarker,
             RemoveForStop, RemoveForStopFails, StopUnit, StopReturns, RemoveLater, Goroutine, TypeOK, IInv
    <3>2. op'[r] = "starting" => op[r] = "starting"
      BY <2>1, <1>2 DEF StartStep, StopStep, Mint, MintFails, WriteFiles, StartUnit, StartReturns, Undo, StartMisreported, WriteMarker,
             RemoveForStop, RemoveForStopFails, StopUnit, StopReturns, RemoveLater, Goroutine, TypeOK, IInv
    <3> QED
      BY <1>1, <2>1, <3>1, <3>2 DEF IInv, StartsWait
  <2>2. CASE op[r] = "start" /\ op'[r] = "starting" /\ unit' = [unit EXCEPT ![RefOf(r)] = "activating"]
    BY <1>1, <1>2, <1>3, <2>2 DEF IInv, StartsWait, TypeOK
  <2>3. CASE StopUnit(r)
    <3>1. op[r] = "stop" /\ op'[r] = "stopping"
      BY <2>3 DEF StopUnit
    <3>2. ASSUME NEW q \in Runners, op'[q] \in Early PROVE unit'[RefOf(q)] = unit[RefOf(q)]
      BY <1>1, <1>2, <2>3, <3>1, <3>2 DEF StopUnit, IInv, StartsWait, TypeOK
    <3> QED
      BY <1>1, <3>1, <3>2 DEF IInv, StartsWait
  <2> QED
    BY <1>6, <2>1, <2>2, <2>3
<1>9. FilesOwn'
  <2>1. op[r] = "write" => Tracks(r)
    BY DEF IInv, StartsOwn
  <2> QED
    BY <1>1, <1>2, <1>7, <2>1 DEF IInv, FilesOwn, Touches, Tracks, TypeOK
<1>10. LoadsOwn'
  <2>1. \A x \in Refs : unit'[x] = "active" => unit[x] = "active"
    BY <1>6 DEF IInv, TypeOK, StopUnit
  <2>2. op[r] = "write" => unit[RefOf(r)] = "inactive"
    BY DEF IInv, StartsWait
  <2>3. \A x \in Refs : unit'[x] = "active" => file'[x] \in {file[x], NoRunner}
    BY <1>2, <1>7, <2>1, <2>2 DEF IInv, TypeOK
  <2> QED
    BY <1>1, <2>1, <2>3 DEF IInv, LoadsOwn, Touches
<1>11. DownIsQuiet'
  BY <1>1 DEF DownIsQuiet
<1>12. StopSparesOwnJob'
  BY DEF StartStep, StopStep, Mint, MintFails, WriteFiles, StartUnit, StartReturns, Undo, StartMisreported, WriteMarker,
         RemoveForStop, RemoveForStopFails, StopUnit, StopReturns, RemoveLater, Goroutine, TypeOK, IInv, StopSparesOwnJob,
         Removed, Refused, github
<1> QED
  BY <1>4, <1>5, <1>8, <1>9, <1>10, <1>11, <1>12

LEMMA ReconcileKeeps ==
    ASSUME IInv, NEW aged, NEW old, NEW mem, Reconcile(aged, old, mem)
    PROVE  (StartsOwn /\ StartsFresh /\ StartsWait /\ FilesOwn /\ LoadsOwn /\ DownIsQuiet /\ StopSparesOwnJob)'
<1> USE DEF Early
<1>1. /\ \A x \in Refs : Begins(x)
      /\ \A r \in Runners : GoesOn(r)
      /\ \A x \in Refs : /\ file'[x] \in {file[x], NoRunner}
                         /\ x \notin Owned \cup Foreign => file'[x] = NoRunner
  BY ReconcileFacts DEF IInv
<1>2. UNCHANGED <<up, unit, load, runner, events>> /\ up
  BY DEF Reconcile
<1>3. \A r \in Runners : RefOf(r) \in Refs
  BY DEF Runners, RefOf
<1>4. \A x \in Owned : x \in Refs /\ slots[x] \in Slot /\ slots[x] # NoSlot
  BY DEF Owned, Tracked, IInv, TypeOK
<1>5. \A x \in Refs : x \notin Owned \cup Foreign => unit[x] = "inactive"
  BY DEF Owned, Foreign, Tracked, Running
<1>6. \A r \in Runners, k \in SetKeys : [set |-> k, phase |-> "starting", runner |-> r] # NoSlot
  BY NoneAssumption DEF Slot, Phases
<1>7. \A x \in Owned : [slots[x] EXCEPT !.phase = "stopping"].runner = slots[x].runner
  BY <1>4 DEF Slot
<1>8. StartsOwn'
  <2> SUFFICES ASSUME NEW r \in Runners, op'[r] \in Early
               PROVE  slots'[RefOf(r)] # NoSlot /\ slots'[RefOf(r)].runner = r /\ slots'[RefOf(r)].phase = "starting"
    BY DEF StartsOwn, Tracks
  <2>1. CASE op'[r] = op[r]
    <3>1. RefOf(r) \in Owned /\ slots[RefOf(r)].phase = "starting" /\ slots[RefOf(r)].runner = r
      BY <1>3, <2>1 DEF IInv, StartsOwn, Tracks, Owned, Tracked
    <3>2. slots'[RefOf(r)] = slots[RefOf(r)]
      BY <1>1, <1>3, <3>1 DEF Begins
    <3> QED
      BY <1>4, <3>1, <3>2
  <2>2. CASE op'[r] # op[r]
    <3>1. PICK k \in SetKeys : slots'[RefOf(r)] = [set |-> k, phase |-> "starting", runner |-> r]
      BY <1>1, <2>2 DEF GoesOn
    <3>2. slots'[RefOf(r)] # NoSlot
      BY <1>6, <3>1
    <3> QED
      BY <3>1, <3>2
  <2> QED
    BY <2>1, <2>2
<1>9. StartsFresh'
  BY <1>1, <1>2 DEF IInv, StartsFresh, GoesOn, Unused
<1>10. StartsWait'
  BY <1>1, <1>2, <1>3, <1>5 DEF IInv, StartsWait, GoesOn
<1>11. \A x \in Refs : slots'[x] # NoSlot =>
         \/ x \in Owned /\ slots'[x].runner = slots[x].runner
         \/ x \notin Owned \cup Foreign /\ RefOf(slots'[x].runner) = x
  <2> TAKE x \in Refs
  <2>1. CASE \E r \in Runners, k \in SetKeys :
              RefOf(r) = x /\ slots'[x] = [set |-> k, phase |-> "starting", runner |-> r] /\ x \notin Owned \cup Foreign
    BY <2>1
  <2>2. CASE ~\E r \in Runners, k \in SetKeys :
              RefOf(r) = x /\ slots'[x] = [set |-> k, phase |-> "starting", runner |-> r] /\ x \notin Owned \cup Foreign
    BY <1>1, <1>7, <2>2 DEF Begins
  <2> QED
    BY <2>1, <2>2
<1>12. FilesOwn'
  BY <1>1, <1>4, <1>11 DEF IInv, FilesOwn
<1>13. LoadsOwn'
  BY <1>1, <1>2, <1>4, <1>5, <1>11 DEF IInv, LoadsOwn
<1>14. DownIsQuiet' /\ StopSparesOwnJob'
  BY <1>1, <1>2 DEF IInv, DownIsQuiet, StopSparesOwnJob, GoesOn
<1> QED
  BY <1>8, <1>9, <1>10, <1>12, <1>13, <1>14

LEMMA UnitKeeps ==
    ASSUME IInv, NEW x \in Refs, UnitStep(x) \/ CleanupKilled(x)
    PROVE  (StartsOwn /\ StartsFresh /\ StartsWait /\ FilesOwn /\ LoadsOwn /\ DownIsQuiet /\ StopSparesOwnJob)'
<1> USE DEF Early
<1>1. UNCHANGED <<up, slots, events>>
  BY DEF UnitStep, PrepareOk, PrepareFails, Exit, Deregister, CleanupFiles, CleanupKilled, listener, github
<1>2. \/ op' = op /\ unit[x] \notin {"inactive", "activating"}
      \/ \E step \in {"started", "failed"} : StartEnds(x, step)
  BY DEF UnitStep, PrepareOk, PrepareFails, Exit, Deregister, CleanupFiles, CleanupKilled, UnitMoves, listener
<1>3. \A r \in Runners : /\ op'[r] \in Early => op'[r] = op[r]
                         /\ op'[r] \in {"stop", "none"} <=> op[r] \in {"stop", "none"}
                         /\ op[r] \in {"stop", "none"} => op'[r] = op[r]
                         /\ RefOf(r) = x /\ op[r] = "starting" => op'[r] # "starting" \/ op' = op
  BY <1>2 DEF StartEnds
<1>4. runner' \in {runner} \cup {Removed(r) : r \in Runners}
  BY DEF UnitStep, PrepareOk, PrepareFails, Exit, Deregister, CleanupFiles, CleanupKilled, github, IInv, TypeOK
<1>5. \A r \in Runners : /\ runner'[r] = "busy" => runner[r] = "busy"
                         /\ runner[r] = "none" => runner'[r] = "none"
  <2>1. \A q, r \in Runners : /\ Removed(q)[r] = "busy" => runner[r] = "busy"
                              /\ runner[r] = "none" => Removed(q)[r] = "none"
    BY DEF Removed, IInv, TypeOK
  <2> QED
    BY <1>4, <2>1
<1>6. /\ unit[x] # "inactive" /\ \A y \in Refs \ {x} : unit'[y] = unit[y] /\ file'[y] = file[y] /\ load'[y] = load[y]
      /\ file'[x] \in {file[x], NoRunner}
  BY DEF UnitStep, PrepareOk, PrepareFails, Exit, Deregister, CleanupFiles, CleanupKilled, UnitMoves, IInv, TypeOK
<1>7. unit'[x] = "active" => file[x] # NoRunner /\ load'[x] = file[x] /\ file' = file
  BY DEF UnitStep, PrepareOk, PrepareFails, Exit, Deregister, CleanupFiles, CleanupKilled, UnitMoves, IInv, TypeOK
<1>8. StartsWait'
  <2>1. ASSUME NEW r \in Runners, op'[r] \in Early PROVE RefOf(r) # x
    BY <1>2, <1>3, <1>6, <2>1 DEF IInv, StartsWait, StartEnds
  <2>2. \A r \in Runners : RefOf(r) \in Refs
    BY DEF Runners, RefOf
  <2> QED
    BY <1>3, <1>6, <2>1, <2>2 DEF IInv, StartsWait
<1>9. FilesOwn'
  BY <1>1, <1>6 DEF IInv, FilesOwn
<1>10. LoadsOwn'
  <2> SUFFICES ASSUME NEW y \in Refs, unit'[y] = "active"
               PROVE  /\ load'[y] # NoRunner /\ file'[y] \in {load'[y], NoRunner}
                      /\ slots'[y] # NoSlot => slots'[y].runner = load'[y]
    BY DEF LoadsOwn
  <2>1. CASE y = x
    BY <1>1, <1>7, <2>1 DEF IInv, FilesOwn
  <2>2. CASE y # x
    BY <1>1, <1>6, <2>2 DEF IInv, LoadsOwn
  <2> QED
    BY <2>1, <2>2
<1>11. StartsOwn' /\ StartsFresh' /\ DownIsQuiet' /\ StopSparesOwnJob'
  BY <1>1, <1>3, <1>5 DEF IInv, StartsOwn, StartsFresh, DownIsQuiet, StopSparesOwnJob, Tracks
<1> QED
  BY <1>8, <1>9, <1>10, <1>11

LEMMA MessageKeeps ==
    ASSUME IInv, NEW r \in Runners, JobStarted(r) \/ JobCompleted(r)
    PROVE  (StartsOwn /\ StartsFresh /\ StartsWait /\ FilesOwn /\ LoadsOwn /\ DownIsQuiet /\ StopSparesOwnJob)'
<1> USE DEF JobStarted, JobCompleted, Deliver
<1>1. Touches(r)
  BY SlotsTouched DEF IInv
<1>2. op[r] \notin Early
  BY DEF IInv, StartsFresh
<1>3. /\ UNCHANGED <<up, op, machine, runner>> /\ events' \subseteq events
  OBVIOUS
<1>4. StartsOwn'
  BY <1>1, <1>2, <1>3 DEF IInv, StartsOwn, Touches, Tracks, Runners, RefOf
<1>5. FilesOwn' /\ LoadsOwn'
  BY <1>1, <1>3 DEF IInv, FilesOwn, LoadsOwn, Touches, machine
<1>6. StartsFresh' /\ StartsWait' /\ DownIsQuiet' /\ StopSparesOwnJob'
  BY <1>3 DEF IInv, StartsFresh, StartsWait, DownIsQuiet, StopSparesOwnJob, machine
<1> QED
  BY <1>4, <1>5, <1>6

\* A runner that takes or ends a job is not one a start still works on.
LEMMA JobKeeps ==
    ASSUME IInv, NEW r \in Runners, TakeJob(r) \/ JobEnds(r) \/ Sweep(r)
    PROVE  (StartsOwn /\ StartsFresh /\ StartsWait /\ FilesOwn /\ LoadsOwn /\ DownIsQuiet /\ StopSparesOwnJob)'
<1> USE DEF TakeJob, JobEnds, Sweep, Removed
<1>1. TakeJob(r) \/ JobEnds(r) => op[r] \notin Early
  BY DEF IInv, StartsWait, StartsFresh, Early
<1>2. UNCHANGED <<listener, machine>>
  OBVIOUS
<1>3. StartsFresh'
  BY <1>1, <1>2 DEF IInv, StartsFresh, listener, TypeOK
<1>4. StopSparesOwnJob'
  BY <1>2 DEF IInv, StopSparesOwnJob, listener, TypeOK
<1> QED
  BY <1>2, <1>3, <1>4 DEF IInv, StartsOwn, StartsWait, FilesOwn, LoadsOwn, DownIsQuiet, Tracks, listener, machine

LEMMA SetKeeps ==
    ASSUME IInv, \/ \E k \in SetKeys : Statistics(k) \/ ServeSet(k) \/ DropSet(k) \/ JobArrives(k)
                 \/ \E e \in events : LoseEvent(e)
                 \/ UNCHANGED vars
    PROVE  (StartsOwn /\ StartsFresh /\ StartsWait /\ FilesOwn /\ LoadsOwn /\ DownIsQuiet /\ StopSparesOwnJob)'
<1>1. UNCHANGED <<up, slots, op, machine, runner>> /\ events' \subseteq events
  BY DEF Statistics, ServeSet, DropSet, JobArrives, LoseEvent, vars, listener, github
<1> QED
  BY <1>1 DEF IInv, StartsOwn, StartsFresh, StartsWait, FilesOwn, LoadsOwn, DownIsQuiet, StopSparesOwnJob, Tracks, machine

LEMMA LifeKeeps ==
    ASSUME IInv, Crash \/ Restart
    PROVE  (StartsOwn /\ StartsFresh /\ StartsWait /\ FilesOwn /\ LoadsOwn /\ DownIsQuiet /\ StopSparesOwnJob)'
<1>1. \A r \in Runners : op'[r] = "none"
  BY DEF Crash, Restart, IInv, DownIsQuiet
<1>2. UNCHANGED <<unit, load>> /\ \A x \in Refs : file'[x] \in {file[x], NoRunner}
  BY DEF Crash, Restart, machine, IInv, TypeOK
<1>3. \A x \in Refs : slots'[x] # NoSlot => file[x] # NoRunner /\ slots'[x].runner = file[x]
  BY DEF Crash, Restart
<1>4. FilesOwn'
  BY <1>2, <1>3 DEF IInv, FilesOwn
<1>5. LoadsOwn'
  BY <1>2, <1>3 DEF IInv, LoadsOwn
<1> QED
  BY <1>1, <1>4, <1>5 DEF StartsOwn, StartsFresh, StartsWait, DownIsQuiet, StopSparesOwnJob, Early

LEMMA Inductive == IInv /\ [Next]_vars => IInv'
<1> SUFFICES ASSUME IInv, [Next]_vars PROVE IInv'
  OBVIOUS
<1>1. TypeOK'
  BY TypeStep DEF IInv
<1>2. (StartsOwn /\ StartsFresh /\ StartsWait /\ FilesOwn /\ LoadsOwn /\ DownIsQuiet /\ StopSparesOwnJob)'
  BY ReconcileKeeps, GoroutineKeeps, UnitKeeps, MessageKeeps, JobKeeps, SetKeeps, LifeKeeps DEF Next, AnyReconcile
<1> QED
  BY <1>1, <1>2 DEF IInv

LEMMA Begun == Init => IInv
<1> SUFFICES ASSUME Init PROVE IInv
  OBVIOUS
<1>1. TypeOK
  BY LaneAssumption DEF Init, TypeOK, OpSteps, UnitStates
<1> QED
  BY <1>1 DEF Init, IInv, StartsOwn, StartsFresh, StartsWait, FilesOwn, LoadsOwn, DownIsQuiet, StopSparesOwnJob, Early

\* Every variable keeps its type: a slot names one of its lane's runners, a goroutine stands at one of its
\* steps, and no failure is counted beyond the bound.
THEOREM TypeCorrect == Spec => []TypeOK
<1>1. IInv => TypeOK
  BY DEF IInv
<1> QED
  BY <1>1, Begun, Inductive, PTL DEF Spec

\* scaler.go, lane-slot.sh: the files and the slot beside a running container are its own, a start finds
\* its unit down, and a goroutine that stops a unit has taken its runner off GitHub first.
THEOREM SlotsApart == Spec => []SlotsStayApart
<1>1. IInv => SlotsStayApart
  BY DEF IInv, SlotsStayApart, FilesNameUnit, LoadsOwn, StartsWait
<1> QED
  BY <1>1, Begun, Inductive, PTL DEF Spec

------------------------------------------------------------------------------
(* Within the budgets *)

\* No step but a reconcile brings an instance into use.
LEMMA UseShrinks ==
    ASSUME IInv, [Next]_vars, ~AnyReconcile
    PROVE  InUse' \subseteq InUse
<1> SUFFICES ASSUME NEW x \in Refs, (Running(x) \/ file[x] # NoRunner \/ slots[x] # NoSlot)'
             PROVE  Running(x) \/ file[x] # NoRunner \/ slots[x] # NoSlot
  BY DEF InUse
<1> USE DEF Running
<1>1. ASSUME NEW r \in Runners, StartStep(r) \/ StartMisreported(r) \/ StopStep(r) \/ RemoveLater(r)
      PROVE  Running(x) \/ file[x] # NoRunner \/ slots[x] # NoSlot
  <2>1. slots'[x] # NoSlot => slots[x] # NoSlot
    BY <1>1, GoroutineFacts DEF IInv, Touches
  <2>2. op[r] \in Early => slots[RefOf(r)] # NoSlot
    BY DEF IInv, StartsOwn, Tracks
  <2>3. file'[x] # NoRunner => file[x] # NoRunner \/ (x = RefOf(r) /\ op[r] \in Early)
    BY <1>1 DEF StartStep, StopStep, Mint, MintFails, WriteFiles, StartUnit, StartReturns, Undo, StartMisreported, WriteMarker,
         RemoveForStop, RemoveForStopFails, StopUnit, StopReturns, RemoveLater, Goroutine, TypeOK, IInv, machine, Early
  <2>4. unit'[x] # "inactive" => unit[x] # "inactive" \/ (x = RefOf(r) /\ op[r] \in Early)
    BY <1>1 DEF StartStep, StopStep, Mint, MintFails, WriteFiles, StartUnit, StartReturns, Undo, StartMisreported, WriteMarker,
         RemoveForStop, RemoveForStopFails, StopUnit, StopReturns, RemoveLater, Goroutine, TypeOK, IInv, machine, Early
  <2> QED
    BY <2>1, <2>2, <2>3, <2>4
<1>2. ASSUME NEW r \in Runners, JobStarted(r) \/ JobCompleted(r)
      PROVE  Running(x) \/ file[x] # NoRunner \/ slots[x] # NoSlot
  <2>1. Touches(r)
    BY <1>2, SlotsTouched DEF IInv, JobStarted, JobCompleted, Deliver
  <2> QED
    BY <1>2, <2>1 DEF Touches, JobStarted, JobCompleted, Deliver, machine
<1>3. ASSUME NEW r \in Runners, TakeJob(r) \/ JobEnds(r) \/ Sweep(r)
      PROVE  Running(x) \/ file[x] # NoRunner \/ slots[x] # NoSlot
  BY <1>3 DEF TakeJob, JobEnds, Sweep, machine, listener
<1>4. ASSUME \/ \E k \in SetKeys : Statistics(k) \/ ServeSet(k) \/ DropSet(k) \/ JobArrives(k)
             \/ \E e \in events : LoseEvent(e)
             \/ UNCHANGED vars
      PROVE  Running(x) \/ file[x] # NoRunner \/ slots[x] # NoSlot
  BY <1>4 DEF Statistics, ServeSet, DropSet, JobArrives, LoseEvent, machine, listener, vars
<1>5. ASSUME NEW y \in Refs, UnitStep(y) \/ CleanupKilled(y)
      PROVE  Running(x) \/ file[x] # NoRunner \/ slots[x] # NoSlot
  BY <1>5 DEF UnitStep, PrepareOk, PrepareFails, Exit, Deregister, CleanupFiles, CleanupKilled, UnitMoves, IInv, TypeOK, listener
<1>6. ASSUME Crash \/ Restart
      PROVE  Running(x) \/ file[x] # NoRunner \/ slots[x] # NoSlot
  BY <1>6 DEF Crash, Restart, machine
<1> QED
  BY <1>1, <1>2, <1>3, <1>4, <1>5, <1>6 DEF Next

\* What is in use after a reconcile was owned or foreign, or is one of the plan's starts.
LEMMA UseGrows ==
    ASSUME TypeOK, NEW aged, NEW old, NEW mem, Reconcile(aged, old, mem)
    PROVE  InUse' \subseteq Owned \cup Foreign \cup StartedIn(MakePlan(RoundInput(aged, old, mem)).starts)
<1> SUFFICES ASSUME NEW x \in Refs, (Running(x) \/ file[x] # NoRunner \/ slots[x] # NoSlot)'
             PROVE  x \in Owned \cup Foreign \cup StartedIn(MakePlan(RoundInput(aged, old, mem)).starts)
  BY DEF InUse
<1>1. Running(x)' => x \in Owned \cup Foreign
  BY DEF Reconcile, Running, Owned, Foreign, Tracked
<1>2. file'[x] # NoRunner => x \in Owned \cup Foreign
  BY ReconcileFacts
<1>3. slots'[x] # NoSlot => x \in Owned \cup StartedIn(MakePlan(RoundInput(aged, old, mem)).starts)
  BY ReconcileFacts
<1> QED
  BY <1>1, <1>2, <1>3

LEMMA BudgetStep == IInv /\ BudgetHeld /\ [Next]_vars => BudgetHeld'
<1> SUFFICES ASSUME IInv, BudgetHeld, [Next]_vars PROVE BudgetHeld'
  OBVIOUS
<1>1. InUse \subseteq Refs /\ InUse' \subseteq Refs
  BY DEF InUse
<1>2. \A b : /\ IsFiniteSet(HeldOf(b)) /\ IsFiniteSet(QAEHeld(InUse))
             /\ Cardinality(HeldOf(b)) \in Nat /\ Cardinality(QAEHeld(InUse)) \in Nat
             /\ Cardinality(HeldOf(b)') \in Nat /\ Cardinality(QAEHeld(InUse)') \in Nat
  <2>1. \A S \in SUBSET Refs : IsFiniteSet(S) /\ Cardinality(S) \in Nat
    BY RefsFinite, FS_Subset, FS_CardinalityType
  <2> QED
    BY <1>1, <2>1 DEF HeldOf, QAEHeld
<1>3. QAEConcurrency \in Nat /\ \A b \in Budgets : BudgetSlots(b) \in Nat
  BY PlannerAssumption, BudgetTypes
<1>4. ASSUME NEW b \in Budgets, HeldOf(b)' \subseteq HeldOf(b) PROVE Cardinality(HeldOf(b)') <= BudgetSlots(b)
  <2>1. Cardinality(HeldOf(b)') <= Cardinality(HeldOf(b))
    BY <1>2, <1>4, FS_Subset
  <2>2. Cardinality(HeldOf(b)) <= BudgetSlots(b)
    BY DEF BudgetHeld
  <2> QED
    BY <1>2, <1>3, <2>1, <2>2
<1>5. ASSUME QAEKind \in Kinds, QAEHeld(InUse)' \subseteq QAEHeld(InUse) PROVE Cardinality(QAEHeld(InUse)') <= QAEConcurrency
  <2>1. Cardinality(QAEHeld(InUse)') <= Cardinality(QAEHeld(InUse))
    BY <1>2, <1>5, FS_Subset
  <2>2. Cardinality(QAEHeld(InUse)) <= QAEConcurrency
    BY <1>5 DEF BudgetHeld
  <2> QED
    BY <1>2, <1>3, <2>1, <2>2
<1>6. CASE ~AnyReconcile
  <2>1. InUse' \subseteq InUse
    BY <1>6, UseShrinks
  <2>2. QAEHeld(InUse)' \subseteq QAEHeld(InUse) /\ \A b : HeldOf(b)' \subseteq HeldOf(b)
    BY <2>1 DEF QAEHeld, HeldOf
  <2> QED
    BY <1>4, <1>5, <2>2 DEF BudgetHeld
<1>7. CASE AnyReconcile
  <2>1. PICK aged \in SUBSET Refs, old \in SUBSET Refs, mem \in MemReadings : Reconcile(aged, old, mem)
    BY <1>7 DEF AnyReconcile, Owned, WarmUnits, Tracked
  <2> DEFINE i == RoundInput(aged, old, mem)
             new == StartedIn(MakePlan(i).starts)
             all == DOMAIN i.occupied \cup new
  <2>2. /\ MakePlan(i).starts \subseteq [set : SetKeys, ref : Refs] /\ StartsWithin(i, MakePlan(i).starts)
        /\ DOMAIN i.occupied = Owned \cup Foreign
    BY RoundFacts DEF IInv
  <2>3. InUse' \subseteq all /\ all \subseteq Refs
    <3>1. InUse' \subseteq all
      BY <2>1, <2>2, UseGrows DEF IInv
    <3>2. new \subseteq Refs /\ Owned \cup Foreign \subseteq Refs
      BY <2>2 DEF StartedIn, Owned, Foreign, Tracked
    <3> QED
      BY <2>2, <3>1, <3>2
  <2>4. Owned \cup Foreign \subseteq InUse
    BY DEF Owned, Foreign, InUse, Tracked
  <2>5. StartsWithin(i, MakePlan(i).starts)
    BY <2>2
  <2> HIDE DEF i
  <2>6. /\ \A b \in Budgets : HeldBy(new, b) # {} => Cardinality(HeldBy(all, b)) <= BudgetSlots(b)
        /\ QAEHeld(new) # {} => Cardinality(QAEHeld(all)) <= QAEConcurrency
    BY <2>5 DEF StartsWithin
  <2> HIDE DEF new
  <2>7. \A S \in SUBSET Refs : IsFiniteSet(S) /\ Cardinality(S) \in Nat
    BY RefsFinite, FS_Subset, FS_CardinalityType
  <2>8. ASSUME NEW b \in Budgets PROVE Cardinality(HeldOf(b)') <= BudgetSlots(b)
    <3>1. CASE HeldBy(new, b) = {}
      <4>1. HeldOf(b)' \subseteq HeldOf(b)
        BY <2>2, <2>3, <2>4, <3>1 DEF HeldOf, HeldBy
      <4> QED
        BY <1>4, <4>1
    <3>2. CASE HeldBy(new, b) # {}
      <4>1. HeldOf(b)' \subseteq HeldBy(all, b) /\ HeldBy(all, b) \subseteq Refs
        BY <2>3 DEF HeldOf, HeldBy
      <4>2. Cardinality(HeldOf(b)') <= Cardinality(HeldBy(all, b)) /\ Cardinality(HeldBy(all, b)) \in Nat
        BY <2>7, <4>1, FS_Subset
      <4>3. Cardinality(HeldBy(all, b)) <= BudgetSlots(b)
        BY <2>6, <3>2
      <4> QED
        BY <1>2, <1>3, <4>2, <4>3
    <3> QED
      BY <3>1, <3>2
  <2>9. ASSUME QAEKind \in Kinds PROVE Cardinality(QAEHeld(InUse)') <= QAEConcurrency
    <3>1. CASE QAEHeld(new) = {}
      <4>1. QAEHeld(InUse)' \subseteq QAEHeld(InUse)
        BY <2>2, <2>3, <2>4, <3>1 DEF QAEHeld
      <4> QED
        BY <1>5, <2>9, <4>1
    <3>2. CASE QAEHeld(new) # {}
      <4>1. QAEHeld(InUse)' \subseteq QAEHeld(all) /\ QAEHeld(all) \subseteq Refs
        BY <2>3 DEF QAEHeld
      <4>2. Cardinality(QAEHeld(InUse)') <= Cardinality(QAEHeld(all)) /\ Cardinality(QAEHeld(all)) \in Nat
        BY <2>7, <4>1, FS_Subset
      <4>3. Cardinality(QAEHeld(all)) <= QAEConcurrency
        BY <2>6, <3>2
      <4> QED
        BY <1>2, <1>3, <4>2, <4>3
    <3> QED
      BY <3>1, <3>2
  <2> QED
    BY <2>8, <2>9 DEF BudgetHeld
<1> QED
  BY <1>6, <1>7

\* plan.go and scaler.go: whatever reconciles, goroutines, units and crashes overlap, no more instances are
\* in use than a budget has slots, nor more qae ones than qae_concurrency.
THEOREM BudgetSafe == Spec => []BudgetHeld
<1>1. Init => BudgetHeld
  <2> SUFFICES ASSUME Init PROVE BudgetHeld
    OBVIOUS
  <2>1. InUse = {}
    BY DEF Init, InUse, Running
  <2>2. QAEHeld(InUse) = {} /\ \A b : HeldOf(b) = {}
    BY <2>1 DEF QAEHeld, HeldOf
  <2>3. QAEConcurrency \in Nat /\ \A b \in Budgets : BudgetSlots(b) \in Nat
    BY PlannerAssumption, BudgetTypes
  <2>4. QAEConcurrency >= 0 /\ \A b \in Budgets : 0 <= BudgetSlots(b)
    BY <2>3
  <2> QED
    BY <2>2, <2>4, FS_EmptySet DEF BudgetHeld
<1> QED
  BY <1>1, Begun, Inductive, BudgetStep, PTL DEF Spec

------------------------------------------------------------------------------
(* No registration is lost sight of *)

\* A start that has not registered its runner yet, and a stop that took it off GitHub, have none.
NotRegistered(r) == op[r] \in {"mint", "stop", "stopping"} => runner[r] = "none"

\* A ready runner has had no job: no message is about it, and its slot is not on its way out.
IsNew(r) ==
    /\ <<"started", r>> \notin events /\ <<"completed", r>> \notin events
    /\ Tracks(r) => slots[RefOf(r)].phase \notin {"busy", "done"}

\* While its runner is ready, a start that succeeded finds its slot starting, and a stop its slot stopping.
KeepsSlot(r) ==
    /\ op[r] = "started" => Tracks(r) /\ slots[RefOf(r)].phase = "starting"
    /\ op[r] \in {"marker", "remove"} => Tracks(r) /\ slots[RefOf(r)].phase = "stopping"

\* Who removes a ready runner: a removal in flight, its goroutine or its idle slot,
SeenUp(r) ==
    \/ r \in orphans \cup removing
    \/ op[r] \notin {"none", "mint", "stop", "stopping"}
    \/ Tracks(r) /\ slots[RefOf(r)].phase = "idle"

\* and while the listener is down, the cleanup that reads its file, or the next listener.
SeenDown(r) == r \in orphans \/ (file[RefOf(r)] = r /\ RefOf(r) \notin marker /\ unit[RefOf(r)] # "cleaned")

InSight(r) ==
    /\ NotRegistered(r)
    /\ runner[r] = "ready" => IsNew(r) /\ KeepsSlot(r) /\ (up => SeenUp(r)) /\ (~up => SeenDown(r))

AllInSight == \A r \in Runners : InSight(r)

\* A step of r's goroutine leaves the others as they are.
LEMMA OthersInSight ==
    ASSUME IInv, NEW r \in Runners, NEW q \in Runners, q # r, InSight(q),
           StartStep(r) \/ StartMisreported(r) \/ StopStep(r) \/ RemoveLater(r)
    PROVE  InSight(q)'
<1>1. Touches(r) /\ UNCHANGED <<up, events>> /\ up
  BY GoroutineFacts DEF IInv
<1>2. RefOf(q) \in Refs
  BY DEF Runners, RefOf
<1>3. Tracks(q)' <=> Tracks(q)
  BY <1>1, <1>2 DEF Touches, Tracks
<1>4. Tracks(q) => slots'[RefOf(q)] = slots[RefOf(q)]
  BY <1>1, <1>2 DEF Touches, Tracks
<1>5. runner'[q] = runner[q]
  BY DEF StartStep, StopStep, Mint, MintFails, WriteFiles, StartUnit, StartReturns, Undo, StartMisreported, WriteMarker,
         RemoveForStop, RemoveForStopFails, StopUnit, StopReturns, RemoveLater, Removed, IInv, TypeOK, github
<1>6. op'[q] = op[q] \/ (op[q] = "starting" /\ op'[q] = "failed")
  <2>1. op' \in {op} \cup {[op EXCEPT ![r] = next] : next \in OpSteps} \/ StopUnit(r)
    BY DEF StartStep, StopStep, Mint, MintFails, WriteFiles, StartUnit, StartReturns, Undo, StartMisreported, WriteMarker,
           RemoveForStop, RemoveForStopFails, StopReturns, RemoveLater, Goroutine, OpSteps
  <2>2. CASE StopUnit(r)
    BY <2>2 DEF StopUnit, IInv, TypeOK
  <2> QED
    BY <2>1, <2>2 DEF IInv, TypeOK
<1>7. q \in orphans \cup removing => q \in orphans' \cup removing'
  BY DEF StartStep, StopStep, Mint, MintFails, WriteFiles, StartUnit, StartReturns, Undo, StartMisreported, WriteMarker,
         RemoveForStop, RemoveForStopFails, StopUnit, StopReturns, RemoveLater
<1> QED
  BY <1>1, <1>3, <1>4, <1>5, <1>6, <1>7 DEF InSight, NotRegistered, IsNew, KeepsSlot, SeenUp

\* What r's slot is after a step of its goroutine.
LEMMA OwnSlot ==
    ASSUME TypeOK, NEW r \in Runners
    PROVE  /\ ~Tracks(r) => Forget(r) = slots /\ \A from, to : PhaseIf(r, from, to) = slots
           /\ Tracks(r) => /\ Forget(r)[RefOf(r)] = NoSlot
                           /\ \A from, to : PhaseIf(r, from, to)[RefOf(r)] =
                                  IF slots[RefOf(r)].phase = from THEN [slots[RefOf(r)] EXCEPT !.phase = to] ELSE slots[RefOf(r)]
           /\ Tracks(r) => \A to : /\ [slots[RefOf(r)] EXCEPT !.phase = to].phase = to
                                   /\ [slots[RefOf(r)] EXCEPT !.phase = to].runner = r
                                   /\ to \in Phases => [slots[RefOf(r)] EXCEPT !.phase = to] # NoSlot
<1>1. RefOf(r) \in Refs
  BY DEF Runners, RefOf
<1>2. ASSUME Tracks(r)
      PROVE  \A to : /\ [slots[RefOf(r)] EXCEPT !.phase = to].phase = to
                     /\ [slots[RefOf(r)] EXCEPT !.phase = to].runner = r
                     /\ to \in Phases => [slots[RefOf(r)] EXCEPT !.phase = to] # NoSlot
  <2>1. slots[RefOf(r)] \in Slot
    BY <1>1, <1>2 DEF Tracks, TypeOK
  <2>2. \A to \in Phases : [slots[RefOf(r)] EXCEPT !.phase = to] \in Slot
    BY <2>1 DEF Slot
  <2> QED
    BY <1>2, <2>1, <2>2, NoneAssumption DEF Slot, Tracks
<1>3. ~Tracks(r) => Forget(r) = slots /\ \A from, to : PhaseIf(r, from, to) = slots
  BY DEF Forget, PhaseIf
<1>4. Tracks(r) => /\ Forget(r)[RefOf(r)] = NoSlot
                   /\ \A from, to : PhaseIf(r, from, to)[RefOf(r)] =
                        IF slots[RefOf(r)].phase = from THEN [slots[RefOf(r)] EXCEPT !.phase = to] ELSE slots[RefOf(r)]
  BY <1>1 DEF Forget, PhaseIf, SetPhase, TypeOK
<1> QED
  BY <1>2, <1>3, <1>4

\* A step of r's goroutine, or of its removal, keeps r in sight.
LEMMA OwnInSight ==
    ASSUME IInv, NEW r \in Runners, InSight(r),
           StartStep(r) \/ StartMisreported(r) \/ StopStep(r) \/ RemoveLater(r)
    PROVE  InSight(r)'
<1> DEFINE x == RefOf(r)
<1>1. UNCHANGED <<up, events>> /\ up
  BY GoroutineFacts DEF IInv
<1>2. TypeOK /\ x \in Refs
  BY DEF IInv, Runners, RefOf
<1>3. \A step, next : Goroutine(r, step, next) => op[r] = step /\ op'[r] = next
  BY <1>2 DEF Goroutine, TypeOK
<1>4. /\ runner[r] = "ready" => IsNew(r) /\ KeepsSlot(r) /\ SeenUp(r)
      /\ NotRegistered(r)
  BY <1>1 DEF InSight
<1>5. ASSUME NotRegistered(r)', runner'[r] # "ready" PROVE InSight(r)'
  BY <1>5 DEF InSight
<1>6. ASSUME NotRegistered(r)', IsNew(r)', KeepsSlot(r)', SeenUp(r)' PROVE InSight(r)'
  BY <1>1, <1>6 DEF InSight
<1>7. /\ runner[r] # "busy" => Removed(r)[r] = "none"
      /\ runner[r] = "none" => Removed(r)[r] = "none"
      /\ Removed(r)[r] = "ready" => FALSE
  BY <1>2 DEF Removed, TypeOK
<1>8. Forget(r)[x] = NoSlot \/ (Forget(r) = slots /\ ~Tracks(r))
  BY <1>2, OwnSlot
<1>9. CASE Mint(r)
  <2>1. op[r] = "mint" /\ op'[r] \in {"write", "none"}
    BY <1>3, <1>9 DEF Mint
  <2>2. IsNew(r) /\ Tracks(r) /\ slots[x].phase = "starting"
    BY <2>1 DEF IInv, StartsFresh, StartsOwn, IsNew, Early
  <2>3. \/ slots' = slots /\ op'[r] = "write"
        \/ slots' = Forget(r) /\ r \in orphans' /\ op'[r] = "none"
    BY <1>3, <1>9 DEF Mint
  <2>4. slots' = slots \/ slots'[x] = NoSlot
    BY <1>8, <2>3
  <2> QED
    BY <1>1, <1>6, <2>1, <2>2, <2>3, <2>4 DEF NotRegistered, IsNew, KeepsSlot, SeenUp, Tracks
<1>10. CASE MintFails(r)
  <2>1. op[r] = "mint" /\ op'[r] = "none" /\ runner' = runner
    BY <1>3, <1>10 DEF MintFails, github
  <2> QED
    BY <1>4, <1>5, <2>1 DEF NotRegistered
<1>11. CASE WriteFiles(r) \/ StartUnit(r) \/ StartMisreported(r)
  <2>1. op'[r] \in {"start", "undo", "starting"} /\ UNCHANGED <<slots, runner>>
    BY <1>3, <1>11 DEF WriteFiles, StartUnit, StartMisreported, github
  <2> QED
    BY <1>1, <1>4, <1>5, <1>6, <2>1 DEF NotRegistered, IsNew, KeepsSlot, SeenUp, Tracks
<1>12. CASE StartReturns(r)
  <2>1. \/ op[r] = "started" /\ op'[r] = "none" /\ slots' = PhaseIf(r, "starting", "idle")
        \/ op'[r] = "undo" /\ slots' = slots
    BY <1>3, <1>12 DEF StartReturns
  <2>2. runner' = runner
    BY <1>12 DEF StartReturns, github
  <2>3. CASE runner[r] = "ready" /\ op[r] = "started" /\ op'[r] = "none" /\ slots' = PhaseIf(r, "starting", "idle")
    <3>1. Tracks(r) /\ slots[x].phase = "starting"
      BY <1>4, <2>3 DEF KeepsSlot
    <3>2. slots'[x] # NoSlot /\ slots'[x].runner = r /\ slots'[x].phase = "idle"
      <4>1. slots'[x] = [slots[x] EXCEPT !.phase = "idle"]
        BY <1>2, <2>3, <3>1, OwnSlot
      <4>2. "idle" \in Phases
        BY DEF Phases
      <4> QED
        BY <1>2, <3>1, <4>1, <4>2, OwnSlot
    <3> QED
      BY <1>1, <1>4, <1>6, <2>3, <3>2 DEF NotRegistered, IsNew, KeepsSlot, SeenUp, Tracks
  <2>4. CASE runner[r] = "ready" /\ op'[r] = "undo" /\ slots' = slots
    BY <1>1, <1>4, <1>6, <2>4 DEF NotRegistered, IsNew, KeepsSlot, SeenUp, Tracks
  <2>5. CASE runner[r] # "ready"
    BY <1>5, <2>1, <2>2, <2>5 DEF NotRegistered
  <2> QED
    BY <2>1, <2>3, <2>4, <2>5
<1>13. CASE Undo(r)
  <2>1. op'[r] = "none" /\ slots' = Forget(r) /\ (runner' = runner \/ runner' = Removed(r))
    BY <1>3, <1>13 DEF Undo
  <2>2. runner'[r] = "ready" => runner[r] = "ready" /\ r \in orphans'
    BY <1>2, <1>7, <1>13 DEF Undo, Refused
  <2> QED
    BY <1>1, <1>4, <1>5, <1>6, <1>8, <2>1, <2>2 DEF NotRegistered, IsNew, KeepsSlot, SeenUp, Tracks
<1>14. CASE WriteMarker(r) \/ RemoveForStopFails(r)
  <2>1. \/ op[r] = "marker" /\ op'[r] = "remove" /\ slots' = slots
        \/ op[r] \in {"marker", "remove"} /\ op'[r] = "none" /\ slots' = PhaseIf(r, "stopping", "idle")
    BY <1>3, <1>14 DEF WriteMarker, RemoveForStopFails, AbortStop
  <2>2. runner'[r] = "ready" => runner[r] = "ready"
    BY <1>7, <1>14 DEF WriteMarker, RemoveForStopFails, github
  <2>3. CASE runner'[r] = "ready"
    <3>1. Tracks(r) /\ slots[x].phase = "stopping"
      BY <1>4, <2>1, <2>2, <2>3 DEF KeepsSlot
    <3>2. CASE op'[r] = "remove" /\ slots' = slots
      BY <1>1, <1>4, <1>6, <2>2, <2>3, <3>1, <3>2 DEF NotRegistered, IsNew, KeepsSlot, SeenUp, Tracks
    <3>3. CASE op'[r] = "none" /\ slots' = PhaseIf(r, "stopping", "idle")
      <4>1. slots'[x] # NoSlot /\ slots'[x].runner = r /\ slots'[x].phase = "idle"
        <5>1. slots'[x] = [slots[x] EXCEPT !.phase = "idle"]
          BY <1>2, <3>1, <3>3, OwnSlot
        <5>2. "idle" \in Phases
          BY DEF Phases
        <5> QED
          BY <1>2, <3>1, <5>1, <5>2, OwnSlot
      <4> QED
        BY <1>1, <1>4, <1>6, <2>2, <2>3, <3>3, <4>1 DEF NotRegistered, IsNew, KeepsSlot, SeenUp, Tracks
    <3> QED
      BY <2>1, <3>2, <3>3
  <2>4. CASE runner'[r] # "ready"
    BY <1>5, <2>1, <2>4 DEF NotRegistered
  <2> QED
    BY <2>3, <2>4
<1>15. CASE RemoveForStop(r) \/ StopUnit(r) \/ StopReturns(r)
  <2>1. runner'[r] = "none"
    BY <1>3, <1>4, <1>7, <1>15 DEF RemoveForStop, StopUnit, StopReturns, Refused, NotRegistered, github
  <2> QED
    BY <1>5, <2>1 DEF NotRegistered
<1>16. CASE RemoveLater(r)
  <2>1. op' = op /\ slots' = slots
    BY <1>16 DEF RemoveLater
  <2>2. runner'[r] = "ready" => runner[r] = "ready" /\ r \in orphans'
    BY <1>2, <1>7, <1>16 DEF RemoveLater, Refused
  <2>3. runner[r] = "none" => runner'[r] = "none"
    BY <1>7, <1>16 DEF RemoveLater
  <2> QED
    BY <1>1, <1>4, <1>5, <1>6, <2>1, <2>2, <2>3 DEF NotRegistered, IsNew, KeepsSlot, SeenUp, Tracks
<1> QED
  BY <1>9, <1>10, <1>11, <1>12, <1>13, <1>14, <1>15, <1>16 DEF StartStep, StopStep

\* A reconcile: what loses its slot is withdrawn, and what stops has its goroutine.
LEMMA ReconcileInSight ==
    ASSUME IInv, AllInSight, NEW aged, NEW old, NEW mem, Reconcile(aged, old, mem)
    PROVE  AllInSight'
<1> SUFFICES ASSUME NEW r \in Runners PROVE InSight(r)'
  BY DEF AllInSight
<1> DEFINE x == RefOf(r)
<1>1. /\ x \in Refs /\ Begins(x) /\ GoesOn(r)
      /\ UNCHANGED <<up, runner, events, orphans>> /\ up /\ removing' = removing \cup Withdrawn
  BY ReconcileFacts DEF IInv, Reconcile, Runners, RefOf
<1>2. InSight(r)
  BY DEF AllInSight
<1>3. NotRegistered(r)'
  BY <1>1, <1>2 DEF InSight, NotRegistered, GoesOn, Unused
<1>4. ASSUME runner'[r] = "ready" PROVE IsNew(r)' /\ KeepsSlot(r)' /\ SeenUp(r)'
  <2>1. runner[r] = "ready" /\ IsNew(r) /\ KeepsSlot(r) /\ SeenUp(r) /\ op'[r] # "mint"
    BY <1>1, <1>2, <1>3, <1>4 DEF InSight, NotRegistered
  <2>2. op'[r] = op[r] \/ op'[r] = "marker"
    BY <1>1, <2>1 DEF GoesOn
  <2>3. Tracks(r) => x \in Tracked /\ (x \in Owned => slots[x] \in Slot)
    BY <1>1 DEF Tracks, Tracked, IInv, TypeOK
  <2>4. x \in Owned => /\ [slots[x] EXCEPT !.phase = "stopping"].phase = "stopping"
                       /\ [slots[x] EXCEPT !.phase = "stopping"].runner = slots[x].runner
                       /\ [slots[x] EXCEPT !.phase = "stopping"] # NoSlot
    <3>1. x \in Owned => slots[x] \in Slot
      BY <1>1 DEF Owned, Tracked, IInv, TypeOK
    <3>2. x \in Owned => [slots[x] EXCEPT !.phase = "stopping"] \in Slot
      BY <3>1 DEF Slot, Phases
    <3> QED
      BY <3>1, <3>2, NoneAssumption DEF Slot
  <2>5. IsNew(r)'
    <3>1. CASE x \in Owned /\ slots'[x] = slots[x]
      BY <1>1, <2>1, <3>1 DEF IsNew, Tracks
    <3>2. CASE x \in Owned /\ slots'[x] = [slots[x] EXCEPT !.phase = "stopping"]
      BY <1>1, <2>1, <2>4, <3>2 DEF IsNew
    <3>3. CASE slots'[x] = NoSlot
      BY <1>1, <2>1, <3>3 DEF IsNew, Tracks
    <3>4. CASE \E q \in Runners, k \in SetKeys : slots'[x] = [set |-> k, phase |-> "starting", runner |-> q]
      BY <1>1, <2>1, <3>4 DEF IsNew
    <3> QED
      BY <1>1, <3>1, <3>2, <3>3, <3>4 DEF Begins
  <2>6. op'[r] = "started" => Tracks(r)' /\ slots'[x].phase = "starting"
    <3> SUFFICES ASSUME op'[r] = "started" PROVE Tracks(r)' /\ slots'[x].phase = "starting"
      OBVIOUS
    <3>1. Tracks(r) /\ slots[x].phase = "starting" /\ x \in Owned
      BY <2>1, <2>2, <2>3 DEF KeepsSlot, Owned
    <3>2. slots'[x] = slots[x]
      BY <1>1, <3>1 DEF Begins
    <3> QED
      BY <3>1, <3>2 DEF Tracks
  <2>7. op'[r] \in {"marker", "remove"} => Tracks(r)' /\ slots'[x].phase = "stopping"
    <3>1. CASE op[r] \in {"marker", "remove"}
      <4>1. Tracks(r) /\ slots[x].phase = "stopping" /\ x \in Owned
        BY <2>1, <2>3, <3>1 DEF KeepsSlot, Owned
      <4>2. slots'[x] = slots[x]
        BY <1>1, <4>1 DEF Begins
      <4> QED
        BY <4>1, <4>2 DEF Tracks
    <3>2. CASE op'[r] = "marker" /\ op[r] # "marker"
      <4>1. PICK y \in Owned : slots[y].runner = r /\ slots'[y] = [slots[y] EXCEPT !.phase = "stopping"]
        BY <1>1, <3>2 DEF GoesOn
      <4>2. y = x
        BY <4>1 DEF IInv, FilesOwn, Owned, Tracked
      <4> QED
        BY <2>4, <4>1, <4>2 DEF Tracks
    <3> QED
      BY <2>2, <3>1, <3>2
  <2>8. SeenUp(r)'
    <3>1. CASE r \in orphans \cup removing
      BY <1>1, <3>1 DEF SeenUp
    <3>2. CASE op[r] \notin {"none", "mint", "stop", "stopping"}
      BY <2>2, <3>2 DEF SeenUp
    <3>3. CASE Tracks(r) /\ slots[x].phase = "idle" /\ x \notin Owned
      <4>1. r \in Withdrawn
        BY <2>3, <3>3 DEF Withdrawn, Lost, Tracks
      <4> QED
        BY <1>1, <4>1 DEF SeenUp
    <3>4. CASE Tracks(r) /\ slots[x].phase = "idle" /\ x \in Owned
      <4>1. slots'[x] = slots[x] \/ op'[slots[x].runner] \in {"mint", "marker"}
        BY <1>1, <3>4 DEF Begins
      <4> QED
        BY <2>1, <3>4, <4>1 DEF SeenUp, Tracks
    <3> QED
      BY <2>1, <3>1, <3>2, <3>3, <3>4 DEF SeenUp
  <2> QED
    BY <2>5, <2>6, <2>7, <2>8 DEF KeepsSlot
<1> QED
  BY <1>1, <1>3, <1>4 DEF InSight

\* A unit's steps: only its cleanup takes a file a listener that is down relies on.
LEMMA UnitInSight ==
    ASSUME IInv, AllInSight, NEW x \in Refs, UnitStep(x) \/ CleanupKilled(x)
    PROVE  AllInSight'
<1> SUFFICES ASSUME NEW r \in Runners PROVE InSight(r)'
  BY DEF AllInSight
<1>1. UNCHANGED <<up, slots, events, removing>> /\ orphans \subseteq orphans'
  BY DEF UnitStep, PrepareOk, PrepareFails, Exit, Deregister, CleanupFiles, CleanupKilled, listener, github
<1>2. op'[r] = op[r] \/ (op[r] = "starting" /\ op'[r] \in {"started", "failed"})
  BY DEF UnitStep, PrepareOk, PrepareFails, Exit, Deregister, CleanupFiles, CleanupKilled, listener, StartEnds
<1>3. InSight(r) /\ (op[r] = "starting" => Tracks(r) /\ slots[RefOf(r)].phase = "starting") /\ RefOf(r) \in Refs
  BY DEF AllInSight, IInv, StartsOwn, Early, Runners, RefOf
<1>4. \A q \in Runners : /\ runner[r] = "none" => Removed(q)[r] = "none"
                         /\ Removed(q)[r] = "ready" => runner[r] = "ready" /\ q # r
  BY DEF Removed, IInv, TypeOK
<1>5. runner' = runner \/ (Deregister(x) /\ runner' = Removed(file[x]) /\ file[x] # NoRunner)
  BY DEF UnitStep, PrepareOk, PrepareFails, Exit, Deregister, CleanupFiles, CleanupKilled, github
<1>6. /\ runner[r] = "none" => runner'[r] = "none"
      /\ runner'[r] = "ready" => runner[r] = "ready"
  BY <1>4, <1>5 DEF IInv, TypeOK
<1>7. ASSUME runner'[r] = "ready", SeenDown(r) PROVE SeenDown(r)'
  <2>1. CASE r \in orphans
    BY <1>1, <2>1 DEF SeenDown
  <2>2. CASE r \notin orphans /\ RefOf(r) # x
    <3>1. file'[RefOf(r)] = file[RefOf(r)] /\ unit'[RefOf(r)] = unit[RefOf(r)] /\ marker' \subseteq marker
      BY <1>3, <2>2 DEF UnitStep, PrepareOk, PrepareFails, Exit, Deregister, CleanupFiles, CleanupKilled, UnitMoves, IInv, TypeOK
    <3> QED
      BY <1>7, <2>2, <3>1 DEF SeenDown
  <2>3. CASE r \notin orphans /\ RefOf(r) = x
    <3>1. file[x] = r /\ x \notin marker /\ unit[x] # "cleaned"
      BY <1>7, <2>3 DEF SeenDown
    <3>2. CASE Deregister(x)
      <4>1. r # NoRunner /\ Removed(r)[r] # "ready"
        BY <1>4, NoneAssumption
      <4>2. runner[r] # "busy"
        BY <1>6, <1>7
      <4> QED
        BY <1>7, <3>1, <3>2, <4>1, <4>2 DEF Deregister, Refused, SeenDown
    <3>3. CASE ~Deregister(x)
      <4>1. UNCHANGED <<file, marker>> /\ unit'[x] # "cleaned"
        BY <3>1, <3>3 DEF UnitStep, PrepareOk, PrepareFails, Exit, CleanupFiles, CleanupKilled, UnitMoves, IInv, TypeOK
      <4> QED
        BY <2>3, <3>1, <4>1 DEF SeenDown
    <3> QED
      BY <3>2, <3>3
  <2> QED
    BY <2>1, <2>2, <2>3
<1> QED
  BY <1>1, <1>2, <1>3, <1>6, <1>7 DEF InSight, NotRegistered, IsNew, KeepsSlot, SeenUp, Tracks

\* Messages, jobs and sets: a runner that is heard of is not ready.
LEMMA EventInSight ==
    ASSUME IInv, AllInSight,
           \/ \E r \in Runners : JobStarted(r) \/ JobCompleted(r) \/ TakeJob(r) \/ JobEnds(r) \/ Sweep(r)
           \/ \E k \in SetKeys : Statistics(k) \/ ServeSet(k) \/ DropSet(k) \/ JobArrives(k)
           \/ \E e \in events : LoseEvent(e)
           \/ UNCHANGED vars
    PROVE  AllInSight'
<1> SUFFICES ASSUME NEW q \in Runners PROVE InSight(q)'
  BY DEF AllInSight
<1>1. InSight(q) /\ RefOf(q) \in Refs
  BY DEF AllInSight, Runners, RefOf
<1>2. ASSUME NEW r \in Runners, JobStarted(r) \/ JobCompleted(r) PROVE InSight(q)'
  <2>1. /\ Touches(r) /\ UNCHANGED <<up, op, machine, runner, removing, orphans>> /\ events' \subseteq events
        /\ <<"started", r>> \in events \/ <<"completed", r>> \in events
    BY <1>2, SlotsTouched DEF IInv, JobStarted, JobCompleted, Deliver
  <2>2. CASE q = r
    <3>1. runner'[q] # "ready"
      BY <1>1, <2>1, <2>2 DEF InSight, IsNew
    <3> QED
      BY <1>1, <2>1, <3>1 DEF InSight, NotRegistered
  <2>3. CASE q # r
    <3>1. (Tracks(q)' <=> Tracks(q)) /\ (Tracks(q) => slots'[RefOf(q)] = slots[RefOf(q)])
      BY <1>1, <2>1, <2>3 DEF Touches, Tracks
    <3> QED
      BY <1>1, <2>1, <3>1 DEF InSight, NotRegistered, IsNew, KeepsSlot, SeenUp, SeenDown, machine
  <2> QED
    BY <2>2, <2>3
<1>3. ASSUME NEW r \in Runners, TakeJob(r) \/ JobEnds(r) \/ Sweep(r) PROVE InSight(q)'
  <2>1. UNCHANGED <<listener, machine>>
    BY <1>3 DEF TakeJob, JobEnds, Sweep
  <2>2. CASE q = r
    <3>1. runner'[r] # "ready" /\ (runner[r] = "none" => runner'[r] = "none")
      BY <1>3 DEF TakeJob, JobEnds, Sweep, Removed, IInv, TypeOK
    <3> QED
      BY <1>1, <2>1, <2>2, <3>1 DEF InSight, NotRegistered, listener
  <2>3. CASE q # r
    <3>1. /\ runner'[q] = runner[q] /\ (q \in orphans => q \in orphans')
          /\ \A kind \in {"started", "completed"} : <<kind, q>> \in events' => <<kind, q>> \in events
      BY <1>3, <2>3 DEF TakeJob, JobEnds, Sweep, Removed, IInv, TypeOK
    <3> QED
      BY <1>1, <2>1, <3>1 DEF InSight, NotRegistered, IsNew, KeepsSlot, SeenUp, SeenDown, Tracks, listener, machine
  <2> QED
    BY <2>2, <2>3
<1>4. ASSUME \/ \E k \in SetKeys : Statistics(k) \/ ServeSet(k) \/ DropSet(k) \/ JobArrives(k)
             \/ \E e \in events : LoseEvent(e)
             \/ UNCHANGED vars
      PROVE  InSight(q)'
  <2>1. UNCHANGED <<up, slots, op, removing, machine, runner, orphans>> /\ events' \subseteq events
    BY <1>4 DEF Statistics, ServeSet, DropSet, JobArrives, LoseEvent, vars, listener, github
  <2> QED
    BY <1>1, <2>1 DEF InSight, NotRegistered, IsNew, KeepsSlot, SeenUp, SeenDown, Tracks, machine
<1> QED
  BY <1>2, <1>3, <1>4

\* The listener's end and its return.
LEMMA LifeInSight ==
    ASSUME IInv, AllInSight, Crash \/ Restart
    PROVE  AllInSight'
<1> SUFFICES ASSUME NEW r \in Runners PROVE InSight(r)'
  BY DEF AllInSight
<1>1. InSight(r) /\ RefOf(r) \in Refs
  BY DEF AllInSight, Runners, RefOf
<1>2. CASE Crash
  <2>1. op'[r] = "none" /\ ~Tracks(r)' /\ ~up'
    BY <1>1, <1>2 DEF Crash, Tracks
  <2>2. runner' = runner /\ events' = events
    BY <1>2 DEF Crash, github
  <2>3. runner[r] = "ready" => SeenDown(r)'
    BY <1>2 DEF Crash, SeenDown, machine
  <2> QED
    BY <1>1, <2>1, <2>2, <2>3 DEF InSight, NotRegistered, IsNew, KeepsSlot
<1>3. CASE Restart
  <2>1. op'[r] = "none" /\ up' /\ ~up /\ runner' = runner /\ events' = events /\ orphans' = orphans
    BY <1>3 DEF Restart, IInv, DownIsQuiet, github
  <2>2. Tracks(r)' => slots'[RefOf(r)].phase = "idle"
    BY <1>1, <1>3 DEF Restart, Tracks
  <2>3. runner[r] = "ready" /\ file[RefOf(r)] = r => Tracks(r)' \/ r \in removing'
    <3> SUFFICES ASSUME file[RefOf(r)] = r PROVE Tracks(r)' \/ r \in removing'
      OBVIOUS
    <3>1. r # NoRunner
      BY NoneAssumption
    <3>2. \A q \in Runners : [set |-> setOf[q], phase |-> "idle", runner |-> q] # NoSlot
      BY NoneAssumption DEF IInv, TypeOK, Slot, Phases
    <3> QED
      BY <1>1, <1>3, <3>1, <3>2 DEF Restart, Tracks
  <2> QED
    BY <1>1, <2>1, <2>2, <2>3 DEF InSight, NotRegistered, IsNew, KeepsSlot, SeenUp, SeenDown
<1> QED
  BY <1>2, <1>3

LEMMA SightStep == IInv /\ AllInSight /\ [Next]_vars => AllInSight'
<1> SUFFICES ASSUME IInv, AllInSight, [Next]_vars PROVE AllInSight'
  OBVIOUS
<1>1. ASSUME NEW r \in Runners, StartStep(r) \/ StartMisreported(r) \/ StopStep(r) \/ RemoveLater(r) PROVE AllInSight'
  BY <1>1, OwnInSight, OthersInSight DEF AllInSight
<1> QED
  BY <1>1, ReconcileInSight, UnitInSight, EventInSight, LifeInSight DEF Next, AnyReconcile

\* scaler.go, state.go, lane-slot.sh: a registration that may still take a job is always someone's to
\* remove, through any interleaving of failures, crashes and restarts.
THEOREM NothingLeaks == Spec => []NoSilentLeak
<1>1. Init => AllInSight
  BY DEF Init, AllInSight, InSight, NotRegistered
<1>2. AllInSight /\ TypeOK => NoSilentLeak
  BY DEF AllInSight, InSight, SeenUp, SeenDown, NoSilentLeak, TypeOK
<1>3. IInv => TypeOK
  BY DEF IInv
<1> QED
  BY <1>1, <1>2, <1>3, Begun, Inductive, SightStep, PTL DEF Spec
=============================================================================
