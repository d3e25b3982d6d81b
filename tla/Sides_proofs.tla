----------------------------- MODULE Sides_proofs -----------------------------
(***************************************************************************)
(* Proofs of what stands at both sides of the review.  Pin propagation     *)
(* keeps its types, what a run trusts of its judgement still holds when    *)
(* it merges, and a merge changes nothing but pins: for every catalog,     *)
(* any number of runs and files, and however often people and failures     *)
(* interfere.  A pull request the dashboard shows green was green no       *)
(* longer ago than a check reading may stay: for any repositories and      *)
(* pull requests, whatever a pass may spend and however GitHub moves       *)
(* between its requests.  What a pull request owes is not dropped on the   *)
(* way to a pass of both gates that read its requirements: for any plans,  *)
(* bodies, test files and shards, whatever the model answers.  And the     *)
(* lines coverage-not-lost tells of are exactly those the pull request     *)
(* left as they were and that no longer run, for any file and any diff.    *)
(***************************************************************************)
EXTENDS Sides, TextGates, FiniteSetTheorems, WellFoundedInduction, SequenceTheorems, TLAPS

Branches == [there : BOOLEAN, from : [Files -> Pinned], behind : BOOLEAN, files : [Files -> Pinned],
             checks : {"running", "passed", "failed"}]
Pulls == [state : {"none", "open", "closed", "merged"}, asks : BOOLEAN]

\* A run's record, whatever its texts are.
IsRun(v) ==
  /\ v \in [pc : Steps, target : Commits, todo : SUBSET Targets, on : Commits, fresh : BOOLEAN, text : {v.text}]
  /\ v.text \in [DOMAIN v.text -> Pinned] /\ DOMAIN v.text \subseteq Files

\* The runs' part of the type invariant, a run at a time.
Running(runs) == runs = [r \in Runs |-> runs[r]] /\ \A r \in Runs : IsRun(runs[r])

LEMMA RunTypes == TypeOK => Running(run)
BY DEF TypeOK, IsRun, Running

\* And back.
LEMMA RunsTyped ==
  ASSUME NEW runs, Running(runs)
  PROVE  /\ runs \in [Runs -> [pc : Steps, target : Commits, todo : SUBSET Targets, on : Commits, fresh : BOOLEAN,
                               text : {runs[r].text : r \in Runs}]]
         /\ \A r \in Runs : runs[r].text \in [DOMAIN runs[r].text -> Pinned] /\ DOMAIN runs[r].text \subseteq Files
<1>1. \A r \in Runs : runs[r] \in [pc : Steps, target : Commits, todo : SUBSET Targets, on : Commits, fresh : BOOLEAN,
                                   text : {runs[s].text : s \in Runs}]
  BY DEF IsRun, Running
<1> QED
  BY <1>1 DEF IsRun, Running

LEMMA IdleIsRun == IsRun(Idle)
<1>1. <<>> \in [DOMAIN <<>> -> Pinned] /\ DOMAIN <<>> \subseteq Files
  OBVIOUS
<1> QED
  BY <1>1, PinsAssumption DEF IsRun, Idle, Steps, Targets

LEMMA FirstFilesPinned == FirstFiles \in [Files -> Pinned]
BY PinsAssumption DEF FirstFiles, Pinned

LEMMA NoBranchTyped == NoBranch \in Branches
BY FirstFilesPinned DEF NoBranch, Branches

\* A run that goes on, and the ones that age with a branch.
LEMMA GoesTypes ==
  ASSUME NEW runs, Running(runs), NEW r \in Runs, NEW new, IsRun(new)
  PROVE  Running([runs EXCEPT ![r] = new])
BY DEF Running

LEMMA AgedTypes ==
  ASSUME NEW runs, Running(runs), NEW t
  PROVE  Running(Aged(runs, t))
<1>1. ASSUME NEW v, IsRun(v) PROVE IsRun([v EXCEPT !.fresh = FALSE])
  BY <1>1 DEF IsRun
<1> QED
  BY <1>1 DEF Running, Aged

LEMMA StepTypes ==
  ASSUME Running(run), NEW r \in Runs, NEW new, IsRun(new), NEW t,
         Goes(r, new) \/ GoesPast(r, new, t)
  PROVE  Running(run')
BY GoesTypes, AgedTypes DEF Goes, GoesPast

\* A run that takes up other texts.
LEMMA TextTypes ==
  ASSUME NEW v, IsRun(v), NEW at \in Steps, NEW text, text \in [DOMAIN text -> Pinned], DOMAIN text \subseteq Files
  PROVE  IsRun([v EXCEPT !.pc = at, !.text = text])
BY DEF IsRun

\* A branch whose checks end, or that gets another line.
LEMMA BranchTypes ==
  ASSUME branch \in [Targets -> Branches], NEW t, NEW result \in {"running", "passed", "failed"}
  PROVE  /\ [branch EXCEPT ![t].checks = result] \in [Targets -> Branches]
         /\ \A f \in Files, new \in Pinned :
              [branch EXCEPT ![t].files[f] = new, ![t].checks = result] \in [Targets -> Branches]
<1>1. ASSUME NEW b \in Branches, NEW f \in Files, NEW new \in Pinned
      PROVE  /\ [b EXCEPT !.checks = result] \in Branches
             /\ [b EXCEPT !.files[f] = new, !.checks = result] \in Branches
  BY DEF Branches
<1>2. [branch EXCEPT ![t].checks = result] = [u \in Targets |-> IF u = t THEN [branch[u] EXCEPT !.checks = result] ELSE branch[u]]
  OBVIOUS
<1>3. \A f \in Files, new \in Pinned :
        [branch EXCEPT ![t].files[f] = new, ![t].checks = result]
          = [u \in Targets |-> IF u = t THEN [branch[u] EXCEPT !.files[f] = new, !.checks = result] ELSE branch[u]]
  OBVIOUS
<1>4. [branch EXCEPT ![t].checks = result] \in [Targets -> Branches]
  <2>1. \A u \in Targets : [branch[u] EXCEPT !.checks = result] \in Branches
    BY DEF Branches
  <2> QED
    BY <1>2, <2>1
<1> QED
  BY <1>1, <1>3, <1>4

\* A branch rebased on the default branch, or on top of it, has files.
LEMMA JoinedPinned ==
  ASSUME TypeOK, NEW b \in Branches
  PROVE  Joined(b) \in [Files -> Pinned]
BY DEF TypeOK, Joined, Line, Branches, Pinned

LEMMA BaseBecomesTypes ==
  ASSUME NEW files \in [Files -> Pinned], NEW kept \in [Targets -> Branches], BaseBecomes(files, kept)
  PROVE  base' \in [Files -> Pinned] /\ branch' \in [Targets -> Branches]
<1>1. \A b \in Branches : [b EXCEPT !.behind = TRUE] \in Branches
  BY DEF Branches
<1>2. \A t \in Targets : (IF kept[t].there THEN [kept[t] EXCEPT !.behind = TRUE] ELSE NoBranch) \in Branches
  BY <1>1, NoBranchTyped
<1> QED
  BY <1>2 DEF BaseBecomes

\* The types are kept when the runs' are and what else changes is typed.
LEMMA TypeStep ==
  ASSUME main' \in Commits, base' \in [Files -> Pinned], branch' \in [Targets -> Branches],
         pull' \in [Targets -> Pulls], moves' \in Nat, faults' \in Nat, Running(run')
  PROVE  TypeOK'
<1>1. /\ run' \in [Runs -> [pc : Steps, target : Commits, todo : SUBSET Targets, on : Commits, fresh : BOOLEAN,
                            text : {run'[r].text : r \in Runs}]]
      /\ \A r \in Runs : run'[r].text \in [DOMAIN run'[r].text -> Pinned] /\ DOMAIN run'[r].text \subseteq Files
  BY RunsTyped
<1> QED
  BY <1>1 DEF TypeOK, Branches, Pulls

THEOREM TypeCorrect == Spec => []TypeOK
<1>1. Init => TypeOK
  <2> SUFFICES ASSUME Init PROVE TypeOK
    OBVIOUS
  <2>1. Running(run)
    BY IdleIsRun DEF Init, Running
  <2>2. /\ main \in Commits /\ moves \in Nat /\ faults \in Nat
        /\ base \in [Files -> Pinned] /\ branch \in [Targets -> Branches] /\ pull \in [Targets -> Pulls]
    BY FirstFilesPinned, NoBranchTyped, PinsAssumption DEF Init, NoPull, Pulls
  <2> QED
    BY <2>1, <2>2, RunsTyped DEF TypeOK, Branches, Pulls
<1>2. TypeOK /\ [Next]_vars => TypeOK'
  <2> SUFFICES ASSUME TypeOK, [Next]_vars PROVE TypeOK'
    OBVIOUS
  <2> USE PinsAssumption
  <2>0. /\ main \in Commits /\ moves \in Nat /\ faults \in Nat
        /\ base \in [Files -> Pinned] /\ branch \in [Targets -> Branches] /\ pull \in [Targets -> Pulls]
        /\ Running(run) /\ \A r \in Runs : IsRun(run[r])
    BY RunTypes DEF TypeOK, Branches, Pulls, Running
  <2>1. ASSUME NEW r \in Runs, Start(r) PROVE TypeOK'
    <3>1. IsRun([Idle EXCEPT !.pc = "merge", !.target = main, !.todo = OpenPulls])
      BY <2>0, IdleIsRun DEF IsRun, Idle, OpenPulls, Steps
    <3>2. Running(run')
      BY <2>0, <2>1, <3>1, StepTypes DEF Start
    <3> QED
      BY <2>0, <2>1, <3>2, TypeStep DEF Start, Fault
  <2>2. ASSUME NEW r \in Runs, Judge(r) PROVE TypeOK'
    <3>1. PICK t \in run[r].todo : Judge(r)!2!(t)
      BY <2>2 DEF Judge
    <3>2. t \in Targets /\ branch[t] \in Branches
      BY <2>0 DEF IsRun
    <3> DEFINE next == [run[r] EXCEPT !.todo = @ \ {t}]
               judged == [next EXCEPT !.pc = "checks", !.on = t, !.fresh = TRUE]
    <3>3. IsRun(next) /\ IsRun(judged)
      BY <2>0, <3>2 DEF IsRun, Steps, Targets
    <3>4. Running(run')
      <4>1. GoesPast(r, next, t) \/ Goes(r, next) \/ Goes(r, judged)
        BY <3>1
      <4> QED
        BY <4>1, <3>3, <2>0, StepTypes
    <3>5. branch' \in [Targets -> Branches] /\ pull' \in [Targets -> Pulls]
      <4>1. [branch[t] EXCEPT !.from = base, !.behind = FALSE, !.files = Joined(branch[t]), !.checks = "running"] \in Branches
        BY <2>0, <3>2, JoinedPinned DEF Branches
      <4>2. \/ branch' = branch \/ branch' = [branch EXCEPT ![t] = NoBranch]
            \/ branch' = [branch EXCEPT ![t] = [branch[t] EXCEPT !.from = base, !.behind = FALSE,
                                                             !.files = Joined(branch[t]), !.checks = "running"]]
        BY <2>0, <3>1, <3>2 DEF Close
      <4>3. pull' = pull \/ pull' = [pull EXCEPT ![t].state = "closed"]
        BY <3>1 DEF Close
      <4> QED
        BY <2>0, <3>2, <4>1, <4>2, <4>3, NoBranchTyped DEF Pulls
    <3> QED
      BY <2>0, <2>2, <3>4, <3>5, TypeStep DEF Judge
  <2>3. ASSUME NEW r \in Runs, ReadChecks(r) PROVE TypeOK'
    <3>1. /\ IsRun([run[r] EXCEPT !.pc = "squash"])
          /\ IsRun([run[r] EXCEPT !.pc = "merge", !.on = 0, !.fresh = FALSE])
      BY <2>0 DEF IsRun, Steps
    <3>2. Running(run')
      BY <2>0, <2>3, <3>1, StepTypes DEF ReadChecks
    <3> QED
      BY <2>0, <2>3, <3>2, TypeStep DEF ReadChecks
  <2>4. ASSUME NEW r \in Runs, Squash(r) PROVE TypeOK'
    <3> DEFINE t == run[r].on
               next == [run[r] EXCEPT !.pc = "merge", !.on = 0, !.fresh = FALSE]
    <3>1. t \in Targets /\ IsRun(next)
      BY <2>0 DEF IsRun, Steps, Targets
    <3>2. Running(run')
      <4>1. GoesPast(r, next, t) \/ Goes(r, next)
        BY <2>4 DEF Squash
      <4> QED
        BY <4>1, <3>1, <2>0, StepTypes
    <3>3. Joined(branch[t]) \in [Files -> Pinned] /\ [branch EXCEPT ![t] = NoBranch] \in [Targets -> Branches]
      BY <2>0, <3>1, JoinedPinned, NoBranchTyped
    <3>4. base' \in [Files -> Pinned] /\ branch' \in [Targets -> Branches]
      <4>1. \/ BaseBecomes(Joined(branch[t]), [branch EXCEPT ![t] = NoBranch])
            \/ BaseBecomes(Joined(branch[t]), branch) \/ UNCHANGED <<base, branch>>
        BY <2>4 DEF Squash
      <4> QED
        BY <4>1, <2>0, <3>3, BaseBecomesTypes
    <3>5. pull' \in [Targets -> Pulls] /\ faults' \in Nat
      BY <2>0, <2>4, <3>1 DEF Squash, Fault, Pulls
    <3> QED
      BY <2>0, <2>4, <3>2, <3>4, <3>5, TypeStep DEF Squash
  <2>5. ASSUME NEW r \in Runs, Plan(r) PROVE TypeOK'
    <3> DEFINE t == run[r].target
               moving == Moving(base, t)
    <3>1. t \in Commits /\ moving \subseteq Files
      BY <2>0 DEF IsRun, Moving
    <3>2. [f \in moving |-> [base[f] EXCEPT !.pin = t]] \in [moving -> Pinned]
      BY <2>0, <3>1 DEF Pinned
    <3>3. IsRun([run[r] EXCEPT !.pc = "open", !.text = [f \in moving |-> [base[f] EXCEPT !.pin = t]]])
      <4> DEFINE text == [f \in moving |-> [base[f] EXCEPT !.pin = t]]
      <4>1. text \in [DOMAIN text -> Pinned] /\ DOMAIN text \subseteq Files
        BY <3>1, <3>2
      <4>2. IsRun([run[r] EXCEPT !.pc = "open", !.text = text])
        <5> HIDE DEF text
        <5> QED
          BY <4>1, <2>0, TextTypes DEF Steps
      <4> QED
        BY <4>2
    <3>4. Running(run')
      BY <2>0, <2>5, <3>3, IdleIsRun, StepTypes DEF Plan
    <3> QED
      BY <2>0, <2>5, <3>4, TypeStep DEF Plan
  <2>6. ASSUME NEW r \in Runs, FindBump(r) \/ Waits(r) PROVE TypeOK'
    <3>1. IsRun([run[r] EXCEPT !.pc = "older"]) /\ IsRun([run[r] EXCEPT !.pc = "branch"])
      BY <2>0 DEF IsRun, Steps
    <3>2. Running(run')
      BY <2>0, <2>6, <3>1, IdleIsRun, StepTypes DEF FindBump, Waits
    <3> QED
      BY <2>0, <2>6, <3>2, TypeStep DEF FindBump, Waits
  <2>7. ASSUME NEW r \in Runs, MakeBranch(r) PROVE TypeOK'
    <3>1. IsRun([run[r] EXCEPT !.pc = "put"])
      BY <2>0 DEF IsRun, Steps
    <3>2. Running(run')
      BY <2>0, <2>7, <3>1, StepTypes DEF MakeBranch
    <3>3. [NoBranch EXCEPT !.there = TRUE, !.from = base, !.files = base] \in Branches
      BY <2>0, NoBranchTyped DEF Branches
    <3>4. branch' \in [Targets -> Branches]
      BY <2>0, <2>7, <3>3 DEF MakeBranch
    <3> QED
      BY <2>0, <2>7, <3>2, <3>4, TypeStep DEF MakeBranch
  <2>8. ASSUME NEW r \in Runs, PutFile(r) PROVE TypeOK'
    <3>1. PICK f \in DOMAIN run[r].text : PutFile(r)!2!(f)
      BY <2>8 DEF PutFile
    <3> DEFINE t == run[r].target
               left == [g \in DOMAIN run[r].text \ {f} |-> run[r].text[g]]
               next == [run[r] EXCEPT !.text = left, !.pc = IF left = <<>> THEN "create" ELSE "put"]
    <3>2. f \in Files /\ t \in Targets /\ run[r].text[f] \in Pinned
      BY <2>0 DEF IsRun, Targets
    <3>3. left \in [DOMAIN left -> Pinned] /\ DOMAIN left \subseteq Files
      BY <2>0 DEF IsRun
    <3>4. IsRun(next)
      <4> HIDE DEF left
      <4> QED
        BY <2>0, <3>3 DEF IsRun, Steps
    <3>5. Running(run')
      <4>1. GoesPast(r, next, t) \/ Goes(r, Idle)
        BY <3>1
      <4> QED
        BY <4>1, <3>4, <2>0, IdleIsRun, StepTypes
    <3>6. branch' = branch \/ branch' = [branch EXCEPT ![t].files[f] = run[r].text[f], ![t].checks = "running"]
      BY <3>1
    <3>7. branch' \in [Targets -> Branches]
      <4>1. [branch EXCEPT ![t].files[f] = run[r].text[f], ![t].checks = "running"] \in [Targets -> Branches]
        BY <2>0, <3>2, BranchTypes
      <4> QED
        BY <2>0, <3>6, <4>1
    <3> QED
      BY <2>0, <2>8, <3>5, <3>7, TypeStep DEF PutFile
  <2>9. ASSUME NEW r \in Runs, CreatePull(r) PROVE TypeOK'
    <3>1. IsRun([run[r] EXCEPT !.pc = "older"])
      BY <2>0 DEF IsRun, Steps
    <3>2. Running(run')
      BY <2>0, <2>9, <3>1, IdleIsRun, StepTypes DEF CreatePull
    <3>3. pull' \in [Targets -> Pulls]
      <4>1. [NoPull EXCEPT !.state = "open"] \in Pulls
        BY DEF NoPull, Pulls
      <4> QED
        BY <2>0, <2>9, <4>1 DEF CreatePull
    <3> QED
      BY <2>0, <2>9, <3>2, <3>3, TypeStep DEF CreatePull
  <2>10. ASSUME NEW r \in Runs, ListOlder(r) PROVE TypeOK'
    <3>1. IsRun([run[r] EXCEPT !.pc = "close", !.todo = {t \in OpenPulls \ {run[r].target} : OnMain(t, run[r].target)}])
      BY <2>0 DEF IsRun, Steps, OpenPulls
    <3>2. Running(run')
      BY <2>0, <2>10, <3>1, StepTypes DEF ListOlder
    <3> QED
      BY <2>0, <2>10, <3>2, TypeStep DEF ListOlder
  <2>11. ASSUME NEW r \in Runs, CloseOlder(r) PROVE TypeOK'
    <3>1. CASE Goes(r, Idle) /\ UNCHANGED <<branch, pull>>
      BY <2>0, <2>11, <3>1, IdleIsRun, StepTypes, TypeStep DEF CloseOlder
    <3>2. ASSUME NEW t \in run[r].todo, Close(t), GoesPast(r, [run[r] EXCEPT !.todo = @ \ {t}], t) PROVE TypeOK'
      <4>1. IsRun([run[r] EXCEPT !.todo = @ \ {t}]) /\ t \in Targets
        BY <2>0 DEF IsRun
      <4>2. Running(run')
        BY <2>0, <3>2, <4>1, StepTypes
      <4>3. branch' \in [Targets -> Branches] /\ pull' \in [Targets -> Pulls]
        BY <2>0, <3>2, <4>1, NoBranchTyped DEF Close, Pulls
      <4> QED
        BY <2>0, <2>11, <4>2, <4>3, TypeStep DEF CloseOlder
    <3> QED
      BY <2>11, <3>1, <3>2 DEF CloseOlder
  <2>12. ASSUME NEW r \in Runs, Dies(r) PROVE TypeOK'
    <3>1. Running(run')
      BY <2>0, <2>12, IdleIsRun, StepTypes DEF Dies
    <3> QED
      BY <2>0, <2>12, <3>1, TypeStep DEF Dies, Fault
  <2>13. ASSUME NEW t \in Targets, ChecksEnd(t) PROVE TypeOK'
    <3>1. branch' \in [Targets -> Branches]
      <4>1. /\ [branch EXCEPT ![t].checks = "passed"] \in [Targets -> Branches]
            /\ [branch EXCEPT ![t].checks = "failed"] \in [Targets -> Branches]
        BY <2>0, BranchTypes
      <4> QED
        BY <2>13, <4>1 DEF ChecksEnd
    <3>2. faults' \in Nat
      BY <2>0, <2>13 DEF ChecksEnd, Fault
    <3> QED
      BY <2>0, <2>13, <3>1, <3>2, TypeStep DEF ChecksEnd
  <2>14. CASE CatalogMoves
    BY <2>0, <2>14, TypeStep DEF CatalogMoves
  <2>15. CASE BaseMoves
    <3>1. PICK f \in Files, pin \in Commits : BaseBecomes([base EXCEPT ![f] = [pin |-> pin, rest |-> @.rest + 1]], branch)
      BY <2>15 DEF BaseMoves
    <3>2. [base EXCEPT ![f] = [pin |-> pin, rest |-> @.rest + 1]] \in [Files -> Pinned]
      BY <2>0 DEF Pinned
    <3>3. base' \in [Files -> Pinned] /\ branch' \in [Targets -> Branches]
      BY <2>0, <3>1, <3>2, BaseBecomesTypes
    <3> QED
      BY <2>0, <2>15, <3>3, TypeStep DEF BaseMoves, Moved
  <2>16. ASSUME NEW t \in Targets, Meddle(t) PROVE TypeOK'
    <3>1. PICK f \in Files, new \in Pinned : branch' = [branch EXCEPT ![t].files[f] = new, ![t].checks = "running"]
      <4>1. \A f \in Files : branch[t].files[f] \in Pinned
        BY <2>0 DEF Branches
      <4>2. ASSUME NEW old \in Pinned
            PROVE  {[old EXCEPT !.pin = Off], [old EXCEPT !.pin = 0], [old EXCEPT !.rest = @ + 1]} \subseteq Pinned
        BY DEF Pinned
      <4>3. PICK f \in Files : Meddle(t)!3!(f)
        BY <2>16 DEF Meddle
      <4> QED
        <5>1. branch[t].files[f] \in Pinned
          BY <4>1
        <5>2. PICK new \in {[branch[t].files[f] EXCEPT !.pin = Off], [branch[t].files[f] EXCEPT !.pin = 0],
                            [branch[t].files[f] EXCEPT !.rest = @ + 1]} :
                branch' = [branch EXCEPT ![t].files[f] = new, ![t].checks = "running"]
          BY <4>3
        <5>3. new \in Pinned
          BY <4>2, <5>1, ZenonT(30)
        <5> QED
          BY <5>2, <5>3
    <3>2. branch' \in [Targets -> Branches]
      BY <2>0, <3>1, BranchTypes
    <3>3. Running(run') /\ moves' \in Nat
      BY <2>0, <2>16, AgedTypes DEF Meddle, Moved
    <3> QED
      BY <2>0, <2>16, <3>2, <3>3, TypeStep DEF Meddle
  <2>17. ASSUME NEW t \in Targets, Ask(t) \/ CloseByHand(t) PROVE TypeOK'
    <3>1. pull' \in [Targets -> Pulls]
      <4>1. \A u \in Targets : [pull[u] EXCEPT !.asks = TRUE] \in Pulls /\ [pull[u] EXCEPT !.state = "closed"] \in Pulls
        BY <2>0 DEF Pulls
      <4> QED
        BY <2>0, <2>17, <4>1 DEF Ask, CloseByHand
    <3>2. Running(run')
      BY <2>0, <2>17, AgedTypes DEF Ask, CloseByHand
    <3>3. moves' \in Nat
      BY <2>0, <2>17 DEF Ask, CloseByHand, Moved
    <3> QED
      BY <2>0, <2>17, <3>1, <3>2, <3>3, TypeStep DEF Ask, CloseByHand
  <2>18. CASE UNCHANGED vars
    BY <2>0, <2>18, TypeStep DEF vars
  <2> QED
    BY <2>1, <2>2, <2>3, <2>4, <2>5, <2>6, <2>7, <2>8, <2>9, <2>10, <2>11, <2>12, <2>13, <2>14, <2>15, <2>16, <2>17, <2>18
       DEF Next, RunStep, People
<1> QED
  BY <1>1, <1>2, PTL DEF Spec

\* What the invariant says of one run.
Judged(r) ==
  /\ run[r].target <= main
  /\ run[r].fresh => /\ branch[run[r].on].there
                     /\ OnlyPins(branch[run[r].on], run[r].on, run[r].target)
                     /\ At(r, "squash") => branch[run[r].on].checks = "passed"

\* A branch that is there keeps its head: at most it falls behind.
SameHead(t) ==
  branch[t].there =>
    /\ branch'[t].there /\ branch'[t].from = branch[t].from
    /\ branch'[t].files = branch[t].files /\ branch'[t].checks = branch[t].checks

\* A run goes on from the same judgement, or from none.
Carries(old, new) ==
  /\ new.target = old.target
  /\ new.fresh => old.fresh /\ new.on = old.on /\ new.pc # "squash"

LEMMA OnlyPinsSame ==
  ASSUME NEW b, NEW c, b.from = c.from, b.files = c.files, NEW named, NEW target
  PROVE  OnlyPins(b, named, target) = OnlyPins(c, named, target)
BY DEF OnlyPins, Changed

\* A run whose judgement is as it was, or is no longer trusted, still has what it judged.
LEMMA JudgedKept ==
  ASSUME TypeOK, NEW s \in Runs, Judged(s), run'[s].target <= main',
         run'[s].fresh => /\ run[s].fresh /\ run'[s].on = run[s].on /\ run'[s].target = run[s].target
                          /\ run'[s].pc = "squash" => run[s].pc = "squash"
                          /\ SameHead(run[s].on)
  PROVE  Judged(s)'
BY OnlyPinsSame DEF Judged, SameHead, At

\* The runs beside one that goes on: a branch that changes ages those that judged it.
LEMMA OthersKeep ==
  ASSUME TypeOK, JudgementHolds, NEW r \in Runs, NEW new, NEW t, UNCHANGED main,
         \/ Goes(r, new) /\ \A u \in Targets : SameHead(u)
         \/ GoesPast(r, new, t) /\ \A u \in Targets \ {t} : SameHead(u)
  PROVE  \A s \in Runs \ {r} : Judged(s)'
<1> SUFFICES ASSUME NEW s \in Runs \ {r} PROVE Judged(s)'
  OBVIOUS
<1>1. Judged(s) /\ run[s].target <= main /\ run[s].on \in Targets
  BY DEF JudgementHolds, Judged, TypeOK, Targets
<1>2. CASE Goes(r, new) /\ \A u \in Targets : SameHead(u)
  <2>1. run'[s] = run[s]
    BY <1>2 DEF Goes, TypeOK
  <2> QED
    BY <1>1, <1>2, <2>1, JudgedKept
<1>3. CASE GoesPast(r, new, t) /\ \A u \in Targets \ {t} : SameHead(u)
  <2>1. run'[s] = IF run[s].on = t THEN [run[s] EXCEPT !.fresh = FALSE] ELSE run[s]
    BY <1>3 DEF GoesPast, Aged, TypeOK
  <2>2. run'[s].target = run[s].target /\ run'[s].on = run[s].on /\ run'[s].pc = run[s].pc
        /\ (run'[s].fresh => run[s].fresh /\ run[s].on # t)
    BY <2>1 DEF TypeOK
  <2> QED
    BY <1>1, <1>3, <2>2, JudgedKept
<1> QED
  BY <1>2, <1>3

\* A step of a run that makes no new judgement.
LEMMA RunKeeps ==
  ASSUME TypeOK, JudgementHolds, NEW r \in Runs, NEW new, IsRun(new), NEW t, UNCHANGED main,
         \/ Goes(r, new) /\ \A u \in Targets : SameHead(u)
         \/ GoesPast(r, new, t) /\ \A u \in Targets \ {t} : SameHead(u),
         new.target <= main, new.fresh => Carries(run[r], new)
  PROVE  \A s \in Runs : Judged(s)'
<1>1. \A s \in Runs \ {r} : Judged(s)'
  BY OthersKeep
<1>2. Judged(r) /\ run[r].on \in Targets
  BY DEF JudgementHolds, Judged, TypeOK, Targets
<1>3. CASE Goes(r, new) /\ \A u \in Targets : SameHead(u)
  <2>1. run'[r] = new
    BY <1>3 DEF Goes, TypeOK
  <2> QED
    BY <1>1, <1>2, <1>3, <2>1, JudgedKept DEF Carries
<1>4. CASE GoesPast(r, new, t) /\ \A u \in Targets \ {t} : SameHead(u)
  <2>1. run'[r] = IF new.on = t THEN [new EXCEPT !.fresh = FALSE] ELSE new
    BY <1>4 DEF GoesPast, Aged, TypeOK
  <2>2. run'[r].target = new.target /\ run'[r].on = new.on /\ run'[r].pc = new.pc
        /\ (run'[r].fresh => new.fresh /\ new.on # t)
    BY <2>1 DEF IsRun
  <2> QED
    BY <1>1, <1>2, <1>4, <2>2, JudgedKept DEF Carries
<1> QED
  BY <1>3, <1>4

\* Every branch keeps its head when none changes, or the default branch moves on.
LEMMA HeadsKept ==
  ASSUME TypeOK
  PROVE  /\ UNCHANGED branch => \A u \in Targets : SameHead(u)
         /\ \A files : BaseBecomes(files, branch) => \A u \in Targets : SameHead(u)
         /\ \A files, t : BaseBecomes(files, [branch EXCEPT ![t] = NoBranch]) => \A u \in Targets \ {t} : SameHead(u)
<1>1. UNCHANGED branch => \A u \in Targets : SameHead(u)
  BY DEF SameHead
<1>2. ASSUME NEW kept, NEW files, BaseBecomes(files, kept), NEW u \in Targets, kept[u] = branch[u] PROVE SameHead(u)
  <2>1. branch[u].there => branch'[u] = [branch[u] EXCEPT !.behind = TRUE]
    BY <1>2 DEF BaseBecomes
  <2>2. branch[u] \in Branches
    BY DEF TypeOK, Branches
  <2>3. branch[u].there => /\ branch'[u].there /\ branch'[u].from = branch[u].from /\ branch'[u].files = branch[u].files
                           /\ branch'[u].checks = branch[u].checks
    BY <2>1, <2>2 DEF Branches
  <2> QED
    BY <2>3 DEF SameHead
<1>3. ASSUME NEW files, NEW t, BaseBecomes(files, [branch EXCEPT ![t] = NoBranch]), NEW u \in Targets \ {t}
      PROVE  SameHead(u)
  <2>1. [branch EXCEPT ![t] = NoBranch][u] = branch[u]
    BY DEF TypeOK
  <2> QED
    BY <1>2, <1>3, <2>1
<1> QED
  BY <1>1, <1>2, <1>3

\* A run that only goes on to another step carries its judgement.
LEMMA PcCarries ==
  ASSUME NEW v, IsRun(v), NEW at \in Steps \ {"squash"}
  PROVE  IsRun([v EXCEPT !.pc = at]) /\ Carries(v, [v EXCEPT !.pc = at])
BY DEF IsRun, Carries

LEMMA JudgementStep == TypeOK /\ TypeOK' /\ JudgementHolds /\ [Next]_vars => JudgementHolds'
<1> SUFFICES ASSUME TypeOK, TypeOK', JudgementHolds, [Next]_vars PROVE JudgementHolds'
  OBVIOUS
<1> USE PinsAssumption
<1> DEFINE Heads == \A t \in Targets : pull[t].state = "open" => branch[t].there
<1>0. /\ Heads /\ \A r \in Runs : Judged(r) /\ IsRun(run[r]) /\ run[r].target <= main
      /\ run = [r \in Runs |-> run[r]] /\ main \in Nat
  BY RunTypes DEF JudgementHolds, Judged, Running, TypeOK
<1>1. SUFFICES Heads' /\ \A s \in Runs : Judged(s)'
  BY DEF JudgementHolds, Judged
<1>2. ASSUME NEW r \in Runs, Start(r) PROVE Heads' /\ \A s \in Runs : Judged(s)'
  <2> DEFINE new == [Idle EXCEPT !.pc = "merge", !.target = main, !.todo = OpenPulls]
  <2>1. IsRun(new)
    BY <1>0, IdleIsRun DEF IsRun, Idle, OpenPulls, Steps, TypeOK
  <2>2. new.target = main /\ new.fresh = FALSE
    BY DEF Idle
  <2>3. Goes(r, new) /\ UNCHANGED <<main, branch, pull>>
    BY <1>2 DEF Start
  <2> HIDE DEF new
  <2>4. main <= main
    BY <1>0
  <2> QED
    BY <1>0, <2>1, <2>2, <2>3, <2>4, HeadsKept, RunKeeps
<1>3. ASSUME NEW r \in Runs, Judge(r) PROVE Heads' /\ \A s \in Runs : Judged(s)'
  <2>1. PICK t \in run[r].todo : Judge(r)!2!(t)
    BY <1>3 DEF Judge
  <2> DEFINE next == [run[r] EXCEPT !.todo = @ \ {t}]
             judged == [next EXCEPT !.pc = "checks", !.on = t, !.fresh = TRUE]
  <2>2. t \in Targets /\ main' = main
    BY <1>0, <1>3 DEF IsRun, Judge
  <2>3. IsRun(next) /\ next.target <= main /\ (next.fresh => Carries(run[r], next))
    BY <1>0, <1>3 DEF IsRun, Carries, Judge, At
  <2>4. CASE Goes(r, next) /\ UNCHANGED <<branch, pull>>
    <3> HIDE DEF next
    <3> QED
      BY <1>0, <2>2, <2>3, <2>4, HeadsKept, RunKeeps
  <2>5. CASE Close(t) /\ GoesPast(r, next, t)
    <3>1. \A u \in Targets \ {t} : SameHead(u)
      BY <2>5 DEF Close, SameHead
    <3>2. Heads'
      BY <1>0, <2>2, <2>5 DEF Close, TypeOK
    <3> HIDE DEF next
    <3> QED
      BY <2>2, <2>3, <2>5, <3>1, <3>2, RunKeeps
  <2>6. CASE /\ branch' = [branch EXCEPT ![t] = [branch[t] EXCEPT !.from = base, !.behind = FALSE,
                                                                 !.files = Joined(branch[t]), !.checks = "running"]]
             /\ GoesPast(r, next, t) /\ UNCHANGED pull
    <3>1. \A u \in Targets \ {t} : SameHead(u)
      BY <2>6 DEF SameHead
    <3>2. Heads'
      <4>1. \A u \in Targets : branch'[u].there = branch[u].there
        <5>1. branch \in [Targets -> Branches]
          BY DEF TypeOK, Branches
        <5>2. branch'[t] = [branch[t] EXCEPT !.from = base, !.behind = FALSE, !.files = Joined(branch[t]),
                                             !.checks = "running"]
          BY <2>2, <2>6, <5>1
        <5>3. branch'[t].there = branch[t].there
          BY <2>2, <5>1, <5>2 DEF Branches
        <5> QED
          BY <2>6, <5>1, <5>3
      <4>2. pull' = pull
        BY <2>6
      <4> QED
        BY <1>0, <4>1, <4>2
    <3> HIDE DEF next
    <3> QED
      BY <2>2, <2>3, <2>6, <3>1, <3>2, RunKeeps
  <2>7. CASE /\ Goes(r, judged) /\ UNCHANGED <<branch, pull>>
             /\ pull[t].state = "open" /\ OnlyPins(branch[t], t, run[r].target)
    <3>1. run'[r] = judged
      BY <1>0, <2>7 DEF Goes
    <3>2. /\ run'[r].target = run[r].target /\ run'[r].on = t /\ run'[r].pc = "checks"
      BY <1>0, <3>1 DEF IsRun
    <3>3. Judged(r)'
      BY <1>0, <2>2, <2>7, <3>2 DEF Judged, At
    <3>4. \A s \in Runs \ {r} : Judged(s)'
      <4> HIDE DEF judged
      <4> QED
        BY <2>2, <2>7, HeadsKept, OthersKeep
    <3> QED
      BY <1>0, <2>7, <3>3, <3>4
  <2> QED
    BY <2>1, <2>4, <2>5, <2>6, <2>7
<1>4. ASSUME NEW r \in Runs, ReadChecks(r) PROVE Heads' /\ \A s \in Runs : Judged(s)'
  <2> DEFINE t == run[r].on
             back == [run[r] EXCEPT !.pc = "merge", !.on = 0, !.fresh = FALSE]
             on == [run[r] EXCEPT !.pc = "squash"]
  <2>1. UNCHANGED <<main, branch, pull>>
    BY <1>4 DEF ReadChecks
  <2>2. CASE Goes(r, back)
    <3>1. IsRun(back) /\ back.target <= main /\ back.fresh = FALSE
      BY <1>0 DEF IsRun, Steps
    <3> HIDE DEF back
    <3> QED
      BY <1>0, <2>1, <2>2, <3>1, HeadsKept, RunKeeps
  <2>3. CASE Goes(r, on) /\ (run[r].fresh => branch[t].checks = "passed")
    <3>1. run'[r] = on
      BY <1>0, <2>3 DEF Goes
    <3>2. /\ run'[r].target = run[r].target /\ run'[r].on = t /\ run'[r].fresh = run[r].fresh
      BY <1>0, <3>1 DEF IsRun
    <3>3. Judged(r)'
      BY <1>0, <2>1, <2>3, <3>2 DEF Judged
    <3>4. \A s \in Runs \ {r} : Judged(s)'
      <4> HIDE DEF on
      <4> QED
        BY <2>1, <2>3, HeadsKept, OthersKeep
    <3> QED
      BY <1>0, <2>1, <3>3, <3>4
  <2> QED
    BY <1>4, <2>2, <2>3 DEF ReadChecks
<1>5. ASSUME NEW r \in Runs, Squash(r) PROVE Heads' /\ \A s \in Runs : Judged(s)'
  <2> DEFINE t == run[r].on
             next == [run[r] EXCEPT !.pc = "merge", !.on = 0, !.fresh = FALSE]
  <2>1. t \in Targets /\ IsRun(next) /\ next.target <= main /\ next.fresh = FALSE /\ main' = main
    BY <1>0, <1>5 DEF IsRun, Steps, Targets, Squash
  <2>2. CASE Goes(r, next) /\ UNCHANGED <<branch, pull>>
    <3> HIDE DEF next
    <3> QED
      BY <1>0, <2>1, <2>2, HeadsKept, RunKeeps
  <2>3. CASE /\ pull' = [pull EXCEPT ![t].state = "merged"]
             /\ \/ BaseBecomes(Joined(branch[t]), [branch EXCEPT ![t] = NoBranch])
                \/ BaseBecomes(Joined(branch[t]), branch)
             /\ GoesPast(r, next, t)
    <3>1. \A u \in Targets \ {t} : SameHead(u)
      BY <2>3, HeadsKept
    <3>2. Heads'
      BY <1>0, <2>1, <2>3, <3>1 DEF SameHead, TypeOK
    <3> HIDE DEF next
    <3> QED
      BY <2>1, <2>3, <3>1, <3>2, RunKeeps
  <2> QED
    BY <1>5, <2>2, <2>3 DEF Squash
<1>6. Idle.target <= main /\ Idle.fresh = FALSE
  BY <1>0 DEF Idle
<1>7. ASSUME NEW r \in Runs, Plan(r) PROVE Heads' /\ \A s \in Runs : Judged(s)'
  <2> DEFINE text == [f \in Moving(base, run[r].target) |-> [base[f] EXCEPT !.pin = run[r].target]]
             new == [run[r] EXCEPT !.pc = "open", !.text = text]
  <2>1. UNCHANGED <<main, branch, pull>> /\ (Goes(r, Idle) \/ Goes(r, new))
    BY <1>7 DEF Plan
  <2>2. text \in [DOMAIN text -> Pinned] /\ DOMAIN text \subseteq Files
    <3>1. Moving(base, run[r].target) \subseteq Files
      BY DEF Moving
    <3>2. base \in [Files -> Pinned] /\ run[r].target \in Commits
      BY <1>0 DEF IsRun, TypeOK
    <3>3. text \in [Moving(base, run[r].target) -> Pinned]
      BY <3>1, <3>2 DEF Pinned
    <3> QED
      BY <3>1, <3>3
  <2> HIDE DEF text
  <2>3. IsRun(new)
    BY <1>0, <2>2, TextTypes DEF Steps
  <2>4. new.target = run[r].target /\ Carries(run[r], new)
    BY <1>0 DEF IsRun, Carries
  <2> HIDE DEF new
  <2> QED
    BY <1>0, <1>6, <2>1, <2>3, <2>4, IdleIsRun, HeadsKept, RunKeeps
<1>8. ASSUME NEW r \in Runs, FindBump(r) \/ Waits(r) \/ Dies(r) PROVE Heads' /\ \A s \in Runs : Judged(s)'
  <2>1. /\ UNCHANGED <<main, branch, pull>>
        /\ \/ Goes(r, Idle) \/ Goes(r, [run[r] EXCEPT !.pc = "older"]) \/ Goes(r, [run[r] EXCEPT !.pc = "branch"])
    BY <1>8 DEF FindBump, Waits, Dies
  <2>2. ASSUME NEW new, Goes(r, new), IsRun(new), new.target <= main, new.fresh => Carries(run[r], new)
        PROVE  Heads' /\ \A s \in Runs : Judged(s)'
    BY <1>0, <2>1, <2>2, HeadsKept, RunKeeps
  <2>3. \A at \in {"older", "branch"} : /\ IsRun([run[r] EXCEPT !.pc = at]) /\ Carries(run[r], [run[r] EXCEPT !.pc = at])
                                        /\ [run[r] EXCEPT !.pc = at].target <= main
    BY <1>0, PcCarries DEF Steps, Carries
  <2> QED
    BY <1>6, <2>1, <2>2, <2>3, IdleIsRun
<1>9. ASSUME NEW r \in Runs, MakeBranch(r) PROVE Heads' /\ \A s \in Runs : Judged(s)'
  <2> DEFINE t == run[r].target
             new == [run[r] EXCEPT !.pc = "put"]
  <2>1. IsRun(new) /\ Carries(run[r], new) /\ new.target <= main
    BY <1>0, PcCarries DEF Steps, Carries
  <2>2. t \in Targets /\ main' = main /\ pull' = pull /\ GoesPast(r, new, t)
    BY <1>0, <1>9 DEF MakeBranch, IsRun, Targets
  <2>3. \A u \in Targets \ {t} : SameHead(u)
    BY <1>9, <2>2 DEF MakeBranch, SameHead
  <2>4. branch'[t].there
    BY <1>9, <2>2 DEF MakeBranch, NoBranch, TypeOK
  <2>5. Heads'
    BY <1>0, <2>2, <2>3, <2>4 DEF SameHead
  <2> HIDE DEF new
  <2> QED
    BY <2>1, <2>2, <2>3, <2>5, RunKeeps
<1>10. ASSUME NEW r \in Runs, PutFile(r) PROVE Heads' /\ \A s \in Runs : Judged(s)'
  <2>1. PICK f \in DOMAIN run[r].text : PutFile(r)!2!(f)
    BY <1>10 DEF PutFile
  <2> DEFINE t == run[r].target
             left == [g \in DOMAIN run[r].text \ {f} |-> run[r].text[g]]
             new == [run[r] EXCEPT !.text = left, !.pc = IF left = <<>> THEN "create" ELSE "put"]
  <2>2. t \in Targets /\ main' = main /\ pull' = pull
    BY <1>0, <1>10 DEF PutFile, IsRun, Targets
  <2>3. CASE Goes(r, Idle) /\ UNCHANGED branch
    BY <1>0, <1>6, <2>2, <2>3, IdleIsRun, HeadsKept, RunKeeps
  <2>4. CASE /\ branch' = [branch EXCEPT ![t].files[f] = run[r].text[f], ![t].checks = "running"]
             /\ GoesPast(r, new, t)
    <3>1. left \in [DOMAIN left -> Pinned] /\ DOMAIN left \subseteq Files
      BY <1>0 DEF IsRun
    <3>2. IsRun(new) /\ new.target = run[r].target /\ Carries(run[r], new)
      <4> HIDE DEF left
      <4> QED
        BY <1>0, <3>1, ZenonT(30) DEF IsRun, Steps, Carries
    <3>3. \A u \in Targets \ {t} : SameHead(u)
      <4>1. \A u \in Targets \ {t} : branch'[u] = branch[u]
        BY <2>4, SMTT(30) DEF TypeOK
      <4> QED
        BY <4>1 DEF SameHead
    <3>4. branch'[t] = [branch[t] EXCEPT !.files[f] = run[r].text[f], !.checks = "running"]
      BY <2>2, <2>4 DEF TypeOK
    <3>5. branch'[t].there = branch[t].there
      BY <2>2, <3>4 DEF TypeOK
    <3>6. Heads'
      BY <1>0, <2>2, <3>3, <3>5 DEF SameHead
    <3>7. GoesPast(r, new, t)
      BY <2>4
    <3>8. new.target <= main
      BY <1>0, <3>2
    <3>9. main' = main
      BY <2>2
    <3> HIDE DEF new, t
    <3>10. \A s \in Runs : Judged(s)'
      BY <3>2, <3>3, <3>7, <3>8, <3>9, RunKeeps
    <3> QED
      BY <3>6, <3>10
  <2> QED
    BY <2>1, <2>3, <2>4
<1>11. ASSUME NEW r \in Runs, CreatePull(r) PROVE Heads' /\ \A s \in Runs : Judged(s)'
  <2>1. UNCHANGED <<main, branch>> /\ (Goes(r, Idle) \/ Goes(r, [run[r] EXCEPT !.pc = "older"]))
    BY <1>11 DEF CreatePull
  <2>2. Heads'
    BY <1>0, <1>11, <2>1 DEF CreatePull, NoPull, TypeOK
  <2>3. ASSUME NEW new, Goes(r, new), IsRun(new), new.target <= main, new.fresh => Carries(run[r], new)
        PROVE  \A s \in Runs : Judged(s)'
    BY <1>0, <2>1, <2>3, HeadsKept, RunKeeps
  <2>4. /\ IsRun([run[r] EXCEPT !.pc = "older"]) /\ Carries(run[r], [run[r] EXCEPT !.pc = "older"])
        /\ [run[r] EXCEPT !.pc = "older"].target <= main
    BY <1>0, PcCarries DEF Steps, Carries
  <2> QED
    BY <1>6, <2>1, <2>2, <2>3, <2>4, IdleIsRun
<1>12. ASSUME NEW r \in Runs, ListOlder(r) PROVE Heads' /\ \A s \in Runs : Judged(s)'
  <2> DEFINE older == {t \in OpenPulls \ {run[r].target} : OnMain(t, run[r].target)}
             new == [run[r] EXCEPT !.pc = "close", !.todo = older]
  <2>1. UNCHANGED <<main, branch, pull>> /\ Goes(r, new)
    BY <1>12 DEF ListOlder
  <2>2. older \subseteq Targets
    BY DEF OpenPulls
  <2> HIDE DEF older
  <2>3. IsRun(new) /\ new.target = run[r].target /\ Carries(run[r], new)
    BY <1>0, <2>2 DEF IsRun, Steps, Carries
  <2> HIDE DEF new
  <2> QED
    BY <1>0, <2>1, <2>3, HeadsKept, RunKeeps
<1>13. ASSUME NEW r \in Runs, CloseOlder(r) PROVE Heads' /\ \A s \in Runs : Judged(s)'
  <2>1. CASE Goes(r, Idle) /\ UNCHANGED <<branch, pull>>
    BY <1>0, <1>6, <1>13, <2>1, IdleIsRun, HeadsKept, RunKeeps DEF CloseOlder
  <2>2. ASSUME NEW t \in run[r].todo, Close(t), GoesPast(r, [run[r] EXCEPT !.todo = @ \ {t}], t), At(r, "close")
        PROVE  Heads' /\ \A s \in Runs : Judged(s)'
    <3> DEFINE new == [run[r] EXCEPT !.todo = @ \ {t}]
    <3>1. IsRun(new) /\ new.target = run[r].target /\ Carries(run[r], new)
      BY <1>0, <2>2 DEF IsRun, Carries, At
    <3>2. t \in Targets /\ main' = main
      BY <1>0, <1>13 DEF IsRun, CloseOlder
    <3>3. \A u \in Targets \ {t} : SameHead(u)
      BY <2>2 DEF Close, SameHead
    <3>4. Heads'
      BY <1>0, <2>2, <3>2 DEF Close, TypeOK
    <3>5. GoesPast(r, new, t)
      BY <2>2
    <3> HIDE DEF new
    <3> QED
      BY <1>0, <3>1, <3>2, <3>3, <3>4, <3>5, RunKeeps
  <2> QED
    BY <1>13, <2>1, <2>2 DEF CloseOlder
<1>14. ASSUME NEW t \in Targets, ChecksEnd(t) PROVE Heads' /\ \A s \in Runs : Judged(s)'
  <2>1. PICK result : branch' = [branch EXCEPT ![t].checks = result]
    BY <1>14 DEF ChecksEnd
  <2>2. \A u \in Targets \ {t} : SameHead(u)
    <3>1. \A u \in Targets \ {t} : branch'[u] = branch[u]
      BY <2>1 DEF TypeOK
    <3> QED
      BY <3>1 DEF SameHead
  <2>3. branch'[t].there = branch[t].there /\ branch'[t].from = branch[t].from /\ branch'[t].files = branch[t].files
    BY <2>1 DEF TypeOK
  <2>4. Heads'
    BY <1>0, <1>14, <2>2, <2>3 DEF ChecksEnd, SameHead
  <2>5. UNCHANGED <<main, run>> /\ branch[t].checks = "running"
    BY <1>14 DEF ChecksEnd
  <2>6. ASSUME NEW s \in Runs PROVE Judged(s)'
    <3>1. CASE run[s].on # t
      BY <1>0, <2>2, <2>5, <3>1, JudgedKept DEF TypeOK, Targets
    <3>2. CASE run[s].on = t
      BY <1>0, <2>3, <2>5, <3>2, OnlyPinsSame DEF Judged, At
    <3> QED
      BY <3>1, <3>2
  <2> QED
    BY <2>4, <2>6
<1>15. ASSUME CatalogMoves \/ BaseMoves \/ UNCHANGED vars \/ \E t \in Targets : Ask(t) PROVE Heads' /\ \A s \in Runs : Judged(s)'
  <2>1. run' = run /\ \A u \in Targets : SameHead(u)
    <3>1. \/ UNCHANGED branch \/ \E files : BaseBecomes(files, branch)
      BY <1>15 DEF CatalogMoves, BaseMoves, vars, Ask
    <3>2. run' = run
      BY <1>15 DEF CatalogMoves, BaseMoves, vars, Ask
    <3> QED
      BY <3>1, <3>2, HeadsKept
  <2>2. main <= main'
    BY <1>0, <1>15 DEF CatalogMoves, BaseMoves, vars, Ask
  <2>3. \A u \in Targets : pull'[u].state = pull[u].state
    <3>1. UNCHANGED pull \/ \E t \in Targets : pull' = [pull EXCEPT ![t].asks = TRUE]
      BY <1>15 DEF CatalogMoves, BaseMoves, vars, Ask
    <3>2. ASSUME NEW t \in Targets, pull' = [pull EXCEPT ![t].asks = TRUE], NEW u \in Targets
          PROVE  pull'[u].state = pull[u].state
      <4>1. pull'[u] = pull[u] \/ pull'[u] = [pull[u] EXCEPT !.asks = TRUE]
        BY <3>2 DEF TypeOK
      <4> QED
        BY <4>1 DEF TypeOK
    <3> QED
      BY <3>1, <3>2
  <2>4. Heads'
    BY <1>0, <2>1, <2>3 DEF SameHead
  <2>5. ASSUME NEW s \in Runs PROVE Judged(s)'
    <3>1. run[s].target \in Nat /\ main' \in Nat /\ run[s].target <= main /\ run[s].on \in Targets
      BY <1>0 DEF TypeOK, IsRun, Targets
    <3> QED
      BY <1>0, <2>1, <2>2, <3>1, JudgedKept
  <2> QED
    BY <2>4, <2>5
<1>16. ASSUME NEW t \in Targets, Meddle(t) \/ CloseByHand(t) PROVE Heads' /\ \A s \in Runs : Judged(s)'
  <2>1. /\ run' = Aged(run, t) /\ main' = main
        /\ UNCHANGED pull \/ pull' = [pull EXCEPT ![t].state = "closed"]
    BY <1>16 DEF Meddle, CloseByHand
  <2>2. \A u \in Targets \ {t} : branch'[u] = branch[u]
    BY <1>16 DEF Meddle, CloseByHand, TypeOK
  <2>3. branch'[t].there = branch[t].there
    <3>1. CASE CloseByHand(t)
      BY <3>1 DEF CloseByHand
    <3>2. CASE Meddle(t)
      <4>1. PICK f, new : branch' = [branch EXCEPT ![t].files[f] = new, ![t].checks = "running"]
        BY <3>2 DEF Meddle
      <4>2. branch'[t] = [branch[t] EXCEPT !.files[f] = new, !.checks = "running"]
        BY <4>1 DEF TypeOK
      <4> QED
        BY <4>2 DEF TypeOK
    <3> QED
      BY <1>16, <3>1, <3>2
  <2>4. Heads'
    <3>1. \A u \in Targets : branch'[u].there = branch[u].there
      BY <2>2, <2>3
    <3>2. \A u \in Targets : pull'[u].state = "open" => pull[u].state = "open"
      BY <2>1 DEF TypeOK
    <3> QED
      BY <1>0, <3>1, <3>2
  <2>5. ASSUME NEW s \in Runs PROVE Judged(s)'
    <3>1. run'[s] = IF run[s].on = t THEN [run[s] EXCEPT !.fresh = FALSE] ELSE run[s]
      BY <2>1 DEF Aged
    <3>2. run'[s].target = run[s].target /\ run'[s].on = run[s].on /\ run'[s].pc = run[s].pc
          /\ (run'[s].fresh => run[s].fresh /\ run[s].on # t)
      BY <1>0, <3>1 DEF IsRun
    <3>3. run[s].on # t => SameHead(run[s].on)
      BY <2>2 DEF SameHead, TypeOK, Targets
    <3> QED
      BY <1>0, <2>1, <3>2, <3>3, JudgedKept
  <2> QED
    BY <2>4, <2>5
<1> HIDE DEF Heads
<1> QED
  BY <1>2, <1>3, <1>4, <1>5, <1>7, <1>8, <1>9, <1>10, <1>11, <1>12, <1>13, <1>14, <1>15, <1>16 DEF Next, RunStep, People

\* What a run judged still holds when it merges: its branch, if it trusts it, has the judged head,
\* and the commit it pins to is on main.
THEOREM JudgementStands == Spec => []JudgementHolds
<1>1. Init => JudgementHolds
  BY PinsAssumption DEF Init, JudgementHolds, Idle, NoPull, NoBranch, Targets
<1>2. TypeOK /\ TypeOK' /\ JudgementHolds /\ [Next]_vars => JudgementHolds'
  BY JudgementStep
<1> QED
  BY <1>1, <1>2, TypeCorrect, PTL DEF Spec

\* A merge of a branch that changes nothing but pins changes nothing but pins.
LEMMA JoinedOnlyPins ==
  ASSUME NEW b, NEW t, NEW target, OnlyPins(b, t, target), NEW f \in Files
  PROVE  Joined(b)[f].rest = base[f].rest /\ Joined(b)[f].pin \in {base[f].pin, t}
BY DEF OnlyPins, Changed, Joined, Line

\* The runs whose record a squash changes are the one that merges and those that judged its bump.
LEMMA SquashRuns ==
  ASSUME TypeOK, NEW s \in Runs, Squash(s), base' # base, NEW r \in Runs, run'[r] # run[r]
  PROVE  run[r].on = run[s].on
<1>1. \E new : GoesPast(s, new, run[s].on)
  BY DEF Squash
<1> QED
  BY <1>1 DEF GoesPast, Aged, TypeOK

\* A bump is merged at the head it was judged at: its checks passed there and its merge changes
\* nothing but pins, each to a commit of main, whatever ran or was pushed in between.
THEOREM MergesArePins == Spec => MergesOnlyPins
<1> DEFINE Merged(r) ==
             LET t == run[r].on IN
             /\ branch[t].checks = "passed" /\ OnMain(t, main)
             /\ \A f \in Files : /\ base'[f].rest = base[f].rest
                                 /\ base'[f].pin \in {base[f].pin, t}
           Kept == \A r \in Runs : At(r, "squash") /\ run'[r] # run[r] /\ base' # base => Merged(r)
<1>1. TypeOK /\ JudgementHolds /\ [Next]_vars => Kept
  <2> SUFFICES ASSUME TypeOK, JudgementHolds, [Next]_vars, NEW r \in Runs, run'[r] # run[r], base' # base
               PROVE  Merged(r)
    OBVIOUS
  <2>1. ~BaseMoves
    BY DEF BaseMoves
  <2>2. PICK s \in Runs : Squash(s)
    BY <2>1 DEF Next, RunStep, People, vars, Start, Judge, ReadChecks, Plan, FindBump, MakeBranch, PutFile, CreatePull,
                ListOlder, CloseOlder, Waits, Dies, CatalogMoves, Meddle, Ask, CloseByHand, ChecksEnd
  <2> DEFINE t == run[s].on
  <2>3. run[s].fresh /\ base' = Joined(branch[t]) /\ At(s, "squash")
    BY <2>2 DEF Squash, BaseBecomes
  <2>4. /\ branch[t].checks = "passed" /\ OnlyPins(branch[t], t, run[s].target)
        /\ run[s].target <= main
    BY <2>3 DEF JudgementHolds
  <2>5. OnMain(t, main)
    <3>1. t \in 0..run[s].target /\ main \in Nat /\ run[s].target \in Nat
      BY <2>4, PinsAssumption DEF OnlyPins, OnMain, TypeOK
    <3> QED
      BY <2>4, <3>1 DEF OnMain
  <2>6. \A f \in Files : base'[f].rest = base[f].rest /\ base'[f].pin \in {base[f].pin, t}
    BY <2>3, <2>4, JoinedOnlyPins
  <2>7. run[r].on = t
    BY <2>2, SquashRuns
  <2> QED
    BY <2>4, <2>5, <2>6, <2>7
<1>2. TypeOK /\ JudgementHolds /\ [Next]_vars =>
        (\A r \in Runs : At(r, "squash") /\ run'[r] # run[r] /\ base' # base =>
           LET t == run[r].on IN
           /\ branch[t].checks = "passed" /\ OnMain(t, main)
           /\ \A f \in Files : /\ base'[f].rest = base[f].rest
                               /\ base'[f].pin \in {base[f].pin, t})
  BY <1>1
<1> QED
  BY <1>2, TypeCorrect, JudgementStands, PTL DEF Spec, MergesOnlyPins

------------------------------------------------------------------------------
(* The dashboard's collector, on a GitHub of its own *)

\* A row of checks, whatever the rollup is; one never read is not green.
IsRow(row) ==
  /\ row = [green |-> row.green, sha |-> row.sha, rollup |-> row.rollup, known |-> row.known,
            age |-> row.age, blank |-> row.blank, stale |-> row.stale]
  /\ row.green \in BOOLEAN /\ row.age \in Nat /\ (row.blank => ~row.green)

\* A green row is of a head whose checks were all green no longer ago than the row was read.
GreenSince(since, p, row) ==
  /\ IsRow(row)
  /\ row.green => row.sha \in Collect!Shas /\ since[p][row.sha] <= row.age

GithubTyped ==
  /\ moves \in 0 .. MaxMoves
  /\ gh \in [Collect!Pulls -> [sha : 0 .. moves, state : Collect!States, open : BOOLEAN]]
  /\ successAge \in [Collect!Pulls -> [Collect!Shas -> Nat]]

\* Checks green now were green at no time before now.
SuccessNow == \A p \in Collect!Pulls : gh[p].state = "SUCCESS" => successAge[p][gh[p].sha] = 0

\* Between the two requests for a pull request no beat passes: what the first
\* found green is still of now, whatever moved.
CheckedNow ==
  pc = "current" /\ queue[1] \in Collect!Pulls /\ checks = "SUCCESS" =>
    listed[queue[1]] \in Collect!Shas /\ successAge[queue[1]][listed[queue[1]]] = 0

RowsSince ==
  /\ detail = [p \in Collect!Pulls |-> detail[p]]
  /\ \A p \in Collect!Pulls : GreenSince(successAge, p, detail[p])
  /\ built = [p \in DOMAIN built |-> built[p]]
  /\ \A p \in Collect!Pulls \cap DOMAIN built : GreenSince(successAge, p, built[p])
  /\ shown = [p \in DOMAIN shown |-> shown[p]]
  /\ \A p \in Collect!Pulls \cap DOMAIN shown : GreenSince(successAge, p, shown[p])

CollectInv == GithubTyped /\ SuccessNow /\ CheckedNow /\ RowsSince

LEMMA CollectInit ==
  ASSUME MaxAge \in Nat, MaxMoves \in Nat, Collect!Init
  PROVE  CollectInv
<1>1. GithubTyped
  <2>1. 0 \in 0 .. moves /\ moves \in 0 .. MaxMoves /\ MaxAge + 1 \in Nat /\ 0 \in Nat
    BY DEF Collect!Init
  <2>2. gh \in [Collect!Pulls -> [sha : 0 .. moves, state : Collect!States, open : BOOLEAN]]
    <3>1. gh \in [Collect!Pulls -> {[sha |-> 0, state |-> "SUCCESS", open |-> TRUE]}]
      BY DEF Collect!Init
    <3>2. [sha |-> 0, state |-> "SUCCESS", open |-> TRUE] \in [sha : 0 .. moves, state : Collect!States, open : BOOLEAN]
      BY <2>1 DEF Collect!States
    <3> QED
      BY <3>1, <3>2
  <2>3. successAge \in [Collect!Pulls -> [Collect!Shas -> Nat]]
    BY <2>1 DEF Collect!Init, Collect!Never
  <2> QED
    BY <2>1, <2>2, <2>3 DEF GithubTyped
<1>2. SuccessNow
  <2>1. 0 \in Collect!Shas
    BY DEF Collect!Shas
  <2>2. \A p \in Collect!Pulls : gh[p].sha = 0 /\ successAge[p][0] = 0
    BY <2>1 DEF Collect!Init
  <2> QED
    BY <2>2 DEF SuccessNow
<1>3. CheckedNow
  BY DEF Collect!Init, CheckedNow
<1>4. RowsSince
  <2>1. IsRow(Collect!Unloaded) /\ ~Collect!Unloaded.green
    BY DEF IsRow, Collect!Unloaded, Collect!Never
  <2>2. \A p \in Collect!Pulls : detail[p] = Collect!Unloaded
    BY DEF Collect!Init
  <2>3. detail = [p \in Collect!Pulls |-> detail[p]] /\ built = <<>> /\ shown = <<>>
    BY DEF Collect!Init
  <2> QED
    BY <2>1, <2>2, <2>3 DEF RowsSince, GreenSince
<1> QED
  BY <1>1, <1>2, <1>3, <1>4 DEF CollectInv

\* A row withheld, or aged, is a row.
LEMMA RowEdits ==
  ASSUME MaxAge \in Nat
  PROVE  /\ IsRow(Collect!Unloaded) /\ ~Collect!Unloaded.green
         /\ \A row : IsRow(row) => IsRow(Collect!Withheld(row)) /\ ~Collect!Withheld(row).green
         /\ \A row : IsRow(row) =>
              LET old == [row EXCEPT !.age = Collect!Aged(@)] IN
              IsRow(old) /\ old.green = row.green /\ old.sha = row.sha /\ old.age = Collect!Aged(row.age)
         /\ \A row : IsRow(row) =>
              LET old == [row EXCEPT !.stale = TRUE] IN
              IsRow(old) /\ old.green = row.green /\ old.sha = row.sha /\ old.age = row.age
<1>1. IsRow(Collect!Unloaded) /\ ~Collect!Unloaded.green
  BY DEF IsRow, Collect!Unloaded, Collect!Never
<1>2. ASSUME NEW row, IsRow(row) PROVE IsRow(Collect!Withheld(row)) /\ ~Collect!Withheld(row).green
  <2>1. \A v, w : [row EXCEPT !.green = v, !.stale = w]
                     = [green |-> v, sha |-> row.sha, rollup |-> row.rollup, known |-> row.known,
                        age |-> row.age, blank |-> row.blank, stale |-> w]
    <3>1. \A v : [row EXCEPT !.green = v] = [green |-> v, sha |-> row.sha, rollup |-> row.rollup, known |-> row.known,
                                             age |-> row.age, blank |-> row.blank, stale |-> row.stale]
      BY <1>2 DEF IsRow
    <3>2. \A v, w : [row EXCEPT !.green = v, !.stale = w] = [[row EXCEPT !.green = v] EXCEPT !.stale = w]
      OBVIOUS
    <3>3. \A v, w : [[green |-> v, sha |-> row.sha, rollup |-> row.rollup, known |-> row.known,
                       age |-> row.age, blank |-> row.blank, stale |-> row.stale] EXCEPT !.stale = w]
                     = [green |-> v, sha |-> row.sha, rollup |-> row.rollup, known |-> row.known,
                        age |-> row.age, blank |-> row.blank, stale |-> w]
      OBVIOUS
    <3> QED
      BY <3>1, <3>2, <3>3
  <2>2. Collect!Withheld(row) = [green |-> FALSE, sha |-> row.sha, rollup |-> row.rollup, known |-> row.known,
                                 age |-> row.age, blank |-> row.blank, stale |-> TRUE]
    BY <2>1, Zenon DEF Collect!Withheld
  <2> QED
    BY <1>2, <2>2 DEF IsRow
<1>3. ASSUME NEW row, IsRow(row)
      PROVE  LET old == [row EXCEPT !.age = Collect!Aged(@)] IN
             IsRow(old) /\ old.green = row.green /\ old.sha = row.sha /\ old.age = Collect!Aged(row.age)
  <2>1. Collect!Aged(row.age) \in Nat
    BY <1>3 DEF IsRow, Collect!Aged
  <2> QED
    BY <1>3, <2>1 DEF IsRow
<1>4. ASSUME NEW row, IsRow(row)
      PROVE  LET old == [row EXCEPT !.stale = TRUE] IN
             IsRow(old) /\ old.green = row.green /\ old.sha = row.sha /\ old.age = row.age
  <2>1. \A w : [row EXCEPT !.stale = w]
                  = [green |-> row.green, sha |-> row.sha, rollup |-> row.rollup, known |-> row.known,
                     age |-> row.age, blank |-> row.blank, stale |-> w]
    BY <1>4 DEF IsRow
  <2>2. [row EXCEPT !.stale = TRUE] = [green |-> row.green, sha |-> row.sha, rollup |-> row.rollup, known |-> row.known,
                                       age |-> row.age, blank |-> row.blank, stale |-> TRUE]
    BY <2>1, Zenon
  <2> QED
    BY <1>4, <2>2 DEF IsRow
<1> QED
  BY <1>1, <1>2, <1>3, <1>4

\* What a pass takes over from what was stored is not green.
LEMMA StoredNotGreen ==
  ASSUME MaxAge \in Nat, RowsSince, NEW p \in Collect!Pulls
  PROVE  IsRow(Collect!StoredOrBlank(p)) /\ ~Collect!StoredOrBlank(p).green
<1>1. IsRow(detail[p])
  BY DEF RowsSince, GreenSince
<1> QED
  BY <1>1, RowEdits DEF Collect!StoredOrBlank

LEMMA NothingBuilt == <<>> = [p \in DOMAIN <<>> |-> <<>>[p]] /\ DOMAIN <<>> = {}
OBVIOUS

\* A row placed for the pull request at hand is true of it, so the rows built are.
LEMMA PlacedSince ==
  ASSUME RowsSince, NEW row, Collect!Placed(row), UNCHANGED successAge,
         queue[1] \in Collect!Pulls => GreenSince(successAge, queue[1], row)
  PROVE  /\ built' = [p \in DOMAIN built' |-> built'[p]]
         /\ \A p \in Collect!Pulls \cap DOMAIN built' : GreenSince(successAge', p, built'[p])
<1>1. built' = [p \in DOMAIN built \cup {queue[1]} |-> IF p = queue[1] THEN row ELSE built[p]]
  BY DEF Collect!Placed, Collect!First
<1>2. \A p \in Collect!Pulls \cap DOMAIN built' : GreenSince(successAge, p, built'[p])
  BY <1>1 DEF RowsSince
<1> QED
  BY <1>1, <1>2

\* Where neither time nor GitHub moves, rows stay true.
LEMMA CollectPassStep ==
  ASSUME MaxAge \in Nat, MaxMoves \in Nat, CollectInv, Collect!PassGoes
  PROVE  CollectInv'
<1> USE DEF Collect!envVars, Collect!headVars, Collect!stampVars
<1>0. GithubTyped /\ SuccessNow /\ CheckedNow /\ RowsSince
  BY DEF CollectInv
<1>1. UNCHANGED <<gh, moves, successAge>>
  BY DEF Collect!PassGoes, Collect!ListOpen, Collect!PassHeads, Collect!Queue, Collect!SkipPull, Collect!ReadChecks,
         Collect!PullFails, Collect!Remember, Collect!Finish
<1>2. GithubTyped' /\ SuccessNow'
  BY <1>0, <1>1 DEF GithubTyped, SuccessNow
<1>3. \A p, row : GreenSince(successAge, p, row) => GreenSince(successAge', p, row)
  BY <1>1 DEF GreenSince
<1>4. CASE Collect!ListOpen \/ Collect!PassHeads \/ Collect!Queue
  <2>1. pc' # "current" /\ UNCHANGED <<detail, shown>>
    BY <1>4 DEF Collect!ListOpen, Collect!PassHeads, Collect!Queue
  <2>2. built' = built \/ built' = <<>>
    BY <1>4 DEF Collect!ListOpen, Collect!PassHeads, Collect!Queue
  <2>3. RowsSince'
    <3>1. CASE built' = built
      BY <1>0, <1>3, <2>1, <3>1 DEF RowsSince
    <3>2. CASE built' = <<>>
      BY <1>0, <1>3, <2>1, <3>2, NothingBuilt DEF RowsSince
    <3> QED
      BY <2>2, <3>1, <3>2
  <2>4. CheckedNow'
    BY <2>1 DEF CheckedNow
  <2> QED
    BY <1>2, <2>3, <2>4 DEF CollectInv
<1>5. CASE Collect!SkipPull \/ Collect!PullFails
  <2>1. Collect!Placed(Collect!StoredOrBlank(queue[1])) /\ UNCHANGED <<detail, shown>>
    BY <1>5 DEF Collect!SkipPull, Collect!PullFails, Collect!First
  <2>2. pc' = "detail"
    BY <1>5 DEF Collect!SkipPull, Collect!PullFails
  <2>3. queue[1] \in Collect!Pulls => GreenSince(successAge, queue[1], Collect!StoredOrBlank(queue[1]))
    BY <1>0, StoredNotGreen DEF GreenSince
  <2>4. RowsSince'
    BY <1>0, <1>1, <1>3, <2>1, <2>3, PlacedSince DEF RowsSince
  <2>5. CheckedNow'
    BY <2>2 DEF CheckedNow
  <2> QED
    BY <1>2, <2>4, <2>5 DEF CollectInv
<1>6. CASE Collect!ReadChecks
  <2>1. UNCHANGED <<detail, shown, built, queue, listed>>
    BY <1>6 DEF Collect!ReadChecks
  <2>2. checks' = IF gh[queue[1]].sha = listed[queue[1]] THEN gh[queue[1]].state ELSE "PENDING"
    BY <1>6 DEF Collect!ReadChecks, Collect!First
  <2>3. CheckedNow'
    <3>1. SUFFICES ASSUME queue[1] \in Collect!Pulls, checks' = "SUCCESS"
                   PROVE  listed[queue[1]] \in Collect!Shas /\ successAge[queue[1]][listed[queue[1]]] = 0
      BY <1>1, <2>1 DEF CheckedNow
    <3>2. gh[queue[1]].sha = listed[queue[1]] /\ gh[queue[1]].state = "SUCCESS"
      BY <2>2, <3>1
    <3>3. gh[queue[1]].sha \in 0 .. moves /\ moves \in 0 .. MaxMoves
      BY <1>0, <3>1 DEF GithubTyped
    <3> QED
      <4>1. gh[queue[1]].sha \in 0 .. MaxMoves
        BY <3>3
      <4>2. successAge[queue[1]][gh[queue[1]].sha] = 0
        BY <1>0, <3>1, <3>2 DEF SuccessNow
      <4> QED
        BY <3>2, <4>1, <4>2 DEF Collect!Shas
  <2>4. RowsSince'
    BY <1>0, <1>3, <2>1 DEF RowsSince
  <2> QED
    BY <1>2, <2>3, <2>4 DEF CollectInv
<1>7. CASE Collect!Remember
  <2> DEFINE f == queue[1]
             sha == gh[f].sha
             known == f \in DOMAIN heads /\ heads[f].sha = sha
             rollup == IF known THEN heads[f].rollup ELSE Collect!None
             row == [green |-> Collect!MergeReady(sha, known, rollup), sha |-> sha, rollup |-> rollup,
                     known |-> known, age |-> 0, blank |-> FALSE, stale |-> FALSE]
  <2>1. detail' = [detail EXCEPT ![f] = row] /\ Collect!Placed(row) /\ pc' = "detail" /\ UNCHANGED shown
    BY <1>7 DEF Collect!Remember, Collect!First
  <2>2. pc = "current"
    BY <1>7 DEF Collect!Remember
  <2>3. f \in Collect!Pulls => GreenSince(successAge, f, row)
    <3> SUFFICES ASSUME f \in Collect!Pulls PROVE GreenSince(successAge, f, row)
      OBVIOUS
    <3>1. IsRow(row)
      BY DEF IsRow, Collect!MergeReady
    <3>2. row.green => sha = listed[f] /\ checks = "SUCCESS"
      BY DEF Collect!MergeReady, Collect!First
    <3>3. row.green => sha \in Collect!Shas /\ successAge[f][sha] = 0
      BY <1>0, <2>2, <3>2 DEF CheckedNow
    <3>4. row.sha = sha /\ row.age = 0
      OBVIOUS
    <3> HIDE DEF row, sha
    <3> QED
      BY <3>1, <3>3, <3>4 DEF GreenSince
  <2> HIDE DEF row
  <2>4. \A p \in Collect!Pulls : detail'[p] = detail[p] \/ (p = f /\ detail'[p] = row)
    BY <1>0, <2>1 DEF RowsSince
  <2>5. detail' = [p \in Collect!Pulls |-> detail'[p]]
    BY <1>0, <2>1 DEF RowsSince
  <2>6. RowsSince'
    BY <1>0, <1>1, <1>3, <2>1, <2>3, <2>4, <2>5, PlacedSince DEF RowsSince
  <2>7. CheckedNow'
    BY <2>1 DEF CheckedNow
  <2> QED
    BY <1>2, <2>6, <2>7 DEF CollectInv
<1>8. CASE Collect!Finish
  <2>1. /\ shown' = [p \in DOMAIN built \cup {q \in DOMAIN shown : Collect!RepoOf(q) \in missed} |->
                        IF p \in DOMAIN built THEN built[p] ELSE [shown[p] EXCEPT !.stale = TRUE]]
        /\ pc' = "idle" /\ built' = <<>> /\ UNCHANGED detail
    BY <1>8 DEF Collect!Finish
  <2>2. \A p \in Collect!Pulls \cap DOMAIN shown' : GreenSince(successAge', p, shown'[p])
    <3> SUFFICES ASSUME NEW p \in Collect!Pulls, p \in DOMAIN shown' PROVE GreenSince(successAge', p, shown'[p])
      OBVIOUS
    <3>1. CASE p \in DOMAIN built
      BY <1>0, <1>3, <2>1, <3>1 DEF RowsSince
    <3>2. CASE p \notin DOMAIN built
      <4>1. p \in DOMAIN shown /\ shown'[p] = [shown[p] EXCEPT !.stale = TRUE]
        BY <2>1, <3>2
      <4>2. GreenSince(successAge, p, shown[p])
        BY <1>0, <4>1 DEF RowsSince
      <4>3. GreenSince(successAge, p, shown'[p])
        BY <4>1, <4>2, RowEdits DEF GreenSince
      <4> QED
        BY <1>3, <4>3
    <3> QED
      BY <3>1, <3>2
  <2>3. RowsSince'
    <3>1. shown' = [p \in DOMAIN shown' |-> shown'[p]]
      BY <2>1
    <3> QED
      BY <1>0, <1>3, <2>1, <2>2, <3>1, NothingBuilt DEF RowsSince
  <2>4. CheckedNow'
    BY <2>1 DEF CheckedNow
  <2> QED
    BY <1>2, <2>3, <2>4 DEF CollectInv
<1> QED
  BY <1>4, <1>5, <1>6, <1>7, <1>8 DEF Collect!PassGoes

\* A beat takes green away and gives none.
LEMMA BeatStep ==
  ASSUME MaxAge \in Nat, CollectInv, Collect!HeadBeat
  PROVE  CollectInv'
<1> USE DEF Collect!envVars, Collect!headVars, Collect!stampVars, Collect!passVars
<1>0. GithubTyped /\ SuccessNow /\ CheckedNow /\ RowsSince
  BY DEF CollectInv
<1>1. /\ UNCHANGED <<gh, moves, successAge, detail, pc, queue, checks, listed, built>>
      /\ shown' = IF ~headsOk' THEN shown
                  ELSE [p \in DOMAIN heads' |-> IF p \in DOMAIN shown THEN Collect!ReconcilePull(shown[p])
                                                ELSE Collect!Unloaded]
  BY DEF Collect!HeadBeat
<1>2. GithubTyped' /\ SuccessNow' /\ CheckedNow'
  BY <1>0, <1>1 DEF GithubTyped, SuccessNow, CheckedNow
<1>3. CASE ~headsOk'
  BY <1>0, <1>1, <1>2, <1>3 DEF RowsSince, CollectInv
<1>4. CASE headsOk'
  <2>1. shown' = [p \in DOMAIN heads' |-> IF p \in DOMAIN shown THEN Collect!ReconcilePull(shown[p])
                                          ELSE Collect!Unloaded]
    BY <1>1, <1>4
  <2>2. ASSUME NEW p \in Collect!Pulls, p \in DOMAIN shown' PROVE GreenSince(successAge, p, shown'[p])
    <3>1. CASE p \in DOMAIN shown
      <4>1. IsRow(shown[p])
        BY <1>0, <3>1 DEF RowsSince, GreenSince
      <4>2. IsRow(shown'[p]) /\ ~shown'[p].green
        BY <2>1, <2>2, <3>1, <4>1, RowEdits DEF Collect!ReconcilePull, IsRow
      <4> QED
        BY <4>2 DEF GreenSince
    <3>2. CASE p \notin DOMAIN shown
      BY <2>1, <2>2, <3>2, RowEdits DEF GreenSince
    <3> QED
      BY <3>1, <3>2
  <2>3. shown' = [p \in DOMAIN shown' |-> shown'[p]]
    BY <2>1
  <2>4. RowsSince'
    BY <1>0, <1>1, <2>2, <2>3 DEF RowsSince
  <2> QED
    BY <1>2, <2>4 DEF CollectInv
<1> QED
  BY <1>3, <1>4

\* Time ages what was read as much as what is so, and a green row no less.
LEMMA TickStep ==
  ASSUME MaxAge \in Nat, MaxMoves \in Nat, CollectInv, Collect!Tick
  PROVE  CollectInv'
<1> USE DEF Collect!envVars, Collect!headVars, Collect!stampVars
<1>0. GithubTyped /\ SuccessNow /\ CheckedNow /\ RowsSince
  BY DEF CollectInv
<1>1. /\ UNCHANGED <<gh, moves, pc>> /\ pc # "current"
      /\ shown' = Collect!Older(shown) /\ built' = Collect!Older(built)
      /\ detail' = [p \in Collect!Pulls |-> IF detail[p].blank THEN detail[p]
                                            ELSE [detail[p] EXCEPT !.age = Collect!Aged(@)]]
      /\ successAge' = [p \in Collect!Pulls |-> [s \in Collect!Shas |->
            IF gh[p].sha = s /\ gh[p].state = "SUCCESS" THEN 0 ELSE Collect!Aged(successAge[p][s])]]
  BY DEF Collect!Tick
<1>2. \A n, m \in Nat : /\ Collect!Aged(n) \in Nat
                        /\ n <= m => Collect!Aged(n) <= Collect!Aged(m)
  BY DEF Collect!Aged
<1>3. \A p \in Collect!Pulls, s \in Collect!Shas :
         /\ successAge[p][s] \in Nat
         /\ successAge'[p][s] = 0 \/ successAge'[p][s] = Collect!Aged(successAge[p][s])
  BY <1>0, <1>1 DEF GithubTyped
<1>4. successAge' \in [Collect!Pulls -> [Collect!Shas -> Nat]]
  <2>1. \A p \in Collect!Pulls, s \in Collect!Shas :
           (IF gh[p].sha = s /\ gh[p].state = "SUCCESS" THEN 0 ELSE Collect!Aged(successAge[p][s])) \in Nat
    BY <1>2, <1>3
  <2> QED
    BY <1>1, <2>1
<1>5. GithubTyped' /\ SuccessNow' /\ CheckedNow'
  <2>1. GithubTyped'
    BY <1>0, <1>1, <1>4 DEF GithubTyped
  <2>2. SuccessNow'
    <3> SUFFICES ASSUME NEW p \in Collect!Pulls, gh[p].state = "SUCCESS" PROVE successAge'[p][gh[p].sha] = 0
      BY <1>1 DEF SuccessNow
    <3>1. gh[p].sha \in 0 .. moves /\ moves \in 0 .. MaxMoves
      BY <1>0 DEF GithubTyped
    <3>2. gh[p].sha \in Collect!Shas
      BY <3>1 DEF Collect!Shas
    <3> QED
      BY <1>1, <3>2
  <2>3. CheckedNow'
    BY <1>1 DEF CheckedNow
  <2> QED
    BY <2>1, <2>2, <2>3
<1>6. ASSUME NEW p \in Collect!Pulls, NEW row, GreenSince(successAge, p, row)
      PROVE  GreenSince(successAge', p, [row EXCEPT !.age = Collect!Aged(@)])
  <2> DEFINE old == [row EXCEPT !.age = Collect!Aged(@)]
  <2>1. IsRow(old) /\ old.green = row.green /\ old.sha = row.sha /\ old.age = Collect!Aged(row.age)
    BY <1>6, RowEdits DEF GreenSince
  <2>2. row.age \in Nat
    BY <1>6 DEF GreenSince, IsRow
  <2> HIDE DEF old
  <2>3. row.green => successAge'[p][row.sha] <= Collect!Aged(row.age)
    <3> SUFFICES ASSUME row.green PROVE successAge'[p][row.sha] <= Collect!Aged(row.age)
      OBVIOUS
    <3>1. row.sha \in Collect!Shas /\ successAge[p][row.sha] <= row.age
      BY <1>6 DEF GreenSince
    <3>2. successAge[p][row.sha] \in Nat
      BY <1>3, <3>1
    <3>3. Collect!Aged(successAge[p][row.sha]) <= Collect!Aged(row.age) /\ 0 <= Collect!Aged(row.age)
      BY <1>2, <2>2, <3>1, <3>2
    <3> QED
      BY <1>3, <3>1, <3>3
  <2>4. row.green => row.sha \in Collect!Shas
    BY <1>6 DEF GreenSince
  <2>5. GreenSince(successAge', p, old)
    BY <2>1, <2>3, <2>4 DEF GreenSince
  <2> QED
    BY <2>5 DEF old
<1>7. ASSUME NEW p \in Collect!Pulls PROVE GreenSince(successAge', p, detail'[p])
  <2>1. GreenSince(successAge, p, detail[p])
    BY <1>0 DEF RowsSince
  <2>2. CASE detail[p].blank
    <3>1. detail'[p] = detail[p] /\ IsRow(detail[p]) /\ ~detail[p].green
      BY <1>1, <2>1, <2>2 DEF GreenSince, IsRow
    <3> QED
      BY <3>1 DEF GreenSince
  <2>3. CASE ~detail[p].blank
    BY <1>1, <1>6, <2>1, <2>3
  <2> QED
    BY <2>2, <2>3
<1>8. ASSUME NEW p \in Collect!Pulls
      PROVE  /\ p \in DOMAIN built' => GreenSince(successAge', p, built'[p])
             /\ p \in DOMAIN shown' => GreenSince(successAge', p, shown'[p])
  <2>1. /\ p \in DOMAIN built' => p \in DOMAIN built /\ built'[p] = [built[p] EXCEPT !.age = Collect!Aged(@)]
        /\ p \in DOMAIN shown' => p \in DOMAIN shown /\ shown'[p] = [shown[p] EXCEPT !.age = Collect!Aged(@)]
    BY <1>1 DEF Collect!Older
  <2>2. /\ p \in DOMAIN built => GreenSince(successAge, p, built[p])
        /\ p \in DOMAIN shown => GreenSince(successAge, p, shown[p])
    BY <1>0 DEF RowsSince
  <2> QED
    BY <1>6, <2>1, <2>2
<1>9. /\ detail' = [p \in Collect!Pulls |-> detail'[p]]
      /\ built' = [p \in DOMAIN built' |-> built'[p]] /\ shown' = [p \in DOMAIN shown' |-> shown'[p]]
  BY <1>1 DEF Collect!Older
<1>10. RowsSince'
  BY <1>7, <1>8, <1>9 DEF RowsSince
<1> QED
  BY <1>5, <1>10 DEF CollectInv

\* Whatever moves on GitHub makes no head's checks longer ago green than they were.
LEMMA GithubStep ==
  ASSUME MaxAge \in Nat, MaxMoves \in Nat, CollectInv, Collect!GitHub
  PROVE  CollectInv'
<1> USE DEF Collect!envVars, Collect!headVars, Collect!stampVars, Collect!passVars
<1>0. GithubTyped /\ SuccessNow /\ CheckedNow /\ RowsSince
  BY DEF CollectInv
<1>1. PICK p, new :
        /\ p \in Collect!Pulls
        /\ Collect!Moves(p, new)
        /\ new \in [sha : 0 .. moves + 1, state : Collect!States, open : BOOLEAN]
        /\ new.state = "SUCCESS" => new.sha = gh[p].sha
  <2>1. PICK p \in Collect!Pulls : Collect!Push(p) \/ Collect!ChecksEnd(p) \/ Collect!Rerun(p) \/ Collect!OpenOrClose(p)
    BY DEF Collect!GitHub
  <2>2. gh[p] \in [sha : 0 .. moves, state : Collect!States, open : BOOLEAN] /\ moves \in Nat
    BY <1>0 DEF GithubTyped
  <2>3. \A n \in 0 .. moves : n \in 0 .. moves + 1 /\ n + 1 \in 0 .. moves + 1
    BY <2>2
  <2>4. CASE Collect!Push(p)
    <3>1. [gh[p] EXCEPT !.sha = @ + 1, !.state = "PENDING"] \in [sha : 0 .. moves + 1, state : Collect!States, open : BOOLEAN]
      BY <2>2, <2>3 DEF Collect!States
    <3>2. [gh[p] EXCEPT !.sha = @ + 1, !.state = "PENDING"].state = "PENDING"
      BY <2>2
    <3> QED
      BY <2>4, <3>1, <3>2 DEF Collect!Push
  <2>5. CASE Collect!ChecksEnd(p)
    <3>1. /\ [gh[p] EXCEPT !.state = "SUCCESS"] \in [sha : 0 .. moves + 1, state : Collect!States, open : BOOLEAN]
          /\ [gh[p] EXCEPT !.state = "SUCCESS"].sha = gh[p].sha
      BY <2>2, <2>3 DEF Collect!States
    <3> QED
      BY <2>5, <3>1 DEF Collect!ChecksEnd
  <2>6. CASE Collect!Rerun(p)
    <3>1. /\ [gh[p] EXCEPT !.state = "PENDING"] \in [sha : 0 .. moves + 1, state : Collect!States, open : BOOLEAN]
          /\ [gh[p] EXCEPT !.state = "PENDING"].sha = gh[p].sha
      BY <2>2, <2>3 DEF Collect!States
    <3> QED
      BY <2>6, <3>1 DEF Collect!Rerun
  <2>7. CASE Collect!OpenOrClose(p)
    <3>1. /\ [gh[p] EXCEPT !.open = ~@] \in [sha : 0 .. moves + 1, state : Collect!States, open : BOOLEAN]
          /\ [gh[p] EXCEPT !.open = ~@].sha = gh[p].sha
      BY <2>2, <2>3
    <3> QED
      BY <2>7, <3>1 DEF Collect!OpenOrClose
  <2> QED
    BY <2>1, <2>4, <2>5, <2>6, <2>7
<1>2. /\ p \in Collect!Pulls /\ moves < MaxMoves /\ moves' = moves + 1 /\ gh' = [gh EXCEPT ![p] = new]
      /\ successAge' = IF new.state = "SUCCESS" THEN [successAge EXCEPT ![p][new.sha] = 0] ELSE successAge
      /\ UNCHANGED <<detail, pc, listed, queue, checks, built, shown>>
  BY <1>1 DEF Collect!Moves
<1>3. moves \in Nat /\ moves' \in 0 .. MaxMoves /\ new.sha \in 0 .. moves'
  BY <1>0, <1>1, <1>2 DEF GithubTyped
<1>4. successAge' \in [Collect!Pulls -> [Collect!Shas -> Nat]]
  BY <1>0, <1>2 DEF GithubTyped
<1>5. \A q \in Collect!Pulls, s \in Collect!Shas :
         successAge'[q][s] = successAge[q][s] \/ successAge'[q][s] = 0
  BY <1>0, <1>2 DEF GithubTyped
<1>6. GithubTyped'
  <2>1. \A q \in Collect!Pulls : gh[q] \in [sha : 0 .. moves', state : Collect!States, open : BOOLEAN]
    BY <1>0, <1>2, <1>3 DEF GithubTyped
  <2>2. new \in [sha : 0 .. moves', state : Collect!States, open : BOOLEAN]
    BY <1>1, <1>2
  <2>3. gh' \in [Collect!Pulls -> [sha : 0 .. moves', state : Collect!States, open : BOOLEAN]]
    BY <1>0, <1>2, <2>1, <2>2 DEF GithubTyped
  <2> QED
    BY <1>3, <1>4, <2>3 DEF GithubTyped
<1>7. SuccessNow'
  <2> SUFFICES ASSUME NEW q \in Collect!Pulls, gh'[q].state = "SUCCESS" PROVE successAge'[q][gh'[q].sha] = 0
    BY DEF SuccessNow
  <2>1. gh'[q].sha \in Collect!Shas
    <3>1. gh'[q].sha \in 0 .. moves'
      BY <1>6 DEF GithubTyped
    <3> QED
      BY <1>3, <3>1 DEF Collect!Shas
  <2>2. CASE q = p
    <3>1. gh'[p] = new
      BY <1>0, <1>2 DEF GithubTyped
    <3> QED
      BY <1>0, <1>2, <2>1, <2>2, <3>1 DEF GithubTyped
  <2>3. CASE q # p
    <3>1. gh'[q] = gh[q]
      BY <1>0, <1>2, <2>3 DEF GithubTyped
    <3>2. successAge[q][gh[q].sha] = 0
      BY <1>0, <3>1 DEF SuccessNow
    <3> QED
      BY <1>5, <2>1, <3>1, <3>2
  <2> QED
    BY <2>2, <2>3
<1>8. CheckedNow'
  BY <1>0, <1>2, <1>5 DEF CheckedNow
<1>9. ASSUME NEW q \in Collect!Pulls, NEW row, GreenSince(successAge, q, row)
      PROVE  GreenSince(successAge', q, row)
  <2>1. row.green => successAge[q][row.sha] \in Nat /\ row.age \in Nat /\ row.sha \in Collect!Shas
    BY <1>0, <1>9 DEF GithubTyped, GreenSince, IsRow
  <2> QED
    BY <1>5, <1>9, <2>1 DEF GreenSince
<1>10. RowsSince'
  BY <1>0, <1>2, <1>9 DEF RowsSince
<1> QED
  BY <1>6, <1>7, <1>8, <1>10 DEF CollectInv

LEMMA CollectStep ==
  ASSUME MaxAge \in Nat, MaxMoves \in Nat, CollectInv, [Collect!Next]_Collect!vars
  PROVE  CollectInv'
<1>1. CASE UNCHANGED Collect!vars
  BY <1>1 DEF Collect!vars, Collect!envVars, Collect!headVars, Collect!stampVars, Collect!passVars,
              CollectInv, GithubTyped, SuccessNow, CheckedNow, RowsSince
<1> QED
  BY <1>1, CollectPassStep, BeatStep, TickStep, GithubStep DEF Collect!Next

\* For any repositories, pull requests, calls and age a reading may have: a
\* title the dashboard serves green is of checks that were all green within that
\* age, whatever moved, failed or was carried over since
\* (pull_reader.py, checks.py, heads.py).
THEOREM GreenStands ==
  ASSUME MaxAge \in Nat, MaxMoves \in Nat
  PROVE  Collect!Spec => []GreenIsTrue
<1>1. Collect!Init => CollectInv
  BY CollectInit
<1>2. CollectInv /\ [Collect!Next]_Collect!vars => CollectInv'
  BY CollectStep
<1>3. CollectInv => GreenIsTrue
  <2> SUFFICES ASSUME CollectInv, NEW p \in Collect!Pulls, Collect!ServedGreen(p)
               PROVE  successAge[p][shown[p].sha] <= MaxAge
    BY DEF GreenIsTrue, Collect!GreenIsTrue
  <2>1. p \in DOMAIN shown /\ shown[p].green /\ shown[p].age <= MaxAge
    BY DEF Collect!ServedGreen
  <2>2. GreenSince(successAge, p, shown[p])
    BY <2>1 DEF CollectInv, RowsSince
  <2>3. successAge[p][shown[p].sha] <= shown[p].age /\ shown[p].age \in Nat /\ successAge[p][shown[p].sha] \in Nat
    BY <2>1, <2>2 DEF GreenSince, IsRow, CollectInv, GithubTyped
  <2> QED
    BY <2>1, <2>3
<1> QED
  BY <1>1, <1>2, <1>3, PTL DEF Collect!Spec


----------------------------------------------------------------------------
(* Least and greatest numbers *)

\* A nonempty set of naturals has a least element: the initial segments up to
\* its members are finite sets, well-founded under strict inclusion.
LEMMA Minimum ==
    ASSUME NEW S \in SUBSET Nat, S # {}
    PROVE  \E n \in S : \A m \in S : n <= m
<1> DEFINE T == {0 .. n : n \in S}
<1>1. \A n \in S : 0 .. n \in FiniteSubsetsOf(Nat)
  <2> SUFFICES ASSUME NEW n \in S PROVE 0 .. n \in FiniteSubsetsOf(Nat)
    OBVIOUS
  <2>1. n \in Int /\ 0 \in Int /\ 0 .. n \subseteq Nat
    OBVIOUS
  <2>2. IsFiniteSet(0 .. n)
    BY <2>1, FS_Interval
  <2> QED
    BY <2>1, <2>2 DEF FiniteSubsetsOf
<1>0. T \subseteq FiniteSubsetsOf(Nat) /\ T # {}
  BY <1>1
<1> HIDE DEF T
<1>2. PICK X \in T : \A Y \in T : ~ (<<Y, X>> \in StrictSubsetOrdering(Nat))
  <2>1. IsWellFoundedOn(StrictSubsetOrdering(Nat), FiniteSubsetsOf(Nat))
    BY FS_StrictSubsetOrderingWellFounded
  <2> QED
    BY <1>0, <2>1, WFMin
<1>3. PICK n \in S : X = 0 .. n
  BY <1>2 DEF T
<1>4. ASSUME NEW m \in S, m < n PROVE FALSE
  <2>1. 0 .. m \in T
    BY DEF T
  <2>2. m \in Nat /\ n \in Nat
    OBVIOUS
  <2>3. 0 .. m \subseteq 0 .. n /\ 0 .. n \subseteq Nat
    BY <1>4, <2>2
  <2>4. n \in 0 .. n /\ n \notin 0 .. m
    BY <1>4, <2>2
  <2>5. <<0 .. m, 0 .. n>> \in StrictSubsetOrdering(Nat)
    BY <2>3, <2>4 DEF StrictSubsetOrdering
  <2> QED
    BY <1>2, <1>3, <2>1, <2>5
<1> QED
  BY <1>3, <1>4

\* What holds of zero and of each number's successor holds of every number.
LEMMA Counting ==
    ASSUME NEW S, 0 \in S, \A n \in Nat : n \in S => n + 1 \in S
    PROVE  Nat \subseteq S
<1> SUFFICES ASSUME NEW n \in Nat, n \notin S PROVE FALSE
  OBVIOUS
<1> DEFINE T == Nat \ S
<1>1. PICK m \in T : \A l \in T : m <= l
  <2>1. T \in SUBSET Nat /\ T # {}
    OBVIOUS
  <2> HIDE DEF T
  <2> QED
    BY <2>1, Minimum
<1>2. m \in Nat /\ m # 0 /\ m - 1 \in Nat
  OBVIOUS
<1>3. m - 1 \in S
  BY <1>1, <1>2
<1>4. m - 1 + 1 = m
  BY <1>2
<1> QED
  BY <1>2, <1>3, <1>4

\* A nonempty set of numbers up to n has a greatest element.
LEMMA Maximum ==
  ASSUME NEW n \in Nat, NEW S \in SUBSET (0..n), S # {}
  PROVE  \E m \in S : \A l \in S : l <= m
<1> DEFINE T == {n - m : m \in S}
<1>1. T \in SUBSET Nat /\ T # {}
  <2>1. \A m \in S : n - m \in Nat
    OBVIOUS
  <2> QED
    BY <2>1
<1>2. PICK t \in T : \A l \in T : t <= l
  <2> HIDE DEF T
  <2> QED
    BY <1>1, Minimum
<1>3. PICK m \in S : t = n - m
  BY <1>2
<1>4. ASSUME NEW l \in S PROVE l <= m
  <2>1. n - m <= n - l
    BY <1>2, <1>3
  <2>2. l \in Nat /\ m \in Nat
    OBVIOUS
  <2> QED
    BY <2>1, <2>2
<1> QED
  BY <1>4

\* A sequence's elements, by their places.
LEMMA ElementsOf ==
  ASSUME NEW S, NEW s \in Seq(S)
  PROVE  Len(s) \in Nat /\ DOMAIN s = 1..Len(s) /\ \A i \in DOMAIN s : s[i] \in S
OBVIOUS

----------------------------------------------------------------------------
(* Joined sequences *)

\* The function by which FlattenSeq joins the first n of some sequences.
Joins(f, seqs, n) == f = [i \in 1..n |-> IF i = 1 THEN seqs[i] ELSE f[i - 1] \o seqs[i]]
Joining(seqs, n) == CHOOSE f : Joins(f, seqs, n)

\* Joining is a function that joins them, one sequence more at each place.
LEMMA JoiningJoins ==
  ASSUME NEW seqs, NEW n \in Nat
  PROVE  Joins(Joining(seqs, n), seqs, n)
<1> DEFINE N == {k \in Nat : \E f : Joins(f, seqs, k)}
<1>1. 0 \in N
  <2> DEFINE f == [i \in 1..0 |-> seqs]
  <2>1. f = [i \in 1..0 |-> IF i = 1 THEN seqs[i] ELSE f[i - 1] \o seqs[i]]
    OBVIOUS
  <2> HIDE DEF f
  <2> QED
    BY <2>1 DEF Joins
<1>2. ASSUME NEW k \in Nat, k \in N PROVE k + 1 \in N
  <2>1. PICK f : Joins(f, seqs, k)
    BY <1>2
  <2> DEFINE g == [i \in 1..(k + 1) |-> IF i = 1 THEN seqs[i] ELSE f[i - 1] \o seqs[i]]
  <2>2. ASSUME NEW i \in 1..k PROVE g[i] = f[i]
    <3>1. f[i] = IF i = 1 THEN seqs[i] ELSE f[i - 1] \o seqs[i]
      BY <2>1, Zenon DEF Joins
    <3>2. i \in 1..(k + 1)
      OBVIOUS
    <3> QED
      BY <3>1, <3>2, Zenon
  <2>3. ASSUME NEW i \in 1..(k + 1), i # 1 PROVE f[i - 1] = g[i - 1]
    <3>1. i - 1 \in 1..k
      BY <2>3
    <3> HIDE DEF g
    <3> QED
      BY <2>2, <3>1
  <2>4. g = [i \in 1..(k + 1) |-> IF i = 1 THEN seqs[i] ELSE g[i - 1] \o seqs[i]]
    <3> DEFINE h == [i \in 1..(k + 1) |-> IF i = 1 THEN seqs[i] ELSE g[i - 1] \o seqs[i]]
    <3>1. ASSUME NEW i \in 1..(k + 1) PROVE g[i] = h[i]
      <4>1. CASE i = 1
        BY <4>1
      <4>2. CASE i # 1
        <5>1. f[i - 1] = g[i - 1]
          BY <2>3, <4>2
        <5>2. g[i] = f[i - 1] \o seqs[i]
          BY <4>2
        <5>3. h[i] = g[i - 1] \o seqs[i]
          BY <4>2, Zenon
        <5> QED
          BY <5>1, <5>2, <5>3
      <4> QED
        BY <4>1, <4>2
    <3>2. DOMAIN g = 1..(k + 1) /\ DOMAIN h = 1..(k + 1)
      OBVIOUS
    <3>3. g = [i \in 1..(k + 1) |-> g[i]] /\ h = [i \in 1..(k + 1) |-> h[i]]
      OBVIOUS
    <3> HIDE DEF g, h
    <3>4. g = h
      BY <3>1, <3>3
    <3> QED
      BY <3>4 DEF h
  <2>5. Joins(g, seqs, k + 1)
    <3> HIDE DEF g
    <3> QED
      BY <2>4 DEF Joins
  <2> HIDE DEF g
  <2> QED
    BY <2>5
<1> HIDE DEF N
<1>3. n \in N
  BY <1>1, <1>2, Counting
<1>4. \E f : Joins(f, seqs, n)
  BY <1>3 DEF N
<1> QED
  BY <1>4 DEF Joining

----------------------------------------------------------------------------
(* The lines of the test file *)

LineRecords == [kind : {"test", "outside", "closer", "assert", "open", "value"}, text : STRING \cup {"});"}]

Bare(b) == TestBlocks[b].title = ""
Opening(b) == IF Bare(b) THEN <<>> ELSE <<[kind |-> "test", text |-> TestBlocks[b].title]>>
Inside(b) == [i \in DOMAIN TestBlocks[b].body |->
               [kind |-> IF Bare(b) THEN "outside" ELSE TestBlocks[b].body[i].kind, text |-> TestBlocks[b].body[i].text]]
Closing(b) == IF Bare(b) THEN <<>> ELSE <<[kind |-> "closer", text |-> "});"]>>
LinesOf(b) == Opening(b) \o Inside(b) \o Closing(b)
AllLines == [b \in DOMAIN TestBlocks |-> LinesOf(b)]

\* A test's lines are its sequence's, and none begins a test or stands outside.
LEMMA BodyKinds ==
  ASSUME NEW b \in DOMAIN TestBlocks
  PROVE  /\ DOMAIN TestBlocks[b].body = 1..Len(TestBlocks[b].body)
         /\ \A i \in 1..Len(TestBlocks[b].body) : TestBlocks[b].body[i].kind \in {"assert", "open", "value"}
<1> DEFINE Kept == [kind : {"assert", "open", "value"}, text : STRING]
           Blocks == [title : STRING, body : Seq(Kept)]
<1>1. TestBlocks \in Seq(Blocks)
  BY AuditAssumption
<1>2. TestBlocks[b] \in Blocks
  <2> HIDE DEF Blocks
  <2> QED
    BY <1>1, ElementsOf
<1>3. TestBlocks[b].body \in Seq(Kept)
  <2> HIDE DEF Kept
  <2> QED
    BY <1>2
<1>4. \A i \in 1..Len(TestBlocks[b].body) : TestBlocks[b].body[i] \in Kept
  <2> HIDE DEF Kept
  <2> QED
    BY <1>3, ElementsOf
<1> QED
  BY <1>3, <1>4

\* A test is its title, the lines of its body and its closer; what is outside every test is neither.
LEMMA BlockLines ==
  ASSUME NEW b \in DOMAIN TestBlocks
  PROVE  LET size == Len(TestBlocks[b].body) IN
         /\ size \in Nat /\ LinesOf(b) \in Seq(LineRecords)
         /\ Bare(b) => \A p \in 1..Len(LinesOf(b)) : LinesOf(b)[p].kind = "outside"
         /\ ~Bare(b) =>
              /\ Len(LinesOf(b)) = size + 2
              /\ LinesOf(b)[1] = [kind |-> "test", text |-> TestBlocks[b].title]
              /\ \A i \in 1..size : LinesOf(b)[i + 1] = TestBlocks[b].body[i]
              /\ LinesOf(b)[size + 2].kind = "closer"
<1> DEFINE body == TestBlocks[b].body
           size == Len(body)
           Kept == [kind : {"assert", "open", "value"}, text : STRING]
<1>1. TestBlocks[b].title \in STRING /\ body \in Seq(Kept)
  <2> HIDE DEF Kept
  <2> DEFINE Blocks == [title : STRING, body : Seq(Kept)]
  <2>1. TestBlocks \in Seq(Blocks)
    BY AuditAssumption DEF Kept
  <2>2. TestBlocks[b] \in Blocks
    <3> HIDE DEF Blocks
    <3> QED
      BY <2>1, ElementsOf
  <2> QED
    BY <2>2
<1>2. /\ size \in Nat /\ DOMAIN body = 1..size
      /\ \A i \in 1..size : body[i] \in Kept
  <2> HIDE DEF Kept
  <2> QED
    BY <1>1
<1>3. Inside(b) \in Seq(LineRecords) /\ Len(Inside(b)) = size
  <2>1. Inside(b) \in [1..size -> LineRecords]
    BY <1>2 DEF Inside, LineRecords
  <2> QED
    BY <1>2, <2>1
<1>4. CASE Bare(b)
  <2>1. Opening(b) = <<>> /\ Closing(b) = <<>>
    BY <1>4 DEF Opening, Closing
  <2>2. LinesOf(b) = Inside(b)
    BY <1>3, <2>1, ConcatEmptySeq DEF LinesOf
  <2>3. \A p \in 1..size : Inside(b)[p].kind = "outside"
    BY <1>2, <1>4 DEF Inside
  <2> QED
    BY <1>2, <1>3, <1>4, <2>2, <2>3
<1>5. CASE ~Bare(b)
  <2> DEFINE first == [kind |-> "test", text |-> TestBlocks[b].title]
             last == [kind |-> "closer", text |-> "});"]
  <2>1. Opening(b) = <<first>> /\ Closing(b) = <<last>>
    BY <1>5 DEF Opening, Closing
  <2>2. first \in LineRecords /\ last \in LineRecords
    BY <1>1 DEF LineRecords
  <2>3. \A i \in 1..size : Inside(b)[i] = body[i]
    <3> SUFFICES ASSUME NEW i \in 1..size PROVE Inside(b)[i] = body[i]
      OBVIOUS
    <3>1. Inside(b)[i] = [kind |-> body[i].kind, text |-> body[i].text]
      BY <1>2, <1>5 DEF Inside
    <3> QED
      BY <1>2, <3>1
  <2> HIDE DEF first, last, body, size
  <2> DEFINE upto == <<first>> \o Inside(b)
  <2>4. <<first>> \in Seq(LineRecords) /\ Len(<<first>>) = 1 /\ <<first>>[1] = first
    BY <2>2
  <2>5. <<last>> \in Seq(LineRecords) /\ Len(<<last>>) = 1 /\ <<last>>[1] = last
    BY <2>2
  <2>6. upto \in Seq(LineRecords) /\ Len(upto) = 1 + size
        /\ \A i \in 1..(1 + size) : upto[i] = IF i <= 1 THEN <<first>>[i] ELSE Inside(b)[i - 1]
    BY <1>3, <2>4, ConcatProperties
  <2>7. upto[1] = first /\ \A i \in 1..size : upto[i + 1] = body[i]
    <3>1. upto[1] = first
      BY <1>2, <2>4, <2>6
    <3>2. ASSUME NEW i \in 1..size PROVE upto[i + 1] = body[i]
      <4>1. i + 1 \in 1..(1 + size) /\ ~(i + 1 <= 1) /\ i + 1 - 1 = i
        BY <1>2
      <4> HIDE DEF upto
      <4> QED
        BY <2>3, <2>6, <4>1
    <3> QED
      BY <3>1, <3>2
  <2> HIDE DEF upto
  <2>8. LinesOf(b) = upto \o <<last>>
    BY <2>1 DEF LinesOf, upto
  <2>9. LinesOf(b) \in Seq(LineRecords) /\ Len(LinesOf(b)) = 1 + size + 1
        /\ \A i \in 1..(1 + size + 1) : LinesOf(b)[i] = IF i <= 1 + size THEN upto[i] ELSE <<last>>[i - (1 + size)]
    BY <2>5, <2>6, <2>8, ConcatProperties
  <2>10. LinesOf(b)[1] = first /\ (\A i \in 1..size : LinesOf(b)[i + 1] = body[i]) /\ LinesOf(b)[size + 2] = last
    <3>1. /\ 1 \in 1..(1 + size + 1) /\ 1 <= 1 + size
          /\ size + 2 \in 1..(1 + size + 1) /\ ~(size + 2 <= 1 + size) /\ size + 2 - (1 + size) = 1
      BY <1>2 DEF size
    <3>2. ASSUME NEW i \in 1..size PROVE LinesOf(b)[i + 1] = body[i]
      <4>1. i + 1 \in 1..(1 + size + 1) /\ i + 1 <= 1 + size
        BY <1>2 DEF size
      <4> QED
        BY <2>7, <2>9, <4>1
    <3>3. LinesOf(b)[1] = first
      BY <2>7, <2>9, <3>1
    <3>4. ASSUME NEW i, i = size + 2 PROVE LinesOf(b)[i] = last
      <4>1. i \in 1..(1 + size + 1) /\ ~(i <= 1 + size) /\ i - (1 + size) = 1
        BY <1>2, <3>1, <3>4 DEF size
      <4>2. LinesOf(b)[i] = <<last>>[i - (1 + size)]
        BY <2>9, <4>1
      <4> QED
        BY <2>5, <4>1, <4>2
    <3>5. LinesOf(b)[size + 2] = last
      BY <3>4
    <3> QED
      BY <3>2, <3>3, <3>5
  <2>11. 1 + size + 1 = size + 2
    BY <1>2 DEF size
  <2>12. last.kind = "closer"
    BY DEF last
  <2> QED
    BY <1>2, <1>5, <2>9, <2>10, <2>11, <2>12 DEF first, body, size
<1> QED
  BY <1>4, <1>5

\* Between a test's title and the next test, what closes it and what is outside, there is only the test's body.
InBody(lines) ==
  \A s, p \in 1..Len(lines) :
    /\ s < p /\ lines[s].kind = "test" /\ lines[p].kind # "closer"
    /\ \A m \in (s + 1)..p : lines[m].kind \notin {"test", "outside"}
    => \E b \in DOMAIN TestBlocks :
         /\ TestBlocks[b].title = lines[s].text /\ ~Bare(b)
         /\ \E i \in DOMAIN TestBlocks[b].body : TestBlocks[b].body[i] = lines[p]

\* A block more leaves it so: what opens, fills and closes the block is all there is to it.
LEMMA OneBlockMore ==
  ASSUME NEW lines \in Seq(LineRecords), InBody(lines), NEW b \in DOMAIN TestBlocks
  PROVE  lines \o LinesOf(b) \in Seq(LineRecords) /\ InBody(lines \o LinesOf(b))
<1> DEFINE more == LinesOf(b)
           all == lines \o more
           n == Len(lines)
           size == Len(TestBlocks[b].body)
<1>1. /\ size \in Nat /\ more \in Seq(LineRecords)
      /\ Bare(b) => \A p \in 1..Len(more) : more[p].kind = "outside"
      /\ ~Bare(b) =>
           /\ Len(more) = size + 2
           /\ more[1] = [kind |-> "test", text |-> TestBlocks[b].title]
           /\ \A i \in 1..size : more[i + 1] = TestBlocks[b].body[i]
           /\ more[size + 2].kind = "closer"
  BY BlockLines
<1>2. DOMAIN TestBlocks[b].body = 1..size /\ \A i \in 1..size : TestBlocks[b].body[i].kind # "test"
  BY BodyKinds
<1> HIDE DEF more, size
<1>3. /\ all \in Seq(LineRecords) /\ Len(all) = n + Len(more) /\ n \in Nat /\ Len(more) \in Nat
      /\ \A i \in 1..(n + Len(more)) : all[i] = IF i <= n THEN lines[i] ELSE more[i - n]
  BY <1>1, ConcatProperties
<1> HIDE DEF all
<1> SUFFICES ASSUME NEW s \in 1..Len(all), NEW p \in 1..Len(all),
                    s < p, all[s].kind = "test", all[p].kind # "closer",
                    \A m \in (s + 1)..p : all[m].kind \notin {"test", "outside"}
             PROVE  \E c \in DOMAIN TestBlocks :
                      /\ TestBlocks[c].title = all[s].text /\ ~Bare(c)
                      /\ \E i \in DOMAIN TestBlocks[c].body : TestBlocks[c].body[i] = all[p]
  BY <1>3 DEF InBody, all, more
<1>4. CASE p <= n
  <2>1. s \in 1..n /\ p \in 1..n /\ all[s] = lines[s] /\ all[p] = lines[p]
    BY <1>3, <1>4
  <2>2. \A m \in (s + 1)..p : lines[m].kind \notin {"test", "outside"}
    <3> SUFFICES ASSUME NEW m \in (s + 1)..p PROVE lines[m].kind \notin {"test", "outside"}
      OBVIOUS
    <3>1. all[m] = lines[m]
      BY <1>3, <1>4
    <3> QED
      BY <3>1
  <2> QED
    BY <2>1, <2>2 DEF InBody, n
<1>5. CASE p > n
  <2>0. n \in Nat /\ size \in Nat /\ Len(more) \in Nat /\ s \in Int /\ p \in Int
    BY <1>1, <1>3
  <2>1. p - n \in 1..Len(more) /\ all[p] = more[p - n]
    BY <1>3, <1>5
  <2>2. p \in (s + 1)..p
    BY <1>3
  <2>3. ~Bare(b)
    <3>1. all[p].kind # "outside"
      BY <2>2
    <3> QED
      BY <1>1, <2>1, <3>1
  <2>4. n + 1 \in 1..Len(all) /\ all[n + 1] = more[1] /\ all[n + 1].kind = "test"
    <3>1. n + 1 \in 1..(n + Len(more)) /\ ~(n + 1 <= n) /\ n + 1 - n = 1
      BY <1>3, <2>1
    <3>2. all[n + 1] = more[1]
      BY <1>3, <3>1
    <3> QED
      BY <1>1, <1>3, <2>3, <3>1, <3>2
  <2>12. Len(more) = size + 2
    BY <1>1, <2>3
  <2>5. s > n
    <3> SUFFICES ASSUME s <= n PROVE FALSE
      BY <1>3
    <3>1. n + 1 \in (s + 1)..p
      BY <1>3, <1>5
    <3> QED
      BY <2>4, <3>1
  <2>6. s - n \in 1..Len(more) /\ all[s] = more[s - n]
    BY <1>3, <2>5
  <2>7. s - n = 1
    <3> SUFFICES ASSUME s - n # 1 PROVE FALSE
      OBVIOUS
    <3>1. s - n - 1 \in 1..(size + 1)
      <4>1. s - n \in 1..(size + 2)
        BY <2>6, <2>12
      <4> QED
        BY <2>0, <4>1
    <3>2. CASE s - n - 1 = size + 1
      <4>1. s - n = size + 2
        BY <1>1, <1>3, <3>2
      <4> QED
        BY <1>1, <2>3, <2>6, <4>1
    <3>3. CASE s - n - 1 \in 1..size
      <4>1. s - n = (s - n - 1) + 1
        BY <1>3
      <4>2. more[s - n] = TestBlocks[b].body[s - n - 1]
        BY <1>1, <2>3, <3>3, <4>1
      <4> QED
        BY <1>2, <2>6, <3>3, <4>2
    <3> QED
      BY <1>1, <3>1, <3>2, <3>3
  <2>8. p - n - 1 \in 1..size
    <3>1. p - n - 1 \in 1..(size + 1)
      <4>1. p - n \in 1..(size + 2)
        BY <2>1, <2>12
      <4>2. p > s
        OBVIOUS
      <4> QED
        BY <2>0, <2>7, <4>1, <4>2
    <3>2. p - n # size + 2
      BY <1>1, <2>1, <2>3
    <3> QED
      BY <2>0, <3>1, <3>2
  <2>9. all[p] = TestBlocks[b].body[p - n - 1]
    <3>1. p - n = (p - n - 1) + 1
      BY <1>3
    <3> QED
      BY <1>1, <2>1, <2>3, <2>8, <3>1
  <2>10. all[s].text = TestBlocks[b].title
    <3>1. all[s] = more[1]
      BY <2>6, <2>7
    <3>2. more[1] = [kind |-> "test", text |-> TestBlocks[b].title]
      BY <1>1, <2>3
    <3> QED
      BY <3>1, <3>2
  <2> QED
    BY <1>2, <2>3, <2>8, <2>9, <2>10
<1> QED
  BY <1>3, <1>4, <1>5

\* The test file's lines, block after block.
LEMMA LinesInBody == Audit!Lines \in Seq(LineRecords) /\ InBody(Audit!Lines)
<1> DEFINE n == Len(AllLines)
           f == Joining(AllLines, n)
<1>1. /\ AllLines \in Seq(Seq(LineRecords)) /\ n \in Nat
      /\ DOMAIN TestBlocks = 1..n /\ \A b \in 1..n : AllLines[b] = LinesOf(b)
  <2>1. \A b \in DOMAIN TestBlocks : LinesOf(b) \in Seq(LineRecords)
    BY BlockLines
  <2>2. Len(TestBlocks) \in Nat /\ DOMAIN TestBlocks = 1..Len(TestBlocks)
    BY AuditAssumption, ElementsOf
  <2>3. AllLines \in [1..Len(TestBlocks) -> Seq(LineRecords)]
    BY <2>1, <2>2 DEF AllLines
  <2>4. AllLines \in Seq(Seq(LineRecords)) /\ n = Len(TestBlocks)
    BY <2>2, <2>3
  <2> QED
    BY <2>2, <2>4 DEF AllLines
<1>2. Audit!Lines = IF n = 0 THEN AllLines ELSE f[n]
  BY Zenon DEF Audit!Lines, Audit!FlattenSeq, Joining, Joins, AllLines, LinesOf, Opening, Inside, Closing, Bare
<1> HIDE DEF n
<1>3. CASE n = 0
  <2>1. AllLines \in Seq(LineRecords) /\ Len(AllLines) = 0
    BY <1>1, <1>3 DEF n
  <2>2. InBody(AllLines)
    BY <2>1 DEF InBody
  <2> QED
    BY <1>2, <1>3, <2>1, <2>2
<1>4. CASE n # 0
  <2>1. f = [i \in 1..n |-> IF i = 1 THEN AllLines[i] ELSE f[i - 1] \o AllLines[i]]
    BY <1>1, JoiningJoins DEF Joins
  <2> HIDE DEF f
  <2> DEFINE Fine(k) == f[k] \in Seq(LineRecords) /\ InBody(f[k])
             N == {k \in Nat : k + 1 \in 1..n => Fine(k + 1)}
  <2>2. 0 \in N
    <3>1. f[1] = LinesOf(1) /\ 1 \in DOMAIN TestBlocks
      BY <1>1, <1>4, <2>1
    <3>2. <<>> \in Seq(LineRecords) /\ InBody(<<>>)
      BY DEF InBody
    <3>3. LinesOf(1) \in Seq(LineRecords) /\ <<>> \o LinesOf(1) = LinesOf(1)
      BY <3>1, BlockLines, ConcatEmptySeq
    <3>4. <<>> \o LinesOf(1) \in Seq(LineRecords) /\ InBody(<<>> \o LinesOf(1))
      BY <3>1, <3>2, OneBlockMore
    <3>5. Fine(1)
      BY <3>1, <3>3, <3>4
    <3> HIDE DEF Fine
    <3> QED
      BY <3>5
  <2>3. ASSUME NEW k \in Nat, k \in N PROVE k + 1 \in N
    <3> SUFFICES ASSUME k + 2 \in 1..n PROVE Fine(k + 2)
      OBVIOUS
    <3>1. k + 1 \in 1..n
      BY <1>1
    <3>2. f[k + 2] = f[k + 1] \o LinesOf(k + 2)
      <4>1. ASSUME NEW i \in 1..n, NEW l \in 1..n, i = l + 1 PROVE f[i] = f[l] \o LinesOf(i)
        <5>1. i # 1 /\ i - 1 = l
          BY <1>1, <4>1
        <5>2. f[i] = f[i - 1] \o AllLines[i]
          BY <2>1, <5>1, Zenon
        <5> QED
          BY <1>1, <5>1, <5>2
      <4>2. k + 2 = (k + 1) + 1
        OBVIOUS
      <4> QED
        BY <3>1, <4>1, <4>2
    <3>3. Fine(k + 1)
      BY <2>3, <3>1
    <3> QED
      BY <1>1, <3>2, <3>3, OneBlockMore
  <2>4. n - 1 \in N
    <3>1. n - 1 \in Nat
      BY <1>1, <1>4
    <3> HIDE DEF N
    <3> QED
      BY <2>2, <2>3, <3>1, Counting
  <2>5. Fine(n)
    <3>1. n - 1 + 1 = n /\ n \in 1..n
      BY <1>1, <1>4
    <3> QED
      BY <2>4, <3>1
  <2> QED
    BY <1>2, <1>4, <2>5 DEF f
<1> QED
  BY <1>3, <1>4

\* The test above a line is the last that begins before it.
LEMMA DeclarationAbove ==
  ASSUME NEW n \in 1..Len(Audit!Lines), Audit!declaration_above(n) # 0
  PROVE  LET start == Audit!declaration_above(n) IN
         start \in 1..(n - 1) /\ Audit!Lines[start].kind = "test"
<1> DEFINE above == {i \in 1..(n - 1) : Audit!Lines[i].kind = "test"}
<1>0. Len(Audit!Lines) \in Nat
  BY LinesInBody
<1>1. above # {} /\ Audit!declaration_above(n) = CHOOSE i \in above : \A j \in above : j <= i
  BY DEF Audit!declaration_above
<1>2. n \in Nat /\ above \in SUBSET (0..n)
  BY <1>0
<1> HIDE DEF above
<1>3. \E i \in above : \A j \in above : j <= i
  BY <1>1, <1>2, Maximum
<1>4. Audit!declaration_above(n) \in above
  BY <1>1, <1>3
<1> QED
  BY <1>4 DEF above

\* A test ends before the next one and before what is outside.
LEMMA BodyEnds ==
  ASSUME NEW start \in 1..Len(Audit!Lines)
  PROVE  LET e == Audit!body_end(start) IN
         /\ e \in start..Len(Audit!Lines)
         /\ \A i \in start..(e - 1) : Audit!Lines[i + 1].kind \notin {"outside", "test"}
<1> DEFINE last == Len(Audit!Lines)
           Stop(e) == e = last \/ Audit!Lines[e].kind = "closer" \/ Audit!Lines[e + 1].kind \in {"outside", "test"}
           S == {e \in start..last : Stop(e)}
           Ends(e) == /\ Stop(e)
                      /\ \A i \in start..(e - 1) : Audit!Lines[i].kind # "closer" /\ Audit!Lines[i + 1].kind \notin {"outside", "test"}
<1>0. last \in Nat
  BY LinesInBody
<1>1. S \in SUBSET Nat /\ S # {}
  <2>1. last \in S
    BY <1>0
  <2>2. S \subseteq Nat
    BY <1>0
  <2> QED
    BY <2>1, <2>2
<1>2. PICK e \in S : \A l \in S : e <= l
  <2> HIDE DEF S
  <2> QED
    BY <1>1, Minimum
<1>3. Ends(e)
  <2> SUFFICES ASSUME NEW i \in start..(e - 1) PROVE ~Stop(i)
    BY <1>2
  <2>1. i \in start..last /\ ~(e <= i)
    BY <1>0, <1>2
  <2> HIDE DEF Stop
  <2> QED
    BY <1>2, <2>1
<1>4. Audit!body_end(start) = CHOOSE x \in start..last : Ends(x)
  BY Zenon DEF Audit!body_end
<1> HIDE DEF Ends, last
<1>5. Audit!body_end(start) \in start..last /\ Ends(Audit!body_end(start))
  BY <1>2, <1>3, <1>4
<1> QED
  BY <1>5 DEF Ends, last

\* A quote the audit accepts is a line of the test it names, and no call's mere opening (proof_problem).
LEMMA QuoteIsReal ==
  ASSUME NEW q, ~Audit!proof_problem(q)
  PROVE  Audit!Real(q)
<1>1. PICK n : ~Audit!quote_problem(n, q.text) /\ ~Audit!test_problem(n, q.title)
  BY DEF Audit!proof_problem
<1>2. /\ n \in 1..Len(Audit!Lines) /\ Audit!Lines[n].text = q.text
      /\ Audit!Lines[n].kind \notin {"open", "closer"}
  BY <1>1 DEF Audit!quote_problem
<1> DEFINE s == Audit!declaration_above(n)
<1>3. s # 0 /\ Audit!Lines[s].text = q.title /\ ~(n > Audit!body_end(s))
  BY <1>1 DEF Audit!test_problem
<1>4. s \in 1..(n - 1) /\ Audit!Lines[s].kind = "test"
  BY <1>2, <1>3, DeclarationAbove
<1> HIDE DEF s
<1>5. Len(Audit!Lines) \in Nat
  BY LinesInBody
<1>6. s \in 1..Len(Audit!Lines) /\ s < n
  BY <1>2, <1>4, <1>5
<1>7. \A m \in (s + 1)..n : Audit!Lines[m].kind \notin {"test", "outside"}
  <2> SUFFICES ASSUME NEW m \in (s + 1)..n PROVE Audit!Lines[m].kind \notin {"test", "outside"}
    OBVIOUS
  <2> DEFINE e == Audit!body_end(s)
  <2>1. /\ e \in s..Len(Audit!Lines)
        /\ \A i \in s..(e - 1) : Audit!Lines[i + 1].kind \notin {"outside", "test"}
    BY <1>6, BodyEnds
  <2>2. n <= e
    BY <1>2, <1>3, <1>5, <1>6, <2>1
  <2> HIDE DEF e
  <2>3. m - 1 \in s..(e - 1) /\ m - 1 + 1 = m
    BY <1>2, <1>5, <1>6, <2>1, <2>2
  <2> QED
    BY <2>1, <2>3
<1>8. PICK b \in DOMAIN TestBlocks :
        /\ TestBlocks[b].title = q.title /\ ~Bare(b)
        /\ \E i \in DOMAIN TestBlocks[b].body : TestBlocks[b].body[i] = Audit!Lines[n]
  BY <1>2, <1>3, <1>4, <1>6, <1>7, LinesInBody DEF InBody
<1> QED
  BY <1>2, <1>8 DEF Audit!Real, Bare

----------------------------------------------------------------------------
(* The proof audit *)

\* What the audit had judged when it passed; neither the body nor a store is touched after a verdict.
AuditPassed ==
  /\ ~Audit!Unreadable /\ Audit!Owed # {} /\ ~Audit!Ungraded
  /\ \A r \in Audit!Owed : Audit!verdict(r) # "UNPROVEN"
CoveragePassed == Audit!body_findings(owed, HeadPaths, written) = {}

AuditVerdicts == [trace : {"none", "passes", "fails"}, audit : {"none", "passes", "fails", "cannot run", "nothing owed"}]

\* A grade is of a shard the plan cut, and for exactly its requirements.
GradesFit ==
  /\ cuts = Audit!Unplanned => DOMAIN graded = {}
  /\ \A k \in DOMAIN graded : k \in DOMAIN cuts /\ graded[k].output \in [cuts[k] -> Outputs]

AuditInv ==
  /\ owed \in RepoPlans /\ Audit!plan_findings(owed) = {} /\ written \in PullBodies
  /\ GradesFit /\ verdicts \in AuditVerdicts
  /\ verdicts.audit = "passes" => AuditPassed
  /\ verdicts.trace = "passes" => CoveragePassed

\* The invariant holds where nothing was planned or judged.
LEMMA AuditStarts ==
  ASSUME Audit!Init
  PROVE  AuditInv
<1>1. owed \in RepoPlans /\ Audit!plan_findings(owed) = {} /\ written \in PullBodies
  BY DEF Audit!Init
<1>2. verdicts = [trace |-> "none", audit |-> "none"]
  BY DEF Audit!Init, Audit!NoVerdict
<1>3. DOMAIN graded = {}
  BY DEF Audit!Init
<1> QED
  BY <1>1, <1>2, <1>3 DEF AuditInv, GradesFit, AuditVerdicts

\* What was judged stands while what it was judged by stays.
LEMMA JudgedStays ==
  ASSUME UNCHANGED <<owed, shelf, written, cuts, graded>>
  PROVE  /\ AuditPassed' = AuditPassed /\ CoveragePassed' = CoveragePassed
         /\ GradesFit' = GradesFit
BY DEF AuditPassed, CoveragePassed, GradesFit, Audit!Unreadable, Audit!Owed, Audit!Ungraded, Audit!verdict, Audit!FromStore,
       Audit!Split, Audit!Grades, Audit!proven_problem, Audit!excluded_problem

\* Every step keeps it: nothing but the two gates moves a verdict, and they give it for what is there.
LEMMA AuditKeeps ==
  ASSUME AuditInv, [Audit!Next]_(Audit!auditVars)
  PROVE  AuditInv'
<1>0. /\ owed \in RepoPlans /\ Audit!plan_findings(owed) = {} /\ written \in PullBodies
      /\ GradesFit /\ verdicts \in AuditVerdicts
      /\ verdicts.audit = "passes" => AuditPassed
      /\ verdicts.trace = "passes" => CoveragePassed
  BY DEF AuditInv
<1>1. UNCHANGED owed => (owed \in RepoPlans /\ Audit!plan_findings(owed) = {})'
  BY <1>0
<1>2. ASSUME UNCHANGED owed, (written \in PullBodies)', GradesFit', verdicts = Audit!NoVerdict, UNCHANGED verdicts PROVE AuditInv'
  <2>1. verdicts'.audit # "passes" /\ verdicts'.trace # "passes" /\ verdicts' \in AuditVerdicts
    BY <1>0, <1>2 DEF Audit!NoVerdict
  <2> QED
    BY <1>1, <1>2, <2>1 DEF AuditInv
<1>3. CASE Audit!plan_of
  <2>1. cuts = Audit!Unplanned /\ UNCHANGED <<owed, shelf, written, rewrites, graded, verdicts>>
    BY <1>3, Zenon DEF Audit!plan_of
  <2>2. ~AuditPassed
    BY <2>1 DEF AuditPassed, Audit!Ungraded
  <2>3. GradesFit'
    BY <1>0, <2>1 DEF GradesFit
  <2>4. CoveragePassed' = CoveragePassed
    BY <2>1 DEF CoveragePassed
  <2>5. verdicts'.audit # "passes" /\ (verdicts'.trace = "passes" => CoveragePassed') /\ verdicts' \in AuditVerdicts
    BY <1>0, <2>1, <2>2, <2>4
  <2>6. (written \in PullBodies)'
    BY <1>0, <2>1
  <2> QED
    BY <1>1, <2>1, <2>3, <2>5, <2>6 DEF AuditInv
<1>4. CASE Audit!EditBody
  <2>1. verdicts = Audit!NoVerdict /\ (written \in PullBodies)' /\ UNCHANGED <<owed, shelf, cuts, graded, verdicts>>
    BY <1>4 DEF Audit!EditBody
  <2>2. GradesFit'
    BY <1>0, <2>1 DEF GradesFit
  <2> QED
    BY <1>2, <2>1, <2>2
<1>5. CASE Audit!Amend
  <2>1. verdicts = Audit!NoVerdict /\ UNCHANGED <<owed, written, rewrites, cuts, graded, verdicts>>
    BY <1>5, Zenon DEF Audit!Amend
  <2>2. GradesFit'
    BY <1>0, <2>1 DEF GradesFit
  <2> QED
    BY <1>0, <1>2, <2>1, <2>2
<1>6. ASSUME NEW k, Audit!grade(k) PROVE AuditInv'
  <2>1. PICK output \in [cuts[k] -> Outputs], error \in BOOLEAN :
          graded' = [j \in DOMAIN graded \cup {k} |-> IF j = k THEN [error |-> error, output |-> output] ELSE graded[j]]
    BY <1>6 DEF Audit!grade
  <2>2. /\ cuts # Audit!Unplanned /\ k \in DOMAIN cuts /\ verdicts = Audit!NoVerdict
        /\ UNCHANGED <<owed, shelf, written, rewrites, cuts, verdicts>>
    BY <1>6 DEF Audit!grade
  <2>3. GradesFit'
    <3>1. DOMAIN graded' = DOMAIN graded \cup {k}
      BY <2>1
    <3>2. graded'[k].output = output
      BY <2>1
    <3>3. \A j \in DOMAIN graded \ {k} : graded'[j] = graded[j]
      BY <2>1
    <3>4. \A j \in DOMAIN graded' : j \in DOMAIN cuts /\ graded'[j].output \in [cuts[j] -> Outputs]
      BY <1>0, <2>2, <3>1, <3>2, <3>3 DEF GradesFit
    <3> QED
      BY <2>2, <3>4 DEF GradesFit, Audit!Unplanned
  <2>4. (written \in PullBodies)'
    BY <1>0, <2>2
  <2> QED
    BY <1>2, <2>2, <2>3, <2>4
<1>7. CASE Audit!proof_audit
  <2> DEFINE said == CASE Audit!Unreadable -> "cannot run"
                       [] ~Audit!Unreadable /\ Audit!Owed = {} -> IF Audit!unlinked(written, TRUE) THEN "fails" ELSE "nothing owed"
                       [] OTHER -> IF Audit!Ungraded THEN "cannot run"
                                   ELSE IF \E r \in Audit!Owed : Audit!verdict(r) = "UNPROVEN" THEN "fails" ELSE "passes"
  <2>1. verdicts' = [verdicts EXCEPT !.audit = said] /\ UNCHANGED <<owed, shelf, written, rewrites, cuts, graded>>
    BY <1>7, Zenon DEF Audit!proof_audit
  <2>2. /\ said \in {"cannot run", "fails", "nothing owed", "passes"}
        /\ said = "passes" => AuditPassed
    <3>1. CASE Audit!Unreadable
      BY <3>1
    <3>2. CASE ~Audit!Unreadable /\ Audit!Owed = {}
      BY <3>2
    <3>3. CASE ~Audit!Unreadable /\ Audit!Owed # {}
      <4>1. said = IF Audit!Ungraded THEN "cannot run"
                   ELSE IF \E r \in Audit!Owed : Audit!verdict(r) = "UNPROVEN" THEN "fails" ELSE "passes"
        BY <3>3
      <4> QED
        BY <3>3, <4>1 DEF AuditPassed
    <3> QED
      BY <3>1, <3>2, <3>3
  <2> HIDE DEF said
  <2>3. verdicts' \in AuditVerdicts /\ verdicts'.audit = said /\ verdicts'.trace = verdicts.trace
    BY <1>0, <2>1, <2>2 DEF AuditVerdicts
  <2>4. AuditPassed' = AuditPassed /\ CoveragePassed' = CoveragePassed /\ GradesFit' = GradesFit
    BY <2>1, JudgedStays
  <2>5. (written \in PullBodies)'
    BY <1>0, <2>1
  <2> QED
    BY <1>0, <1>1, <2>1, <2>2, <2>3, <2>4, <2>5 DEF AuditInv
<1>8. CASE Audit!ticket_coverage
  <2> DEFINE said == IF Audit!body_findings(owed, HeadPaths, written) = {} THEN "passes" ELSE "fails"
  <2>1. verdicts' = [verdicts EXCEPT !.trace = said] /\ UNCHANGED <<owed, shelf, written, rewrites, cuts, graded>>
    BY <1>8, Zenon DEF Audit!ticket_coverage
  <2>2. said \in {"fails", "passes"} /\ (said = "passes" => CoveragePassed)
    BY DEF CoveragePassed
  <2> HIDE DEF said
  <2>3. verdicts' \in AuditVerdicts /\ verdicts'.trace = said /\ verdicts'.audit = verdicts.audit
    BY <1>0, <2>1, <2>2 DEF AuditVerdicts
  <2>4. AuditPassed' = AuditPassed /\ CoveragePassed' = CoveragePassed /\ GradesFit' = GradesFit
    BY <2>1, JudgedStays
  <2>5. (written \in PullBodies)'
    BY <1>0, <2>1
  <2> QED
    BY <1>0, <1>1, <2>1, <2>2, <2>3, <2>4, <2>5 DEF AuditInv
<1>9. CASE UNCHANGED Audit!auditVars
  <2>1. UNCHANGED <<owed, shelf, written, rewrites, cuts, graded, verdicts>>
    BY <1>9 DEF Audit!auditVars
  <2>2. AuditPassed' = AuditPassed /\ CoveragePassed' = CoveragePassed /\ GradesFit' = GradesFit
    BY <2>1, JudgedStays
  <2>3. (written \in PullBodies)' /\ UNCHANGED verdicts
    BY <1>0, <2>1
  <2> QED
    BY <1>0, <1>1, <2>1, <2>2, <2>3 DEF AuditInv
<1> QED
  BY <1>3, <1>4, <1>5, <1>6, <1>7, <1>8, <1>9 DEF Audit!Next

\* A requirement the audit let pass was graded in its shard, by quotes that are there or by an owner that took it.
LEMMA GradedWell ==
  ASSUME AuditInv, AuditPassed, NEW r \in Audit!Owed, r \notin Audit!Split
  PROVE  \E k \in DOMAIN graded :
           /\ r \in DOMAIN graded[k].output /\ ~graded[k].error
           /\ \E g \in Audit!Range(graded[k].output[r]) :
                \/ g.status = "PROVEN" /\ g.quotes # {} /\ \A q \in g.quotes : Audit!Real(q)
                \/ g.status = "EXCLUDED" /\ Audit!Taken(r) /\ r \notin Audit!FromStore
<1>1. /\ DOMAIN graded = DOMAIN cuts /\ \A k \in DOMAIN graded : ~graded[k].error
      /\ UNION Audit!Range(cuts) = Audit!Owed \ Audit!Split
  BY DEF AuditPassed, Audit!Ungraded
<1>2. \E k \in DOMAIN cuts : r \in cuts[k]
  BY <1>1 DEF Audit!Range
<1> DEFINE k == CHOOSE j \in DOMAIN cuts : r \in cuts[j]
           grades == graded[k].output[r]
           g == grades[1]
<1>3. k \in DOMAIN cuts /\ r \in cuts[k]
  BY <1>2
<1>4. Audit!Grades[r] = grades
  <2>1. r \in UNION Audit!Range(cuts)
    BY <1>1
  <2> QED
    BY <2>1, Zenon DEF Audit!Grades
<1> HIDE DEF k
<1>5. k \in DOMAIN graded /\ graded[k].output \in [cuts[k] -> Outputs]
  BY <1>1, <1>3 DEF AuditInv, GradesFit
<1>6. r \in DOMAIN graded[k].output /\ grades \in Outputs
  BY <1>3, <1>5
<1>7. Audit!verdict(r) # "UNPROVEN"
  BY DEF AuditPassed
<1>8. Len(grades) = 1
  BY <1>4, <1>7 DEF Audit!verdict
<1>9. g \in Audit!Range(grades)
  <2> DEFINE Shape == [status : STRING, quotes : SUBSET [title : STRING, line : Int, text : STRING], owner : STRING]
  <2>1. Outputs \subseteq Seq(Shape)
    BY AuditAssumption
  <2> HIDE DEF Shape, grades
  <2>2. DOMAIN grades = 1..Len(grades)
    BY <1>6, <2>1, ElementsOf
  <2> QED
    BY <1>8, <2>2 DEF Audit!Range
<1>10. \/ g.status = "PROVEN" /\ ~Audit!proven_problem(g)
       \/ g.status = "EXCLUDED" /\ ~Audit!excluded_problem(r, g)
  <2> HIDE DEF grades
  <2> QED
    BY <1>4, <1>7, <1>8 DEF Audit!verdict
<1> HIDE DEF grades, g
<1>11. CASE g.status = "PROVEN" /\ ~Audit!proven_problem(g)
  <2>1. g.quotes # {} /\ \A q \in g.quotes : ~Audit!proof_problem(q)
    BY <1>11 DEF Audit!proven_problem
  <2>2. \A q \in g.quotes : Audit!Real(q)
    BY <2>1, QuoteIsReal
  <2> QED
    BY <1>1, <1>5, <1>6, <1>9, <1>11, <2>1, <2>2 DEF grades
<1>12. CASE g.status = "EXCLUDED" /\ ~Audit!excluded_problem(r, g)
  <2>1. r \notin Audit!FromStore /\ Audit!Taken(r)
    BY <1>12 DEF Audit!excluded_problem, Audit!Taken
  <2> QED
    BY <1>1, <1>5, <1>6, <1>9, <1>12, <2>1 DEF grades
<1> QED
  BY <1>10, <1>11, <1>12

\* An item of a linked section that ticket-coverage let pass has a proof at the head, or a section took it.
LEMMA TracedWell ==
  ASSUME AuditInv, CoveragePassed, NEW s \in written.links, NEW i \in DOMAIN owed[s].reqs
  PROVE  LET r == owed[s].reqs[i] IN
         (\E c \in written.claims : c.id = r /\ c.kind = "proof" /\ c.value \in HeadPaths) \/ Audit!Taken(r)
<1> DEFINE r == owed[s].reqs[i]
<1>1. owed \in RepoPlans /\ written \in PullBodies /\ Audit!plan_findings(owed) = {}
  BY DEF AuditInv
<1>2. s \in DOMAIN owed /\ \A c \in written.claims : c.kind = "proof" \/ c.value \in DOMAIN owed
  BY <1>1, AuditAssumption
<1>3. r \in Audit!Range(owed[s].reqs)
  BY DEF Audit!Range
<1> HIDE DEF r
<1>4. r # <<>>
  <2>1. r \notin Audit!requirement_findings(owed, s)
    BY <1>1, <1>2 DEF Audit!plan_findings
  <2> QED
    BY <1>3, <2>1 DEF Audit!requirement_findings
<1>5. r \in Audit!linked_requirements(owed, written)
  BY <1>3, <1>4 DEF Audit!linked_requirements, Audit!Requires
<1>6. PICK c \in written.claims : c.id = r /\ ~Audit!claim_problem(owed, HeadPaths, c)
  BY <1>5 DEF CoveragePassed, Audit!body_findings
<1>7. CASE c.kind = "proof"
  BY <1>6, <1>7 DEF Audit!claim_problem, r
<1>8. CASE c.kind # "proof"
  <2>1. c.value \in DOMAIN owed /\ r \in owed[c.value].takes
    BY <1>2, <1>6, <1>8 DEF Audit!claim_problem
  <2> QED
    BY <2>1, <1>6 DEF Audit!Taken, r
<1> QED
  BY <1>6, <1>7, <1>8 DEF r

\* Nothing a pull request owes is dropped on the way to a pass of both gates (proof_audit.py, graded, verdict;
\* ticket_coverage.py, body_findings): for any plans, bodies, test files and shards, whatever the model says
\* and however the body and the stored plan change meanwhile.
THEOREM PassesAreEarned == Audit!Spec => []NothingDropped
<1>1. AuditInv => NothingDropped
  <2> SUFFICES ASSUME AuditInv, verdicts.audit = "passes", verdicts.trace = "passes"
               PROVE  Audit!NothingDropped
    BY DEF NothingDropped, Audit!NothingDropped
  <2>1. AuditPassed /\ CoveragePassed
    BY DEF AuditInv
  <2>2. \A s \in written.links : \A i \in DOMAIN owed[s].reqs :
          LET r == owed[s].reqs[i]
          IN  (\E c \in written.claims : c.id = r /\ c.kind = "proof" /\ c.value \in HeadPaths) \/ Audit!Taken(r)
    BY <2>1, TracedWell
  <2>3. ~Audit!split_problem(written, Audit!Owed, Audit!FromStore) /\ Audit!Owed # {}
    BY <2>1 DEF AuditPassed, Audit!Unreadable
  <2>4. Audit!Owed \ Audit!Split # {}
    BY <2>3 DEF Audit!split_problem, Audit!Split
  <2>5. ASSUME NEW r \in Audit!Owed, r \in Audit!Split
        PROVE  r \in Audit!FromStore /\ \A l \in Audit!Range(written.splits) : l.owner # "itself"
    BY <2>3, <2>5 DEF Audit!split_problem, Audit!Split, Audit!split_offs
  <2>6. ASSUME NEW r \in Audit!Owed, r \notin Audit!Split
        PROVE  \E k \in DOMAIN graded :
                 /\ r \in DOMAIN graded[k].output /\ ~graded[k].error
                 /\ \E g \in Audit!Range(graded[k].output[r]) :
                      \/ g.status = "PROVEN" /\ g.quotes # {} /\ \A q \in g.quotes : Audit!Real(q)
                      \/ g.status = "EXCLUDED" /\ Audit!Taken(r) /\ r \notin Audit!FromStore
    BY <2>1, <2>6, GradedWell
  <2> QED
    BY <2>2, <2>4, <2>5, <2>6 DEF Audit!NothingDropped
<1> QED
  BY <1>1, AuditStarts, AuditKeeps, PTL DEF Audit!Spec

----------------------------------------------------------------------------
(* Sums over the places of a sequence *)

\* The sums of the first so many, and the whole sum.
Sums(f, x, n) == f = [k \in 0..n |-> IF k = 0 THEN 0 ELSE f[k - 1] + x[k]]
Summing(x, n) == CHOOSE f : Sums(f, x, n)

\* Summing is a function of such sums.
LEMMA SummingSums ==
  ASSUME NEW x, NEW n \in Nat
  PROVE  Sums(Summing(x, n), x, n)
<1> DEFINE M == {k \in Nat : \E f : Sums(f, x, k)}
<1>1. 0 \in M
  <2> DEFINE f == [k \in 0..0 |-> 0]
  <2>1. f = [k \in 0..0 |-> IF k = 0 THEN 0 ELSE f[k - 1] + x[k]]
    OBVIOUS
  <2> HIDE DEF f
  <2> QED
    BY <2>1 DEF Sums
<1>2. ASSUME NEW m \in Nat, m \in M PROVE m + 1 \in M
  <2>1. PICK f : Sums(f, x, m)
    BY <1>2
  <2> DEFINE g == [k \in 0..(m + 1) |-> IF k = 0 THEN 0 ELSE f[k - 1] + x[k]]
  <2>2. ASSUME NEW k \in 0..m PROVE g[k] = f[k]
    <3>1. f[k] = IF k = 0 THEN 0 ELSE f[k - 1] + x[k]
      BY <2>1, Zenon DEF Sums
    <3>2. k \in 0..(m + 1)
      OBVIOUS
    <3> QED
      BY <3>1, <3>2, Zenon
  <2>3. ASSUME NEW k \in 0..(m + 1), k # 0 PROVE f[k - 1] = g[k - 1]
    <3>1. k - 1 \in 0..m
      BY <2>3
    <3> HIDE DEF g
    <3> QED
      BY <2>2, <3>1
  <2>4. g = [k \in 0..(m + 1) |-> IF k = 0 THEN 0 ELSE g[k - 1] + x[k]]
    <3> DEFINE h == [k \in 0..(m + 1) |-> IF k = 0 THEN 0 ELSE g[k - 1] + x[k]]
    <3>1. ASSUME NEW k \in 0..(m + 1) PROVE g[k] = h[k]
      <4>1. CASE k = 0
        BY <4>1
      <4>2. CASE k # 0
        <5>1. f[k - 1] = g[k - 1]
          BY <2>3, <4>2
        <5>2. g[k] = f[k - 1] + x[k]
          BY <4>2, Zenon
        <5>3. h[k] = g[k - 1] + x[k]
          BY <4>2, Zenon
        <5> QED
          BY <5>1, <5>2, <5>3, Zenon
      <4> QED
        BY <4>1, <4>2
    <3>2. DOMAIN g = 0..(m + 1) /\ DOMAIN h = 0..(m + 1)
      OBVIOUS
    <3>3. g = [k \in 0..(m + 1) |-> g[k]] /\ h = [k \in 0..(m + 1) |-> h[k]]
      OBVIOUS
    <3> HIDE DEF g, h
    <3>4. g = h
      BY <3>1, <3>3
    <3> QED
      BY <3>4 DEF h
  <2>5. Sums(g, x, m + 1)
    <3> HIDE DEF g
    <3> QED
      BY <2>4 DEF Sums
  <2> HIDE DEF g
  <2> QED
    BY <2>5
<1> HIDE DEF M
<1>3. n \in M
  BY <1>1, <1>2, Counting
<1>4. \E f : Sums(f, x, n)
  BY <1>3 DEF M
<1> QED
  BY <1>4 DEF Summing

\* The whole sum of integers is an integer; one of nothing is none.
LEMMA SumTypes ==
  ASSUME NEW n \in Nat, NEW x \in [1..n -> Int]
  PROVE  /\ Summing(x, n)[0] = 0
         /\ \A k \in 1..n : Summing(x, n)[k] = Summing(x, n)[k - 1] + x[k]
         /\ \A k \in 0..n : Summing(x, n)[k] \in Int
<1> DEFINE f == Summing(x, n)
<1>0. f = [k \in 0..n |-> IF k = 0 THEN 0 ELSE f[k - 1] + x[k]]
  BY SummingSums DEF Sums
<1> HIDE DEF f
<1>1. f[0] = 0
  <2>1. 0 \in 0..n
    OBVIOUS
  <2> QED
    BY <1>0, <2>1, Zenon
<1>2. ASSUME NEW k \in 1..n PROVE f[k] = f[k - 1] + x[k]
  <2>1. k \in 0..n /\ k # 0
    OBVIOUS
  <2> QED
    BY <1>0, <2>1, Zenon
<1>3. ASSUME NEW k \in 0..n PROVE f[k] \in Int
  <2> DEFINE M == {m \in Nat : m <= n => f[m] \in Int}
  <2>1. 0 \in M
    BY <1>1
  <2>2. ASSUME NEW m \in Nat, m \in M PROVE m + 1 \in M
    <3> SUFFICES ASSUME m + 1 <= n PROVE f[m + 1] \in Int
      OBVIOUS
    <3>1. m + 1 \in 1..n /\ m + 1 - 1 = m
      OBVIOUS
    <3>2. f[m + 1] = f[m] + x[m + 1]
      BY <1>2, <3>1
    <3>3. f[m] \in Int /\ x[m + 1] \in Int
      BY <2>2, <3>1
    <3> QED
      BY <3>2, <3>3
  <2> HIDE DEF M
  <2>3. k \in M
    <3>1. k \in Nat
      OBVIOUS
    <3> QED
      BY <2>1, <2>2, <3>1, Counting
  <2> QED
    BY <2>3 DEF M
<1> QED
  BY <1>1, <1>2, <1>3 DEF f

\* Two sums whose terms differ at one place (none, where the place is past the end) differ by as much.
LEMMA SumsDiffer ==
  ASSUME NEW n \in Nat, NEW x \in [1..n -> Int], NEW y \in [1..n -> Int], NEW at \in 1..(n + 1), NEW d \in Int,
         \A k \in 1..n : y[k] = x[k] + (IF k = at THEN d ELSE 0)
  PROVE  Summing(y, n)[n] = Summing(x, n)[n] + (IF at = n + 1 THEN 0 ELSE d)
<1> DEFINE f == Summing(x, n)
           g == Summing(y, n)
<1>1. /\ f[0] = 0 /\ g[0] = 0
      /\ \A k \in 1..n : f[k] = f[k - 1] + x[k] /\ g[k] = g[k - 1] + y[k]
      /\ \A k \in 0..n : f[k] \in Int /\ g[k] \in Int
  BY SumTypes
<1> HIDE DEF f, g
<1> DEFINE M == {m \in Nat : m <= n => g[m] = f[m] + (IF at <= m THEN d ELSE 0)}
<1>2. 0 \in M
  BY <1>1
<1>3. ASSUME NEW m \in Nat, m \in M PROVE m + 1 \in M
  <2> SUFFICES ASSUME m + 1 <= n PROVE g[m + 1] = f[m + 1] + (IF at <= m + 1 THEN d ELSE 0)
    OBVIOUS
  <2>1. m + 1 \in 1..n /\ m + 1 - 1 = m /\ m \in 0..n
    OBVIOUS
  <2>2. f[m + 1] = f[m] + x[m + 1] /\ g[m + 1] = g[m] + y[m + 1]
    BY <1>1, <2>1
  <2>3. g[m] = f[m] + (IF at <= m THEN d ELSE 0)
    BY <1>3, <2>1
  <2>4. y[m + 1] = x[m + 1] + (IF m + 1 = at THEN d ELSE 0)
    BY <2>1
  <2>5. f[m] \in Int /\ g[m] \in Int /\ x[m + 1] \in Int /\ y[m + 1] \in Int
    BY <1>1, <2>1
  <2> QED
    BY <2>2, <2>3, <2>4, <2>5
<1> HIDE DEF M
<1>4. n \in M
  BY <1>2, <1>3, Counting
<1> QED
  BY <1>4 DEF M, f, g

----------------------------------------------------------------------------
(* Where the lines of a source file are at the head *)

\* What a hunk of the diff adds before line i, less what of the lines before i it removes.
Least(a, b) == IF a < b THEN a ELSE b
Moves(h, i) == IF h.start < i THEN h.added - Least(h.removed, i - h.start) ELSE 0
Shifting(i) == [k \in 1..Len(patch.hunks) |-> Moves(patch.hunks[k], i)]

\* Where line i is, or where what comes instead begins.
Position(i) == i + Summing(Shifting(i), Len(patch.hunks))[Len(patch.hunks)]

\* Hunk k begins at line i or removes it.
Touches(k, i) == patch.hunks[k].start = i \/ (patch.hunks[k].start <= i /\ i < patch.hunks[k].start + patch.hunks[k].removed)

\* The hunks' types and order, with the places as numbers.
LEMMA HunksInOrder ==
  ASSUME patch \in Patches
  PROVE  /\ Len(patch.hunks) \in Nat /\ DOMAIN patch.hunks = 1..Len(patch.hunks)
         /\ \A k \in 1..Len(patch.hunks) :
              /\ patch.hunks[k].start \in Nat /\ patch.hunks[k].removed \in Nat /\ patch.hunks[k].added \in Nat
              /\ patch.hunks[k].removed > 0 => patch.hunks[k].start > 0
         /\ \A k, l \in 1..Len(patch.hunks) :
              k < l => /\ patch.hunks[k].start < patch.hunks[l].start
                       /\ patch.hunks[k].start + patch.hunks[k].removed <= patch.hunks[l].start
<1> DEFINE Hunk == [start : Nat, removed : Nat, added : Nat]
<1>1. patch.hunks \in Seq(Hunk)
  BY CoverageAssumption
<1>2. Len(patch.hunks) \in Nat /\ DOMAIN patch.hunks = 1..Len(patch.hunks)
      /\ \A k \in DOMAIN patch.hunks : patch.hunks[k] \in Hunk
  <2> HIDE DEF Hunk
  <2> QED
    BY <1>1, ElementsOf
<1> QED
  BY <1>2, CoverageAssumption

\* At most one hunk begins at a line or removes it.
LEMMA OneTouches ==
  ASSUME patch \in Patches, NEW i \in Nat, NEW k \in 1..Len(patch.hunks), NEW l \in 1..Len(patch.hunks),
         Touches(k, i), Touches(l, i)
  PROVE  k = l
<1>1. ASSUME NEW a \in 1..Len(patch.hunks), NEW b \in 1..Len(patch.hunks), a < b, Touches(a, i), Touches(b, i) PROVE FALSE
  <2> DEFINE m == patch.hunks[a].start
             n == patch.hunks[a].removed
             p == patch.hunks[b].start
             q == patch.hunks[b].removed
  <2>1. m \in Nat /\ n \in Nat /\ p \in Nat /\ q \in Nat
    BY HunksInOrder
  <2>2. m < p /\ m + n <= p
    BY <1>1, HunksInOrder
  <2>3. (m = i \/ (m <= i /\ i < m + n)) /\ (p = i \/ (p <= i /\ i < p + q))
    BY <1>1 DEF Touches
  <2> HIDE DEF m, n, p, q
  <2> QED
    BY <2>1, <2>2, <2>3
<1>2. Len(patch.hunks) \in Nat
  BY HunksInOrder
<1> QED
  BY <1>1, <1>2

\* A hunk that does not touch line i moves the line after it as it moves it.
LEMMA MovesAlike ==
  ASSUME patch \in Patches, NEW i \in Nat, NEW k \in 1..Len(patch.hunks)
  PROVE  /\ Shifting(i)[k] \in Int /\ Shifting(i)[k] = Moves(patch.hunks[k], i)
         /\ ~Touches(k, i) => Moves(patch.hunks[k], i + 1) = Moves(patch.hunks[k], i)
         /\ patch.hunks[k].start = i =>
              /\ Moves(patch.hunks[k], i) = 0
              /\ Moves(patch.hunks[k], i + 1) = patch.hunks[k].added - (IF patch.hunks[k].removed > 0 THEN 1 ELSE 0)
         /\ Touches(k, i) /\ patch.hunks[k].start # i =>
              Moves(patch.hunks[k], i + 1) = Moves(patch.hunks[k], i) - 1
<1> DEFINE start == patch.hunks[k].start
           removed == patch.hunks[k].removed
           added == patch.hunks[k].added
           before == Moves(patch.hunks[k], i)
           after == Moves(patch.hunks[k], i + 1)
<1>1. start \in Nat /\ removed \in Nat /\ added \in Nat
  BY HunksInOrder
<1>2. Shifting(i)[k] = before
  BY Zenon DEF Shifting
<1>3. /\ before = IF start < i THEN added - Least(removed, i - start) ELSE 0
      /\ after = IF start < i + 1 THEN added - Least(removed, (i + 1) - start) ELSE 0
  <2>1. \A j \in Nat : Moves(patch.hunks[k], j) = IF start < j THEN added - Least(removed, j - start) ELSE 0
    BY DEF Moves
  <2>2. i + 1 \in Nat
    OBVIOUS
  <2> HIDE DEF start, removed, added
  <2>3. before = IF start < i THEN added - Least(removed, i - start) ELSE 0
    BY <2>1, Zenon
  <2>4. after = IF start < i + 1 THEN added - Least(removed, (i + 1) - start) ELSE 0
    BY <2>1, <2>2, Zenon
  <2> HIDE DEF before, after
  <2> QED
    BY <2>3, <2>4
<1>4. Touches(k, i) <=> start = i \/ (start <= i /\ i < start + removed)
  BY DEF Touches
<1> HIDE DEF start, removed, added, before, after
<1>5. before \in Int
  <2>1. Least(removed, i - start) \in Int
    BY <1>1 DEF Least
  <2> QED
    BY <1>1, <1>3, <2>1
<1>6. ASSUME ~Touches(k, i) PROVE after = before
  <2>1. start > i \/ (start < i /\ start + removed <= i)
    BY <1>1, <1>4, <1>6
  <2>2. CASE start > i
    BY <1>1, <1>3, <2>2
  <2>3. CASE start < i /\ start + removed <= i
    <3>1. Least(removed, i - start) = removed /\ Least(removed, (i + 1) - start) = removed
      BY <1>1, <2>3 DEF Least
    <3> QED
      BY <1>1, <1>3, <2>3, <3>1
  <2> QED
    BY <2>1, <2>2, <2>3
<1>7. ASSUME start = i PROVE before = 0 /\ after = added - (IF removed > 0 THEN 1 ELSE 0)
  <2>1. Least(removed, (i + 1) - start) = IF removed > 0 THEN 1 ELSE 0
    BY <1>1, <1>7 DEF Least
  <2> QED
    BY <1>1, <1>3, <1>7, <2>1
<1>8. ASSUME Touches(k, i), start # i PROVE after = before - 1
  <2>1. start < i /\ i < start + removed
    BY <1>1, <1>4, <1>8
  <2>2. Least(removed, i - start) = i - start /\ Least(removed, (i + 1) - start) = (i + 1) - start
    BY <1>1, <2>1 DEF Least
  <2> QED
    BY <1>1, <1>3, <2>1, <2>2
<1> QED
  BY <1>2, <1>5, <1>6, <1>7, <1>8 DEF start, removed, added, before, after

\* A position is a number; the first line's is after what a hunk at the start adds.
LEMMA PositionTypes ==
  ASSUME patch \in Patches, NEW i \in Nat
  PROVE  Position(i) \in Int
<1> DEFINE m == Len(patch.hunks)
<1>1. m \in Nat
  BY HunksInOrder
<1>2. \A k \in 1..m : Moves(patch.hunks[k], i) \in Int
  BY MovesAlike
<1>3. Shifting(i) \in [1..m -> Int]
  BY <1>2 DEF Shifting
<1>4. m \in 0..m
  BY <1>1
<1> HIDE DEF m
<1>5. Summing(Shifting(i), m)[m] \in Int
  BY <1>1, <1>3, <1>4, SumTypes
<1> QED
  BY <1>5 DEF Position, m

\* Line i of the head's file: where nothing touches it, itself, and what a hunk that begins there adds.
LEMMA PieceFits ==
  ASSUME patch \in Patches, NEW i \in Nat
  PROVE  /\ Cover!Piece(i) \in Seq(Nat)
         /\ \A j \in 1..Len(Cover!Piece(i)) : Cover!Piece(i)[j] = IF j = 1 /\ i > 0 /\ ~Cover!Gone(i) THEN i ELSE 0
         /\ i > 0 /\ ~Cover!Gone(i) => Len(Cover!Piece(i)) > 0
         /\ Position(i + 1) = Position(i) + Len(Cover!Piece(i)) + (IF i = 0 THEN 1 ELSE 0)
<1> DEFINE m == Len(patch.hunks)
           starting == {h \in Cover!Range(patch.hunks) : h.start = i /\ h.added > 0}
           size == (CHOOSE h \in starting : TRUE).added
           new == IF starting = {} THEN <<>> ELSE [j \in 1..size |-> 0]
<1>1. /\ m \in Nat /\ DOMAIN patch.hunks = 1..m
      /\ \A k \in 1..m : patch.hunks[k].start \in Nat /\ patch.hunks[k].removed \in Nat /\ patch.hunks[k].added \in Nat
      /\ \A k \in 1..m : patch.hunks[k].removed > 0 => patch.hunks[k].start > 0
  BY HunksInOrder
<1>2. Cover!Piece(i) = IF i = 0 \/ Cover!Gone(i) THEN new ELSE <<i>> \o new
  BY Zenon DEF Cover!Piece
<1>3. starting = {patch.hunks[k] : k \in {l \in 1..m : patch.hunks[l].start = i /\ patch.hunks[l].added > 0}}
  BY <1>1 DEF Cover!Range
<1>4. Cover!Gone(i) <=> \E k \in 1..m : patch.hunks[k].start <= i /\ i < patch.hunks[k].start + patch.hunks[k].removed
  BY <1>1 DEF Cover!Gone, Cover!Range
<1> HIDE DEF starting, m
\* How much the piece adds, and how much it moves what follows.
<1> DEFINE gained == Len(new) - (IF Cover!Gone(i) THEN 1 ELSE 0)
           Right == /\ new \in Seq(Nat) /\ \A j \in 1..Len(new) : new[j] = 0
                    /\ Position(i + 1) = Position(i) + gained + 1
                    /\ i = 0 => ~Cover!Gone(i)
<1>5. Right
  <2>0. /\ Shifting(i) \in [1..m -> Int] /\ Shifting(i + 1) \in [1..m -> Int]
        /\ \A k \in 1..m : Shifting(i)[k] = Moves(patch.hunks[k], i) /\ Shifting(i + 1)[k] = Moves(patch.hunks[k], i + 1)
    <3>1. ASSUME NEW n \in Nat PROVE Shifting(n) \in [1..m -> Int] /\ \A k \in 1..m : Shifting(n)[k] = Moves(patch.hunks[k], n)
      <4>1. \A k \in 1..m : Shifting(n)[k] \in Int /\ Shifting(n)[k] = Moves(patch.hunks[k], n)
        BY MovesAlike DEF m
      <4>2. Shifting(n) = [k \in 1..m |-> Moves(patch.hunks[k], n)]
        BY DEF Shifting, m
      <4>3. \A k \in 1..m : Moves(patch.hunks[k], n) \in Int
        BY <4>1
      <4> QED
        BY <4>1, <4>2, <4>3
    <3>2. i + 1 \in Nat
      OBVIOUS
    <3> QED
      BY <3>1, <3>2
  <2>1. /\ Position(i) = i + Summing(Shifting(i), m)[m] /\ Position(i + 1) = i + 1 + Summing(Shifting(i + 1), m)[m]
        /\ Summing(Shifting(i), m)[m] \in Int /\ Summing(Shifting(i + 1), m)[m] \in Int
    <3>1. m \in 0..m
      BY <1>1
    <3>2. Summing(Shifting(i), m)[m] \in Int /\ Summing(Shifting(i + 1), m)[m] \in Int
      BY <1>1, <2>0, <3>1, SumTypes
    <3> QED
      BY <3>2 DEF Position, m
  <2>2. CASE \A k \in 1..m : ~Touches(k, i)
    <3>1. starting = {} /\ ~Cover!Gone(i)
      BY <1>3, <1>4, <2>2 DEF Touches
    <3>2. new = <<>> /\ gained = 0
      BY <3>1
    <3>3. \A k \in 1..m : Shifting(i + 1)[k] = Shifting(i)[k] + (IF k = m + 1 THEN 0 ELSE 0)
      <4> SUFFICES ASSUME NEW k \in 1..m PROVE Shifting(i + 1)[k] = Shifting(i)[k] + 0
        OBVIOUS
      <4>1. Moves(patch.hunks[k], i + 1) = Moves(patch.hunks[k], i) /\ Shifting(i)[k] \in Int
        BY <2>2, MovesAlike DEF m
      <4> QED
        BY <2>0, <4>1
    <3>4. Summing(Shifting(i + 1), m)[m] = Summing(Shifting(i), m)[m]
      <4>1. m + 1 \in 1..(m + 1) /\ 0 \in Int
        BY <1>1
      <4>2. Summing(Shifting(i + 1), m)[m] = Summing(Shifting(i), m)[m] + (IF m + 1 = m + 1 THEN 0 ELSE 0)
        BY <1>1, <2>0, <3>3, <4>1, SumsDiffer
      <4> QED
        BY <2>1, <4>2
    <3> HIDE DEF new, gained
    <3>5. new \in Seq(Nat) /\ Len(new) = 0
      BY <3>2
    <3> QED
      BY <2>1, <3>1, <3>2, <3>4, <3>5
  <2>3. ASSUME NEW a \in 1..m, Touches(a, i) PROVE Right
    <3> DEFINE d == Moves(patch.hunks[a], i + 1) - Moves(patch.hunks[a], i)
    <3>0. \A k \in 1..m : k # a => ~Touches(k, i)
      BY <2>3, OneTouches DEF m
    <3>1. Moves(patch.hunks[a], i) \in Int /\ Moves(patch.hunks[a], i + 1) \in Int
      <4>1. Shifting(i)[a] \in Int /\ Shifting(i + 1)[a] \in Int
        BY <2>0
      <4> QED
        BY <2>0, <4>1
    <3>2. Summing(Shifting(i + 1), m)[m] = Summing(Shifting(i), m)[m] + d
      <4>1. \A k \in 1..m : Shifting(i + 1)[k] = Shifting(i)[k] + (IF k = a THEN d ELSE 0)
        <5> SUFFICES ASSUME NEW k \in 1..m PROVE Shifting(i + 1)[k] = Shifting(i)[k] + (IF k = a THEN d ELSE 0)
          OBVIOUS
        <5>1. CASE k = a
          BY <2>0, <3>1, <5>1
        <5>2. CASE k # a
          <6>1. Moves(patch.hunks[k], i + 1) = Moves(patch.hunks[k], i) /\ Shifting(i)[k] \in Int
            BY <3>0, <5>2, MovesAlike DEF m
          <6> QED
            BY <2>0, <5>2, <6>1
        <5> QED
          BY <5>1, <5>2
      <4>2. d \in Int /\ a \in 1..(m + 1) /\ a # m + 1
        BY <1>1, <3>1
      <4> HIDE DEF d
      <4>3. Summing(Shifting(i + 1), m)[m] = Summing(Shifting(i), m)[m] + (IF a = m + 1 THEN 0 ELSE d)
        BY <1>1, <2>0, <4>1, <4>2, SumsDiffer
      <4> QED
        BY <4>2, <4>3
    <3>3. Cover!Gone(i) <=> patch.hunks[a].start <= i /\ i < patch.hunks[a].start + patch.hunks[a].removed
      BY <1>4, <3>0 DEF Touches
    <3>4. new \in Seq(Nat) /\ (\A j \in 1..Len(new) : new[j] = 0)
          /\ Len(new) = IF patch.hunks[a].start = i THEN patch.hunks[a].added ELSE 0
      <4>0. patch.hunks[a].added \in Nat
        BY <1>1
      <4>1. CASE patch.hunks[a].start = i /\ patch.hunks[a].added > 0
        <5>1. starting = {patch.hunks[a]}
          BY <1>3, <3>0, <4>1 DEF Touches
        <5>2. size = patch.hunks[a].added
          BY <5>1
        <5> HIDE DEF size
        <5>3. new = [j \in 1..patch.hunks[a].added |-> 0]
          BY <5>1, <5>2
        <5> HIDE DEF new
        <5> QED
          BY <4>0, <4>1, <5>3
      <4>2. CASE ~(patch.hunks[a].start = i /\ patch.hunks[a].added > 0)
        <5>1. starting = {}
          BY <1>3, <3>0, <4>2 DEF Touches
        <5>2. new = <<>>
          BY <5>1
        <5> HIDE DEF new
        <5>3. new \in Seq(Nat) /\ Len(new) = 0
          BY <5>2
        <5> QED
          BY <4>0, <4>2, <5>3
      <4> QED
        BY <4>1, <4>2
    <3>5. d = gained
      <4>0. patch.hunks[a].start \in Nat /\ patch.hunks[a].removed \in Nat /\ patch.hunks[a].added \in Nat
        BY <1>1
      <4>1. CASE patch.hunks[a].start = i
        <5>1. d = patch.hunks[a].added - (IF patch.hunks[a].removed > 0 THEN 1 ELSE 0)
          <6>1. Moves(patch.hunks[a], i) = 0
                /\ Moves(patch.hunks[a], i + 1) = patch.hunks[a].added - (IF patch.hunks[a].removed > 0 THEN 1 ELSE 0)
            BY <4>1, MovesAlike DEF m
          <6> QED
            BY <4>0, <6>1
        <5>2. Cover!Gone(i) <=> patch.hunks[a].removed > 0
          BY <3>3, <4>0, <4>1
        <5> HIDE DEF d, new
        <5> QED
          BY <3>4, <4>0, <4>1, <5>1, <5>2
      <4>2. CASE patch.hunks[a].start # i
        <5>1. Moves(patch.hunks[a], i + 1) = Moves(patch.hunks[a], i) - 1
          BY <2>3, <4>2, MovesAlike DEF m
        <5>2. d = -1
          BY <3>1, <5>1
        <5>3. Cover!Gone(i)
          BY <2>3, <3>3, <4>2 DEF Touches
        <5> HIDE DEF d, new
        <5> QED
          BY <3>4, <4>2, <5>2, <5>3
      <4> QED
        BY <4>1, <4>2
    <3>6. i = 0 => ~Cover!Gone(i)
      BY <1>1, <3>3
    <3>7. d \in Int
      BY <3>1
    <3> HIDE DEF d, new, gained
    <3>8. Position(i + 1) = Position(i) + gained + 1
      <4> DEFINE s == Summing(Shifting(i), m)[m]
                 t == Summing(Shifting(i + 1), m)[m]
      <4>1. Position(i) = i + s /\ Position(i + 1) = i + 1 + t /\ s \in Int /\ t \in Int
        BY <2>1
      <4>2. t = s + d
        BY <3>2
      <4> HIDE DEF s, t
      <4> QED
        BY <3>5, <3>7, <4>1, <4>2
    <3> QED
      BY <3>4, <3>6, <3>8
  <2> QED
    BY <2>2, <2>3
<1>6. Position(i) \in Int
  BY PositionTypes
<1> HIDE DEF new
<1>7. Len(new) \in Nat
  BY <1>5
<1>8. CASE i = 0 \/ Cover!Gone(i)
  <2>1. Cover!Piece(i) = new
    BY <1>2, <1>8
  <2> QED
    BY <1>5, <1>6, <1>7, <1>8, <2>1
<1>9. CASE ~(i = 0 \/ Cover!Gone(i))
  <2>1. Cover!Piece(i) = <<i>> \o new /\ i > 0
    BY <1>2, <1>9
  <2>2. <<i>> \in Seq(Nat) /\ Len(<<i>>) = 1 /\ <<i>>[1] = i
    OBVIOUS
  <2>3. /\ <<i>> \o new \in Seq(Nat) /\ Len(<<i>> \o new) = 1 + Len(new)
        /\ \A j \in 1..(1 + Len(new)) : (<<i>> \o new)[j] = IF j <= 1 THEN <<i>>[j] ELSE new[j - 1]
    BY <1>5, <2>2, ConcatProperties
  <2>4. ASSUME NEW j \in 1..(1 + Len(new)) PROVE (<<i>> \o new)[j] = IF j = 1 THEN i ELSE 0
    <3>1. CASE j = 1
      BY <2>2, <2>3, <3>1
    <3>2. CASE j # 1
      <4>1. j - 1 \in 1..Len(new) /\ ~(j <= 1)
        BY <1>7, <3>2
      <4> QED
        BY <1>5, <2>3, <3>2, <4>1
    <3> QED
      BY <3>1, <3>2
  <2> HIDE DEF gained
  <2>5. gained = Len(new)
    BY <1>7, <1>9 DEF gained
  <2> QED
    BY <1>5, <1>6, <1>7, <1>9, <2>1, <2>3, <2>4, <2>5
<1> QED
  BY <1>8, <1>9

\* The first pieces of the head's file, up to line i of the old one: each old line left as it was is at its
\* position, and every other line is the pull request's own.
Laid(s, i) ==
  /\ s \in Seq(Nat) /\ Len(s) + 1 = Position(i)
  /\ \A a \in 1..Len(s) : s[a] # 0 => s[a] \in 1..(i - 1) /\ ~Cover!Gone(s[a]) /\ Position(s[a]) = a
  /\ \A n \in 1..(i - 1) : ~Cover!Gone(n) => Position(n) \in 1..Len(s) /\ s[Position(n)] = n

\* What is added before the first line is at the start of the file.
LEMMA FirstPiece ==
  ASSUME patch \in Patches
  PROVE  Laid(Cover!Piece(0), 1)
<1> DEFINE s == Cover!Piece(0)
<1>1. s \in Seq(Nat) /\ \A j \in 1..Len(s) : s[j] = 0
  BY PieceFits
<1>2. Position(0 + 1) = Position(0) + Len(s) + 1
  BY PieceFits
<1>3. Position(0) = 0
  <2> DEFINE m == Len(patch.hunks)
             none == [k \in 1..m |-> 0]
  <2>1. m \in Nat
    BY HunksInOrder
  <2>2. \A k \in 1..m : Moves(patch.hunks[k], 0) = 0
    <3>1. \A k \in 1..m : ~(patch.hunks[k].start < 0)
      BY HunksInOrder
    <3> QED
      BY <3>1 DEF Moves
  <2>3. Shifting(0) = none
    BY <2>2 DEF Shifting
  <2> HIDE DEF m
  <2>4. none \in [1..m -> Int] /\ \A k \in 1..m : none[k] = none[k] + (IF k = m + 1 THEN 0 ELSE 0)
    OBVIOUS
  <2> DEFINE f == Summing(none, m)
             M == {k \in Nat : k <= m => f[k] = 0}
  <2>5. f[0] = 0 /\ \A k \in 1..m : f[k] = f[k - 1] + none[k]
    BY <2>1, <2>4, SumTypes
  <2>6. \A k \in 1..m : none[k] = 0
    OBVIOUS
  <2> HIDE DEF f, none
  <2>7. 0 \in M
    BY <2>5
  <2>8. ASSUME NEW k \in Nat, k \in M PROVE k + 1 \in M
    <3> SUFFICES ASSUME k + 1 <= m PROVE f[k + 1] = 0
      OBVIOUS
    <3>1. k + 1 \in 1..m /\ (k + 1) - 1 = k /\ f[k] = 0
      BY <2>1, <2>8
    <3> QED
      BY <2>5, <2>6, <3>1
  <2> HIDE DEF M
  <2>9. m \in M
    BY <2>1, <2>7, <2>8, Counting
  <2>10. f[m] = 0
    BY <2>1, <2>9 DEF M
  <2> QED
    BY <2>3, <2>10 DEF Position, m, f
<1> HIDE DEF s
<1>4. Len(s) \in Nat
  BY <1>1
<1>5. Len(s) + 1 = Position(1)
  BY <1>2, <1>3, <1>4
<1>6. Laid(s, 1)
  BY <1>1, <1>5 DEF Laid
<1> QED
  BY <1>6 DEF s

\* The next line, or what comes instead, lies after them.
LEMMA NextPiece ==
  ASSUME patch \in Patches, NEW i \in Nat, i > 0, NEW s, Laid(s, i)
  PROVE  Laid(s \o Cover!Piece(i), i + 1)
<1> DEFINE more == Cover!Piece(i)
           all == s \o more
           n == Len(s)
<1>1. /\ more \in Seq(Nat)
      /\ \A j \in 1..Len(more) : more[j] = IF j = 1 /\ i > 0 /\ ~Cover!Gone(i) THEN i ELSE 0
      /\ i > 0 /\ ~Cover!Gone(i) => Len(more) > 0
      /\ Position(i + 1) = Position(i) + Len(more) + (IF i = 0 THEN 1 ELSE 0)
  BY PieceFits
<1>2. /\ s \in Seq(Nat) /\ n + 1 = Position(i) /\ n \in Nat
      /\ \A a \in 1..n : s[a] # 0 => s[a] \in 1..(i - 1) /\ ~Cover!Gone(s[a]) /\ Position(s[a]) = a
      /\ \A l \in 1..(i - 1) : ~Cover!Gone(l) => Position(l) \in 1..n /\ s[Position(l)] = l
  BY DEF Laid
<1> HIDE DEF more, n
<1>3. Len(more) \in Nat
  BY <1>1
<1>4. /\ all \in Seq(Nat) /\ Len(all) = n + Len(more)
      /\ \A a \in 1..(n + Len(more)) : all[a] = IF a <= n THEN s[a] ELSE more[a - n]
  BY <1>1, <1>2, ConcatProperties DEF n
<1> HIDE DEF all
<1>5. Len(all) + 1 = Position(i + 1)
  <2>1. Position(i + 1) = Position(i) + Len(more)
    BY <1>1, PositionTypes
  <2>2. Len(all) = n + Len(more) /\ n + 1 = Position(i) /\ n \in Nat
    BY <1>2, <1>4
  <2> QED
    BY <1>3, <2>1, <2>2
<1>6. ASSUME NEW a \in 1..Len(all), all[a] # 0
      PROVE  all[a] \in 1..i /\ ~Cover!Gone(all[a]) /\ Position(all[a]) = a
  <2>0. a \in 1..(n + Len(more))
    BY <1>4
  <2>1. CASE a <= n
    <3>1. a \in 1..n /\ all[a] = s[a]
      BY <1>2, <1>4, <2>0, <2>1
    <3>2. s[a] \in 1..(i - 1) /\ ~Cover!Gone(s[a]) /\ Position(s[a]) = a
      BY <1>2, <1>6, <3>1
    <3>3. s[a] \in 1..i
      BY <3>2
    <3> QED
      BY <3>1, <3>2, <3>3
  <2>2. CASE a > n
    <3>1. a - n \in 1..Len(more) /\ all[a] = more[a - n]
      BY <1>2, <1>3, <1>4, <2>0, <2>2
    <3>2. a - n = 1 /\ ~Cover!Gone(i) /\ all[a] = i
      BY <1>1, <1>6, <3>1
    <3>3. a = n + 1
      BY <1>2, <3>2
    <3>4. Position(i) = a
      BY <1>2, <3>3
    <3>5. i \in 1..i
      OBVIOUS
    <3> QED
      BY <3>2, <3>4, <3>5
  <2> QED
    BY <1>2, <2>0, <2>1, <2>2
<1>7. ASSUME NEW l \in 1..i, ~Cover!Gone(l)
      PROVE  Position(l) \in 1..Len(all) /\ all[Position(l)] = l
  <2>0. Len(all) = n + Len(more)
    BY <1>4
  <2>1. CASE l # i
    <3>1. l \in 1..(i - 1)
      BY <2>1
    <3>2. Position(l) \in 1..n /\ s[Position(l)] = l
      BY <1>2, <1>7, <3>1
    <3>3. Position(l) \in 1..(n + Len(more)) /\ Position(l) <= n
      BY <1>2, <1>3, <3>2
    <3> QED
      BY <1>4, <2>0, <3>2, <3>3
  <2>2. CASE l = i
    <3>1. Len(more) > 0 /\ 1 \in 1..Len(more) /\ more[1] = i
      BY <1>1, <1>3, <1>7, <2>2
    <3>2. n + 1 \in 1..(n + Len(more)) /\ ~(n + 1 <= n) /\ (n + 1) - n = 1
      BY <1>2, <1>3, <3>1
    <3>3. all[n + 1] = i
      BY <1>4, <3>1, <3>2
    <3>4. Position(l) = n + 1
      BY <1>2, <2>2
    <3> QED
      BY <2>0, <2>2, <3>2, <3>3, <3>4
  <2> QED
    BY <2>1, <2>2
<1>8. (i + 1) - 1 = i
  OBVIOUS
<1>9. Laid(all, i + 1)
  BY <1>4, <1>5, <1>6, <1>7, <1>8 DEF Laid
<1> QED
  BY <1>9 DEF all, more

Pieces == [i \in 1..(FileLength + 1) |-> Cover!Piece(i - 1)]

\* The head's file is laid so from its first line to its last.
LEMMA HeadIsLaid ==
  ASSUME patch \in Patches
  PROVE  Laid(Cover!Head_, FileLength + 1)
<1> DEFINE n == FileLength + 1
           f == Joining(Pieces, n)
<1>1. FileLength \in Nat
  BY CoverageAssumption
<1>2. Pieces \in Seq(Seq(Nat)) /\ Len(Pieces) = n /\ \A i \in 1..n : Pieces[i] = Cover!Piece(i - 1)
  <2>1. ASSUME NEW i \in 1..n PROVE Cover!Piece(i - 1) \in Seq(Nat)
    <3>1. i - 1 \in Nat
      BY <1>1
    <3> QED
      BY <3>1, PieceFits
  <2>2. Pieces \in [1..n -> Seq(Nat)]
    BY <2>1 DEF Pieces
  <2>3. n \in Nat
    BY <1>1
  <2> HIDE DEF n
  <2>4. Pieces \in Seq(Seq(Nat)) /\ Len(Pieces) = n
    BY <2>2, <2>3
  <2> QED
    BY <2>4 DEF Pieces, n
<1>3. Cover!Head_ = f[n]
  <2>1. Cover!Head_ = IF Len(Pieces) = 0 THEN Pieces ELSE Joining(Pieces, Len(Pieces))[Len(Pieces)]
    BY Zenon DEF Cover!Head_, Cover!FlattenSeq, Joining, Joins, Pieces
  <2>2. n # 0
    BY <1>1
  <2> QED
    BY <1>2, <2>1, <2>2
<1>4. f = [i \in 1..n |-> IF i = 1 THEN Pieces[i] ELSE f[i - 1] \o Pieces[i]]
  <2>1. n \in Nat
    BY <1>1
  <2> QED
    BY <2>1, JoiningJoins DEF Joins
<1> HIDE DEF f
<1> DEFINE M == {k \in Nat : k + 1 \in 1..n => Laid(f[k + 1], k + 1)}
<1>5. 0 \in M
  <2>1. 1 \in 1..n /\ 0 + 1 = 1
    BY <1>1
  <2>2. f[1] = Pieces[1]
    BY <1>4, <2>1, Zenon
  <2>3. Pieces[1] = Cover!Piece(0)
    <3>1. Pieces[1] = Cover!Piece(1 - 1) /\ 1 - 1 = 0
      BY <1>2, <2>1
    <3> QED
      BY <3>1
  <2>4. Laid(f[1], 1)
    BY <2>2, <2>3, FirstPiece
  <2> QED
    BY <2>4
<1>6. ASSUME NEW k \in Nat, k \in M PROVE k + 1 \in M
  <2> SUFFICES ASSUME k + 2 \in 1..n PROVE Laid(f[k + 2], k + 2)
    OBVIOUS
  <2>1. k + 1 \in 1..n
    BY <1>1
  <2>2. f[k + 2] = f[k + 1] \o Cover!Piece(k + 1)
    <3>1. ASSUME NEW i \in 1..n, NEW l \in 1..n, i = l + 1 PROVE f[i] = f[l] \o Cover!Piece(l)
      <4>1. i # 1 /\ i - 1 = l
        BY <1>1, <3>1
      <4>2. f[i] = f[i - 1] \o Pieces[i]
        BY <1>4, <4>1, Zenon
      <4>3. Pieces[i] = Cover!Piece(i - 1)
        BY <1>2
      <4> QED
        BY <4>1, <4>2, <4>3
    <3>2. k + 2 = (k + 1) + 1
      OBVIOUS
    <3> QED
      BY <2>1, <3>1, <3>2
  <2>3. Laid(f[k + 1], k + 1)
    BY <1>6, <2>1
  <2>4. Laid(f[k + 1] \o Cover!Piece(k + 1), (k + 1) + 1)
    <3>1. k + 1 \in Nat /\ k + 1 > 0
      OBVIOUS
    <3> QED
      BY <2>3, <3>1, NextPiece
  <2>5. (k + 1) + 1 = k + 2
    OBVIOUS
  <2> QED
    BY <2>2, <2>4, <2>5
<1>7. FileLength \in M
  <2> HIDE DEF M
  <2> QED
    BY <1>1, <1>5, <1>6, Counting
<1>8. Laid(f[n], n)
  <2>1. n \in 1..n
    BY <1>1
  <2> QED
    BY <1>7, <2>1
<1> QED
  BY <1>3, <1>8

\* The gate looks for each line at the head where it is (Diff.line).
LEMMA LineIsFound ==
  ASSUME patch \in Patches, NEW n \in 1..FileLength
  PROVE  Cover!moved(n) = IF Cover!Gone(n) THEN 0 ELSE Position(n)
<1> DEFINE m == Len(patch.hunks)
           by == [k \in 1..m |-> IF Cover!Before(patch.hunks[k], n)
                                 THEN patch.hunks[k].added - patch.hunks[k].removed ELSE 0]
<1>1. /\ m \in Nat /\ DOMAIN patch.hunks = 1..m
      /\ \A k \in 1..m : patch.hunks[k].start \in Nat /\ patch.hunks[k].removed \in Nat /\ patch.hunks[k].added \in Nat
  BY HunksInOrder
<1>2. n \in Nat /\ n > 0
  BY CoverageAssumption
<1>3. Cover!line(n) = IF Cover!Gone(n) THEN 0 ELSE n + Summing(by, m)[m]
  BY Zenon DEF Cover!line, Cover!Nowhere, Summing, Sums
<1>4. ASSUME ~Cover!Gone(n) PROVE by = Shifting(n)
  <2>1. ASSUME NEW k \in 1..m PROVE by[k] = Shifting(n)[k]
    <3> DEFINE start == patch.hunks[k].start
               removed == patch.hunks[k].removed
               added == patch.hunks[k].added
    <3>1. start \in Nat /\ removed \in Nat /\ added \in Nat
      BY <1>1
    <3>2. ~(start <= n /\ n < start + removed)
      BY <1>1, <1>4 DEF Cover!Gone, Cover!Range
    <3>3. Shifting(n)[k] = IF start < n THEN added - Least(removed, n - start) ELSE 0
      BY Zenon DEF Shifting, Moves
    <3>4. by[k] = IF (IF removed > 0 THEN start + removed <= n ELSE start < n) THEN added - removed ELSE 0
      BY Zenon DEF Cover!Before
    <3> HIDE DEF start, removed, added, by
    <3>5. CASE start < n
      <4>1. Least(removed, n - start) = removed
        BY <1>2, <3>1, <3>2, <3>5 DEF Least
      <4>2. IF removed > 0 THEN start + removed <= n ELSE start < n
        BY <1>2, <3>1, <3>2, <3>5
      <4> QED
        BY <3>3, <3>4, <3>5, <4>1, <4>2
    <3>6. CASE ~(start < n)
      <4>1. ~(IF removed > 0 THEN start + removed <= n ELSE start < n)
        BY <1>2, <3>1, <3>2, <3>6
      <4> QED
        BY <3>3, <3>4, <3>6, <4>1
    <3> QED
      BY <3>5, <3>6
  <2>2. by = [k \in 1..m |-> by[k]] /\ Shifting(n) = [k \in 1..m |-> Shifting(n)[k]]
    BY DEF Shifting
  <2> HIDE DEF by, m
  <2> QED
    BY <2>1, <2>2
<1> HIDE DEF by
<1>5. CASE patch.fate \in {"modified", "moved"}
  <2>1. Cover!moved(n) = Cover!line(n)
    BY <1>5 DEF Cover!moved
  <2> QED
    BY <1>3, <1>4, <2>1 DEF Position
<1>6. CASE patch.fate \notin {"modified", "moved"}
  <2>1. Cover!moved(n) = n
    BY <1>6 DEF Cover!moved
  <2>2. patch.hunks = <<>>
    BY <1>6, CoverageAssumption
  <2>3. m = 0
    BY <2>2
  <2>4. ~Cover!Gone(n)
    BY <1>1, <2>3 DEF Cover!Gone, Cover!Range
  <2>5. Summing(Shifting(n), 0)[0] = 0
    <3>1. Shifting(n) \in [1..0 -> Int]
      BY <2>2 DEF Shifting
    <3> QED
      BY <3>1, SumTypes
  <2>6. Position(n) = n
    BY <1>2, <2>3, <2>5 DEF Position
  <2> QED
    BY <2>1, <2>4, <2>6
<1> QED
  BY <1>5, <1>6

\* A line the pull request left as it was is found at the head, as itself; another is not.
LEMMA MovedIsThere ==
  ASSUME patch \in Patches, NEW n \in 1..FileLength
  PROVE  /\ Cover!moved(n) # 0 <=> n \in Cover!Range(Cover!Head_)
         /\ Cover!moved(n) # 0 => /\ Cover!moved(n) \in 1..Len(Cover!Head_)
                                  /\ Cover!Head_[Cover!moved(n)] = n
<1> DEFINE s == Cover!Head_
<1>1. /\ s \in Seq(Nat)
      /\ \A a \in 1..Len(s) : s[a] # 0 => s[a] \in 1..FileLength /\ ~Cover!Gone(s[a]) /\ Position(s[a]) = a
      /\ \A l \in 1..FileLength : ~Cover!Gone(l) => Position(l) \in 1..Len(s) /\ s[Position(l)] = l
  <2>1. FileLength \in Nat /\ (FileLength + 1) - 1 = FileLength
    BY CoverageAssumption
  <2> HIDE DEF s
  <2>2. Laid(s, FileLength + 1)
    BY HeadIsLaid DEF s
  <2> QED
    BY <2>1, <2>2 DEF Laid
<1> HIDE DEF s
<1>2. n # 0 /\ DOMAIN s = 1..Len(s) /\ Len(s) \in Nat
  BY <1>1, CoverageAssumption
<1>3. n \in Cover!Range(s) <=> \E a \in 1..Len(s) : s[a] = n
  BY <1>2 DEF Cover!Range
<1>4. CASE Cover!Gone(n)
  <2>1. Cover!moved(n) = 0
    BY <1>4, LineIsFound
  <2>2. \A a \in 1..Len(s) : s[a] # n
    BY <1>1, <1>2, <1>4
  <2> QED
    BY <1>3, <2>1, <2>2 DEF s
<1>5. CASE ~Cover!Gone(n)
  <2>1. Cover!moved(n) = Position(n)
    BY <1>5, LineIsFound
  <2>2. Position(n) \in 1..Len(s) /\ s[Position(n)] = n
    BY <1>1, <1>5
  <2>3. Position(n) # 0
    BY <2>2
  <2> QED
    BY <1>3, <2>1, <2>2, <2>3 DEF s
<1> QED
  BY <1>4, <1>5

\* A pair of runs loses, at the head, exactly the lines that stop by it (lost_lines).
LEMMA LostStop ==
  ASSUME patch \in Patches, NEW pair
  PROVE  Cover!lost_lines(pair) = {<<Cover!moved(n), n>> : n \in Cover!Stops(pair)}
<1>1. CASE patch.fate \in {"deleted", "test"}
  BY <1>1 DEF Cover!lost_lines, Cover!Stops
<1>2. CASE patch.fate \notin {"deleted", "test"}
  <2>1. Cover!lost_lines(pair) =
          {l \in {<<Cover!moved(n), n>> : n \in {n \in 1..FileLength : Cover!ran(pair, "base", n)}} :
             l[1] # 0 /\ (~Cover!measured(pair, "head") \/ Cover!False_(pair, l[1]))}
    BY <1>2 DEF Cover!lost_lines, Cover!Nowhere
  <2>2. ASSUME NEW n \in 1..FileLength
        PROVE  n \in Cover!Stops(pair) <=>
                 /\ Cover!ran(pair, "base", n)
                 /\ Cover!moved(n) # 0 /\ (~Cover!measured(pair, "head") \/ Cover!False_(pair, Cover!moved(n)))
    <3>1. n \in Cover!Stops(pair) <=>
            /\ n \in Cover!Range(Cover!Head_) /\ Cover!ran(pair, "base", n)
            /\ Cover!missed(pair, "head", n) \/ ~Cover!measured(pair, "head")
      BY <1>2 DEF Cover!Stops
    <3>2. Cover!moved(n) # 0 => (Cover!False_(pair, Cover!moved(n)) <=> Cover!missed(pair, "head", n))
      <4> SUFFICES ASSUME Cover!moved(n) # 0
                   PROVE  Cover!False_(pair, Cover!moved(n)) <=> Cover!missed(pair, "head", n)
        OBVIOUS
      <4>1. Cover!moved(n) \in 1..Len(Cover!Head_) /\ Cover!Head_[Cover!moved(n)] = n
        BY MovedIsThere
      <4>2. n # 0
        BY CoverageAssumption
      <4> QED
        BY <4>1, <4>2, Zenon DEF Cover!False_
    <3> QED
      BY <3>1, <3>2, MovedIsThere
  <2>3. Cover!Stops(pair) \subseteq 1..FileLength
    BY DEF Cover!Stops
  <2> QED
    BY <2>1, <2>2, <2>3
<1> QED
  BY <1>1, <1>2

----------------------------------------------------------------------------
(* The coverage gate *)

\* What a judged run says of the pull request is so.
JudgedRight ==
  /\ outcome = "passes" <=> findings = {}
  /\ outcome = "blocks" => ~patch.reason
  /\ \A at \in findings : at \in 1..Len(Cover!Head_) /\ Cover!Head_[at] # 0
  /\ {Cover!Head_[at] : at \in findings} =
       IF DOMAIN pairs[2] = {} THEN {} ELSE Cover!Stops(pairs[1]) \cap Cover!Stops(pairs[2])
  /\ DOMAIN pairs[2] = {} => ~Cover!Complete(1) \/ Cover!Stops(pairs[1]) = {}

\* The lines both pairs show lost.
Found == {l[1] : l \in Cover!confirmed}

\* What was found is of the runs made; the second pair is begun only after the first showed something, and what
\* stands when a run ends was found by both.
CoverInv ==
  /\ patch \in Patches /\ pairs = <<pairs[1], pairs[2]>>
  /\ stage \in {"check", "start"} => pairs[1] = Cover!None
  /\ stage \in {"check", "start", "first"} => pairs[2] = Cover!None /\ findings = {}
  /\ stage = "second" => Cover!Range(Cover!Order) # {}
  /\ stage = "attribute" => findings = Found /\ DOMAIN pairs[2] # {}
  /\ stage = "done" /\ outcome # "cannot run" => JudgedRight

\* Where both pairs agree on a line, it is found where it is at the head.
LEMMA FoundIsThere ==
  ASSUME patch \in Patches
  PROVE  /\ \A at \in Found : at \in 1..Len(Cover!Head_) /\ Cover!Head_[at] # 0
         /\ {Cover!Head_[at] : at \in Found} = Cover!Stops(pairs[1]) \cap Cover!Stops(pairs[2])
<1> DEFINE S == Cover!Stops(pairs[1])
           T == Cover!Stops(pairs[2])
<1>1. Cover!confirmed = {<<Cover!moved(n), n>> : n \in S} \cap {<<Cover!moved(n), n>> : n \in T}
  BY LostStop DEF Cover!confirmed
<1>2. \A n \in S \cup T : n \in 1..FileLength /\ n \in Cover!Range(Cover!Head_)
  BY DEF Cover!Stops
<1>3. \A n \in S \cup T : n # 0 /\ Cover!moved(n) \in 1..Len(Cover!Head_) /\ Cover!Head_[Cover!moved(n)] = n
  <2> SUFFICES ASSUME NEW n \in S \cup T
               PROVE  n # 0 /\ Cover!moved(n) \in 1..Len(Cover!Head_) /\ Cover!Head_[Cover!moved(n)] = n
    OBVIOUS
  <2>1. n \in 1..FileLength /\ n \in Cover!Range(Cover!Head_)
    BY <1>2
  <2> HIDE DEF S, T
  <2> QED
    BY <2>1, CoverageAssumption, MovedIsThere
<1> HIDE DEF S, T
<1>4. Found = {Cover!moved(n) : n \in S \cap T}
  <2>1. Cover!confirmed = {<<Cover!moved(n), n>> : n \in S \cap T}
    BY <1>1
  <2>2. \A n : <<Cover!moved(n), n>>[1] = Cover!moved(n)
    OBVIOUS
  <2>3. \A x : x \in Found <=> \E n \in S \cap T : x = Cover!moved(n)
    BY <2>1, <2>2, Zenon DEF Found
  <2> QED
    BY <2>3
<1>5. {Cover!Head_[at] : at \in Found} = S \cap T
  BY <1>3, <1>4
<1> QED
  BY <1>3, <1>4, <1>5 DEF S, T

\* Runs that measured nothing show nothing lost.
LEMMA NothingStops == Cover!Stops(Cover!None) = {}
<1>1. Cover!Of(Cover!None, "base") = {}
  BY DEF Cover!Of, Cover!None
<1> QED
  BY <1>1 DEF Cover!Stops, Cover!ran

\* A run that passes before the second pair is judged so, when the first shows no line lost.
LEMMA PassIsJudged ==
  /\ pairs[2] = Cover!None /\ findings = {} /\ outcome = "passes" /\ Cover!Stops(pairs[1]) = {}
  => JudgedRight
BY DEF JudgedRight, Cover!None

\* A run that ends with what both pairs show lost, as the body's reason has it, is judged so.
LEMMA IntendedIsJudged ==
  patch \in Patches /\ findings = Found /\ DOMAIN pairs[2] # {} /\ outcome = Cover!intended(findings) => JudgedRight
<1> SUFFICES ASSUME patch \in Patches, findings = Found, DOMAIN pairs[2] # {}, outcome = Cover!intended(findings)
             PROVE  JudgedRight
  OBVIOUS
<1>1. /\ outcome = "passes" <=> findings = {}
      /\ outcome = "blocks" => ~patch.reason
  BY DEF Cover!intended
<1> QED
  BY <1>1, FoundIsThere DEF JudgedRight

\* At first nothing is run or found.
LEMMA CoverStarts == Cover!Init => CoverInv
BY DEF Cover!Init, CoverInv

\* What the runs show stands while the pull request and the runs stay.
LEMMA ShownLines ==
  ASSUME UNCHANGED <<patch, pairs>>
  PROVE  /\ patch' = patch /\ pairs' = pairs
         /\ Cover!Head_' = Cover!Head_
         /\ (Cover!Stops(pairs[1]))' = Cover!Stops(pairs[1])
         /\ (Cover!Stops(pairs[2]))' = Cover!Stops(pairs[2])
         /\ Found' = Found
<1>1. patch' = patch /\ pairs' = pairs
  OBVIOUS
<1>2. Cover!Head_' = Cover!Head_
  <2>1. \A i : Cover!Piece(i)' = Cover!Piece(i)
    BY <1>1 DEF Cover!Piece, Cover!Gone
  <2> QED
    BY <2>1 DEF Cover!Head_
<1>3. \A n : Cover!moved(n)' = Cover!moved(n)
  <2>1. \A n : Cover!line(n)' = Cover!line(n)
    BY <1>1 DEF Cover!line, Cover!Gone
  <2> QED
    BY <1>1, <2>1 DEF Cover!moved
<1>4. (Cover!Stops(pairs[1]))' = Cover!Stops(pairs[1])
  BY <1>1, <1>2 DEF Cover!Stops
<1>5. (Cover!Stops(pairs[2]))' = Cover!Stops(pairs[2])
  BY <1>1, <1>2 DEF Cover!Stops
<1>6. \A i : (Cover!lost_lines(pairs[i]))' = Cover!lost_lines(pairs[i])
  BY <1>1, <1>2, <1>3 DEF Cover!lost_lines, Cover!False_
<1>7. Found' = Found
  BY <1>6 DEF Found, Cover!confirmed
<1> QED
  BY <1>1, <1>2, <1>4, <1>5, <1>7

\* A run that ends leaves the invariant as it is, when what it ends with is judged.
LEMMA EndIsJudged ==
  ASSUME CoverInv, UNCHANGED <<patch, pairs>>, stage' = "done", outcome' # "cannot run" => JudgedRight'
  PROVE  CoverInv'
<1>1. patch' \in Patches /\ (pairs = <<pairs[1], pairs[2]>>)'
  BY DEF CoverInv
<1> QED
  BY <1>1 DEF CoverInv

\* A line lost by the first pair is needed for a second.
LEMMA MeasureKeeps == CoverInv /\ Cover!measure => CoverInv'
<1> SUFFICES ASSUME CoverInv, Cover!measure PROVE CoverInv'
  OBVIOUS
<1>1. stage = "first" /\ Cover!Complete(1) /\ UNCHANGED <<patch, pairs, findings>>
  BY DEF Cover!measure
<1>2. pairs[2] = Cover!None /\ findings = {} /\ patch \in Patches
  BY <1>1 DEF CoverInv
<1>3. pairs'[2] = Cover!None /\ findings' = {}
  BY <1>1, <1>2
<1>4. CASE ~Cover!tested(pairs[1], "base") /\ ~Cover!tested(pairs[1], "head")
  <2>1. stage' = "done" /\ outcome' = "cannot run"
    BY <1>4 DEF Cover!measure, Cover!End
  <2> QED
    BY <1>1, <2>1, EndIsJudged
<1>5. CASE (Cover!tested(pairs[1], "base") \/ Cover!tested(pairs[1], "head")) /\ Cover!lost_lines(pairs[1]) = {}
  <2>1. stage' = "done" /\ outcome' = "passes"
    BY <1>5 DEF Cover!measure, Cover!End
  <2>2. Cover!Stops(pairs[1]) = {}
    <3> DEFINE S == Cover!Stops(pairs[1])
    <3>1. {<<Cover!moved(n), n>> : n \in S} = {}
      BY <1>2, <1>5, LostStop
    <3> HIDE DEF S
    <3>2. S = {}
      BY <3>1
    <3> QED
      BY <3>2 DEF S
  <2>3. (pairs[2] = Cover!None /\ findings = {} /\ outcome = "passes" /\ Cover!Stops(pairs[1]) = {} => JudgedRight)'
    BY PassIsJudged, PTL
  <2>4. (Cover!Stops(pairs[1]) = {})'
    BY <1>1, <2>2, ShownLines
  <2> QED
    BY <1>1, <1>3, <2>1, <2>3, <2>4, EndIsJudged
<1>6. CASE (Cover!tested(pairs[1], "base") \/ Cover!tested(pairs[1], "head")) /\ Cover!lost_lines(pairs[1]) # {}
  <2>1. stage' = "second"
    BY <1>6 DEF Cover!measure
  <2>2. DOMAIN pairs[1] # {}
    BY <1>6 DEF Cover!tested, Cover!Of
  <2>3. Cover!Range(Cover!Order) # {}
    BY <1>1, <2>2 DEF Cover!Complete
  <2>4. patch' \in Patches /\ (pairs = <<pairs[1], pairs[2]>>)'
    BY <1>1 DEF CoverInv
  <2>5. (Cover!Range(Cover!Order))' = Cover!Range(Cover!Order)
    BY DEF Cover!Range, Cover!Order
  <2> QED
    BY <2>1, <2>3, <2>4, <2>5 DEF CoverInv
<1> QED
  BY <1>4, <1>5, <1>6

\* The lines both pairs show lost are those told of.
LEMMA LossesKeep == CoverInv /\ Cover!losses => CoverInv'
<1> SUFFICES ASSUME CoverInv, Cover!losses PROVE CoverInv'
  OBVIOUS
<1>1. stage = "second" /\ Cover!Complete(2) /\ UNCHANGED <<patch, pairs>> /\ findings' = Found
  BY DEF Cover!losses, Found
<1>2. patch' \in Patches /\ (pairs = <<pairs[1], pairs[2]>>)'
  BY <1>1 DEF CoverInv
<1>3. Cover!Range(Cover!Order) # {}
  BY <1>1 DEF CoverInv
<1>4. DOMAIN pairs'[2] # {}
  BY <1>1, <1>3 DEF Cover!Complete
<1>5. findings' = Found'
  BY <1>1, ShownLines
<1>6. CASE Cover!confirmed # {} /\ patch.runner # "python" /\ patch.touched
  <2>1. stage' = "attribute"
    BY <1>6 DEF Cover!losses
  <2> QED
    BY <1>2, <1>4, <1>5, <2>1 DEF CoverInv
<1>7. CASE ~(Cover!confirmed # {} /\ patch.runner # "python" /\ patch.touched)
  <2>1. stage' = "done" /\ outcome' = Cover!intended(findings')
    BY <1>7 DEF Cover!losses, Cover!End
  <2>2. outcome' = Cover!intended(findings)'
    BY <1>1, <2>1 DEF Cover!intended
  <2>3. (patch \in Patches /\ findings = Found /\ DOMAIN pairs[2] # {} /\ outcome = Cover!intended(findings) => JudgedRight)'
    BY IntendedIsJudged, PTL
  <2>4. JudgedRight'
    BY <1>2, <1>4, <1>5, <2>2, <2>3
  <2> QED
    BY <1>1, <2>1, <2>4, EndIsJudged
<1> QED
  BY <1>6, <1>7

\* Which tests ran the lines changes nothing of what was found.
LEMMA AttributingKeeps == ASSUME NEW s PROVE CoverInv /\ Cover!test_files_that_ran(s) => CoverInv'
<1> SUFFICES ASSUME CoverInv, Cover!test_files_that_ran(s) PROVE CoverInv'
  OBVIOUS
<1>1. stage = "attribute" /\ stage' = "done" /\ UNCHANGED <<patch, pairs, findings>>
  BY DEF Cover!test_files_that_ran, Cover!End
<1>2. patch' \in Patches /\ findings = Found /\ DOMAIN pairs'[2] # {}
  BY <1>1 DEF CoverInv
<1>3. findings' = Found'
  BY <1>1, <1>2, ShownLines
<1>4. outcome' # "cannot run" => outcome' = Cover!intended(findings)
  BY DEF Cover!test_files_that_ran, Cover!End
<1>5. Cover!intended(findings)' = Cover!intended(findings)
  BY <1>1 DEF Cover!intended
<1>6. (patch \in Patches /\ findings = Found /\ DOMAIN pairs[2] # {} /\ outcome = Cover!intended(findings) => JudgedRight)'
  BY IntendedIsJudged, PTL
<1>7. outcome' # "cannot run" => JudgedRight'
  BY <1>2, <1>3, <1>4, <1>5, <1>6
<1> QED
  BY <1>1, <1>7, EndIsJudged

\* A suite's run is recorded with the runs of its pair.
LEMMA SuiteRunKeeps ==
  ASSUME NEW side, NEW project, NEW s, NEW lines
  PROVE  CoverInv /\ Cover!run(side, project, s, lines) => CoverInv'
<1> SUFFICES ASSUME CoverInv, Cover!run(side, project, s, lines) PROVE CoverInv'
  OBVIOUS
<1>1. stage \in {"first", "second"} /\ patch' = patch /\ findings' = findings
  BY Zenon DEF Cover!run
<1>2. \/ pairs' = pairs /\ stage' = "done" /\ outcome' = "cannot run"
      \/ stage' = stage /\ \E v : pairs' = [pairs EXCEPT ![Cover!Pair] = v]
  BY Zenon DEF Cover!run, Cover!End
<1>3. CASE pairs' = pairs /\ stage' = "done" /\ outcome' = "cannot run"
  BY <1>1, <1>3, EndIsJudged
<1>4. CASE stage' = stage /\ \E v : pairs' = [pairs EXCEPT ![Cover!Pair] = v]
  <2>1. PICK v : pairs' = [pairs EXCEPT ![Cover!Pair] = v]
    BY <1>4
  <2>2. pairs = <<pairs[1], pairs[2]>> /\ patch \in Patches
    BY DEF CoverInv
  <2>3. pairs' = <<pairs'[1], pairs'[2]>> /\ (stage = "first" => pairs'[2] = pairs[2])
    BY <1>1, <2>1, <2>2 DEF Cover!Pair
  <2>4. CASE stage = "first"
    BY <1>1, <1>4, <2>2, <2>3, <2>4 DEF CoverInv, Cover!None
  <2>5. CASE stage = "second"
    <3>1. Cover!Range(Cover!Order)' # {}
      BY <2>5 DEF CoverInv, Cover!Range, Cover!Order
    <3> QED
      BY <1>1, <1>4, <2>2, <2>3, <2>5, <3>1 DEF CoverInv
  <2> QED
    BY <1>1, <2>4, <2>5
<1> QED
  BY <1>2, <1>3, <1>4

\* Every step of the gate keeps the invariant.
LEMMA CoverKeeps == CoverInv /\ [Cover!Next]_(Cover!coverageVars) => CoverInv'
<1> SUFFICES ASSUME CoverInv, [Cover!Next]_(Cover!coverageVars) PROVE CoverInv'
  OBVIOUS
<1>1. ASSUME Cover!check PROVE CoverInv'
  <2>1. stage = "check" /\ UNCHANGED <<patch, pairs, findings>>
    BY <1>1 DEF Cover!check
  <2>2. pairs[1] = Cover!None /\ pairs[2] = Cover!None /\ findings = {} /\ patch \in Patches
    BY <2>1 DEF CoverInv
  <2>3. CASE stage' = "done" /\ outcome' = "passes"
    <3>1. Cover!Stops(pairs[1]) = {}
      BY <2>2, NothingStops
    <3>2. (Cover!Stops(pairs[1]) = {})'
      BY <2>1, <3>1, ShownLines
    <3>3. (pairs[2] = Cover!None /\ findings = {} /\ outcome = "passes" /\ Cover!Stops(pairs[1]) = {} => JudgedRight)'
      BY PassIsJudged, PTL
    <3>4. pairs'[2] = Cover!None /\ findings' = {}
      BY <2>1, <2>2
    <3> QED
      BY <2>1, <2>3, <3>2, <3>3, <3>4, EndIsJudged
  <2>4. CASE stage' = "start"
    BY <2>1, <2>2, <2>4 DEF CoverInv, Cover!None
  <2>5. (stage' = "done" /\ outcome' = "passes") \/ stage' = "start"
    BY <1>1 DEF Cover!check, Cover!End
  <2> QED
    BY <2>3, <2>4, <2>5
<1>2. ASSUME Cover!Suite PROVE CoverInv'
  <2>1. stage = "start" /\ UNCHANGED <<patch, pairs, findings>>
    BY <1>2 DEF Cover!Suite
  <2>2. stage' = "first" \/ (stage' = "done" /\ outcome' = "cannot run")
    BY <1>2 DEF Cover!Suite, Cover!End
  <2>3. CASE stage' = "first"
    BY <2>1, <2>3 DEF CoverInv, Cover!None
  <2> QED
    BY <2>1, <2>2, <2>3, EndIsJudged
<1>3. ASSUME Cover!Breaks PROVE CoverInv'
  BY <1>3, EndIsJudged DEF Cover!Breaks, Cover!End
<1>4. ASSUME UNCHANGED Cover!coverageVars PROVE CoverInv'
  <2>1. /\ patch' = patch /\ stage' = stage /\ pairs' = pairs /\ findings' = findings /\ outcome' = outcome
    BY <1>4, Zenon DEF Cover!coverageVars
  <2>2. /\ Cover!Head_' = Cover!Head_ /\ Found' = Found
        /\ (Cover!Stops(pairs[1]))' = Cover!Stops(pairs[1]) /\ (Cover!Stops(pairs[2]))' = Cover!Stops(pairs[2])
    BY <2>1, ShownLines
  <2>3. Cover!Range(Cover!Order)' = Cover!Range(Cover!Order)
    BY DEF Cover!Range, Cover!Order
  <2>4. Cover!Complete(1)' <=> Cover!Complete(1)
    BY <2>1, <2>3 DEF Cover!Complete
  <2>5. JudgedRight' <=> JudgedRight
    BY <2>1, <2>2, <2>4 DEF JudgedRight
  <2> QED
    BY <2>1, <2>2, <2>3, <2>5 DEF CoverInv, Cover!None
<1> QED
  BY <1>1, <1>2, <1>3, <1>4, MeasureKeeps, LossesKeep, AttributingKeeps, SuiteRunKeeps, Zenon DEF Cover!Next

\* Coverage: the lines told of are exactly those the pull request left as they were and that both pairs of runs
\* show lost, each where its text is at the head (LossIsReal), for every file, diff, suite and measure.
THEOREM LossesAreReal == Cover!Spec => []LossIsReal
<1>1. CoverInv => LossIsReal
  BY DEF CoverInv, JudgedRight, LossIsReal, Cover!LossIsReal
<1> QED
  BY <1>1, CoverStarts, CoverKeeps, PTL DEF Cover!Spec
====
