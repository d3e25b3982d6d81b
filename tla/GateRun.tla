------------------------------ MODULE GateRun ------------------------------
(***************************************************************************)
(* A run of the catalog's gates over a pull request (bin/cli/runner.py,    *)
(* gates/_contract.py) and the gates whose rules are files of the          *)
(* repository: repo-rules, universal-checks and the tool descriptors a     *)
(* repository declares for itself.  The pull request can edit all of them, *)
(* beside the code they judge.  What it may not do is weaken its own       *)
(* judgement: manifest, rules and descriptors are read from the base.      *)
(*                                                                         *)
(* A tree is what git has of a commit: the manifest's lines, the rule      *)
(* files and what each says, the universal checks, the descriptors, the    *)
(* generated block of rules, the code as the uses in each file (if it is   *)
(* there) that every strict rule refuses, the path each moved file had at  *)
(* the merge base, and whether it holds anything in the evidence directory.*)
(***************************************************************************)
EXTENDS Naturals, Sequences, FiniteSets, SequencesExt

CONSTANTS
  Starts,    \* the trees a branch may start from
  Paths,     \* paths of code
  RulePaths, \* paths of rule files
  OwnNames,  \* names a repository's descriptors may have
  NewLines,  \* manifest lines a commit may add
  Texts,     \* what a commit may make of a rule file, the checks or a descriptor: "none" (deleted), "lax"
             \* (refuses nothing), "strict", "broken" (cannot be read, or proves nothing), and "clash": of a
             \* descriptor that it runs the tool of another one, of the rest no more than "lax"
  MaxUses,   \* refused uses in a file
  MaxCommits \* commits of the branch and of the base beside it

VARIABLES
  start,    \* the merge base
  base,     \* the base branch's tip
  commits,  \* the trees of the branch's own commits
  explicit, \* the job names its base (--base-ref)
  fetched,  \* the checkout holds the base branch
  evidence, \* the explorers' evidence, judged alone, is good
  run       \* the run: the entries left to judge and the results so far

gateVars == <<start, base, commits, explicit, fetched, evidence, run>>

Catalog == {"repo-rules", "universal-checks", "qae-artifacts"}
Python == {"repo-rules", "universal-checks", "qae-artifacts"}

\* A tree holds uses by the number, and every file was somewhere at the merge base.
Lawful(t) ==
  /\ DOMAIN t = {"manifest", "rules", "block", "checks", "own", "code", "moved", "planted"}
  /\ DOMAIN t.code = Paths /\ \A p \in Paths : t.code[p] # <<>> => t.code[p][1] \in Nat
  /\ t.moved \in [Paths -> Paths]

Top == Last(commits)
Idle == [pc |-> "idle", left |-> {}, results |-> {}]

Init ==
  /\ start \in Starts
  /\ base = start
  /\ commits = <<start>>
  /\ fetched \in BOOLEAN /\ explicit \in {TRUE, fetched} /\ evidence \in BOOLEAN
  /\ run = Idle

----------------------------------------------------------------------------
(* Commits *)

\* What one commit may make of a tree.
Edited(t) ==
  {[t EXCEPT !.manifest = RemoveAt(@, i)] : i \in 1..Len(t.manifest)}
    \cup {[t EXCEPT !.manifest = Append(@, l)] : l \in NewLines}
    \cup {[t EXCEPT !.manifest[i].args = t.manifest[i].args \cup {"soak"}] : i \in 1..Len(t.manifest)}
    \cup {[t EXCEPT !.manifest = Reverse(@)]}
    \cup {[t EXCEPT !.rules[p] = text] : p \in RulePaths, text \in Texts}
    \cup {[t EXCEPT !.checks = text] : text \in Texts}
    \cup {[t EXCEPT !.own[n] = text] : n \in OwnNames, text \in Texts}
    \cup {[t EXCEPT !.code[p] = <<uses>>] : p \in {q \in Paths : t.code[q] # <<>>}, uses \in 0..MaxUses}
    \cup {[t EXCEPT !.block = t.rules]}
    \cup {[t EXCEPT !.planted = TRUE]}

\* A file moved to a path nothing had at the merge base, no more changed than git still
\* sees it is the same.
Moved(t) ==
  {[t EXCEPT !.code = [t.code EXCEPT ![to[2]] = t.code[to[1]], ![to[1]] = <<>>],
             !.moved = [t.moved EXCEPT ![to[2]] = t.moved[to[1]]]] :
      to \in {pair \in Paths \X Paths :
                t.code[pair[1]] # <<>> /\ t.code[pair[2]] = <<>> /\ start.code[pair[2]] = <<>>}}

Commit ==
  /\ run = Idle /\ Len(commits) + (IF base = start THEN 0 ELSE 1) <= MaxCommits
  /\ \E t \in Edited(Top) \cup Moved(Top) : t # Top /\ commits' = Append(commits, t)
  /\ UNCHANGED <<start, base, explicit, fetched, evidence, run>>

BaseMoves ==
  /\ run = Idle /\ base = start /\ Len(commits) = 1
  /\ \E t \in Edited(base) : t.code = base.code /\ ~t.planted /\ base' = t
  /\ UNCHANGED <<start, commits, explicit, fetched, evidence, run>>

----------------------------------------------------------------------------
(* Bases *)

\* A named base must resolve; otherwise main, or the commit before.
Resolves == fetched \/ (~explicit /\ Len(commits) > 1)
resolve_base == IF fetched THEN base ELSE commits[Len(commits) - 1]
merge_base == IF fetched THEN start ELSE resolve_base
renamed(p) == IF fetched \/ resolve_base.code[p] = <<>> THEN Top.moved[p] ELSE p

Uses(t, p) == IF t.code[p] = <<>> THEN 0 ELSE t.code[p][1]
tracked == {p \in Paths : Top.code[p] # <<>>}

\* The files in which the rules' findings rose since the merge base.
Rose == {p \in tracked : Uses(Top, p) > Uses(merge_base, renamed(p))}
Hits == {p \in tracked : Uses(Top, p) > 0}

Outcome(can, findings) == [can |-> can, findings |-> findings]
CannotRun == Outcome(FALSE, {})

----------------------------------------------------------------------------
(* repo-rules *)

\* The rule files as the base has them, and those the branch adds.  With --all, the head's.
judged_files(args) ==
  IF "all" \in args THEN Top.rules
  ELSE [p \in RulePaths |-> IF resolve_base.rules[p] # "none" THEN resolve_base.rules[p]
                            ELSE IF merge_base.rules[p] = "none" THEN Top.rules[p] ELSE "none"]

\* There are rules, and each has a message, and tests it passes.
proven(rules) == (\E p \in RulePaths : rules[p] # "none") /\ \A p \in RulePaths : rules[p] # "broken"

stale_doc(args) == "doc" \in args /\ Top.block # Top.rules

repo_rules(args) ==
  LET rules == judged_files(args)
      strict == \E p \in RulePaths : rules[p] = "strict"
      hits == IF ~strict THEN {} ELSE IF "all" \in args THEN Hits ELSE Rose
  IN  IF ~("all" \in args \/ Resolves) THEN CannotRun
      ELSE IF ~proven(rules) \/ ("doc" \in args /\ ~proven(Top.rules)) THEN CannotRun
      ELSE Outcome(TRUE, hits \cup (IF stale_doc(args) THEN {"block"} ELSE {}))

----------------------------------------------------------------------------
(* universal-checks *)

\* Every copy parses to rules, and to nothing but rules.
legible(checks) == checks # {} /\ "broken" \notin checks

\* The checks of the merge base, and the head's beside them.  Nothing to hold them to is no pass.
universal_checks ==
  LET checks == {merge_base.checks, Top.checks} \ {"none"}
  IN  IF ~Resolves \/ ~legible(checks) \/ tracked = {} THEN CannotRun
      ELSE Outcome(TRUE, IF "strict" \in checks THEN Hits ELSE {})

----------------------------------------------------------------------------
(* Descriptors of the repository's own *)

\* Each as the base has it; one only the head has, as it is there.
repository_files ==
  [n \in OwnNames |-> IF Resolves /\ resolve_base.own[n] # "none" THEN resolve_base.own[n] ELSE Top.own[n]]
repository_names == {n \in OwnNames : repository_files[n] # "none"}

\* Two that run one tool, or one with the name of a Python gate.
conflicts ==
  LET same == {n \in repository_names : repository_files[n] = "clash"}
  IN  (IF same = {} THEN {} ELSE repository_names) \cup (repository_names \cap Python)

descriptor_gate(gate, args) ==
  LET text == repository_files[gate]
  IN  IF (\E n \in repository_names : repository_files[n] = "broken") \/ gate \in conflicts THEN CannotRun
      ELSE IF "all" \notin args /\ ~Resolves THEN CannotRun
      ELSE Outcome(TRUE, IF text # "strict" THEN {} ELSE IF "all" \in args THEN Hits ELSE Rose)

----------------------------------------------------------------------------
(* The contract *)

\* Evidence the checkout supplied is not judged: it is itself the finding.
qae_artifacts ==
  Outcome(TRUE, IF Top.planted THEN {"planted"} ELSE IF evidence THEN {} ELSE {"evidence"})

check(gate, args) ==
  CASE gate = "repo-rules" -> repo_rules(args)
    [] gate = "universal-checks" -> universal_checks
    [] gate = "qae-artifacts" -> qae_artifacts
    [] OTHER -> descriptor_gate(gate, args)

\* Findings block unless soaked.
exits(findings, args) == IF findings = {} \/ "soak" \in args THEN 0 ELSE 1

\* The exit of one gate: soak never hides a gate that could not run.
run_gate(gate, args) ==
  LET outcome == check(gate, args)
  IN  IF outcome.can THEN exits(outcome.findings, args) ELSE 2

----------------------------------------------------------------------------
(* The runner *)

base_manifest == IF Resolves THEN resolve_base.manifest ELSE <<>>

Entry(of, number, line) == [of |-> of, number |-> number, line |-> line]
Entries(of, lines, numbers) == {Entry(of, i, lines[i]) : i \in numbers}

Same(lines, line) == {i \in DOMAIN lines : lines[i] = line}
OfGate(lines, gate) == {i \in DOMAIN lines : lines[i].gate = gate}

\* (mutant) The head's lines, and the base's of gates the head has none of.
judged_entries_ByGate(head, at_base) ==
  Entries("head", head, DOMAIN head)
    \cup Entries("base", at_base, {i \in DOMAIN at_base : OfGate(head, at_base[i].gate) = {}})

\* The base's lines, and the head's that no base line accounts for: an identical line is that line (the
\* rest are fresh); the gate's others stand, in order, for its base lines left over.
judged_entries(head, at_base) ==
  LET fresh == {i \in DOMAIN head :
                  Cardinality({j \in Same(head, head[i]) : j <= i}) > Cardinality(Same(at_base, head[i]))}
      left(gate) == Cardinality(OfGate(at_base, gate)) - Cardinality(OfGate(head, gate) \ fresh)
      added == {i \in fresh : Cardinality({j \in OfGate(head, head[i].gate) \cap fresh : j <= i}) > left(head[i].gate)}
  IN  Entries("base", at_base, DOMAIN at_base) \cup Entries("head", head, added)

\* A manifest without lines is no run.
Begin ==
  /\ run = Idle /\ Len(commits) > 1 /\ Top.manifest # <<>>
  /\ run' = [Idle EXCEPT !.pc = "entries", !.left = judged_entries(Top.manifest, base_manifest)]
  /\ UNCHANGED <<start, base, commits, explicit, fetched, evidence>>

known == Catalog \cup repository_names
shadowed == Catalog \cap repository_names

code(line) == IF line.gate \notin known \/ line.gate \in shadowed THEN 2 ELSE run_gate(line.gate, line.args)

\* One entry.  They are run in the manifests' order, on which no result depends: here, in any.  A gate that
\* crashes, or whose tool is not to be had, could not run.
run_entry ==
  /\ run.pc = "entries"
  /\ \E entry \in run.left : \E got \in {code(entry.line), 2} :
       run' = [run EXCEPT !.left = run.left \ {entry}, !.results = run.results \cup {got}]
  /\ UNCHANGED <<start, base, commits, explicit, fetched, evidence>>

Next == Commit \/ BaseMoves \/ Begin \/ run_entry

Spec == Init /\ [][Next]_gateVars

----------------------------------------------------------------------------
(* Properties *)

Ended == run.pc = "entries" /\ run.left = {}
Result == IF 2 \in run.results THEN 2 ELSE IF 1 \in run.results THEN 1 ELSE 0

\* What a line of the base's manifest stands for: its rules, as the base has them, hold of the head.
NoNewUse == \A p \in tracked : Uses(Top, p) <= Uses(start, Top.moved[p])
Stands(line) ==
  CASE line.gate = "repo-rules" ->
         "all" \notin line.args /\ (\E p \in RulePaths : base.rules[p] = "strict") => NoNewUse
    [] line.gate = "universal-checks" -> start.checks = "strict" => \A p \in tracked : Uses(Top, p) = 0
    [] line.gate = "qae-artifacts" -> evidence /\ ~Top.planted
    [] OTHER -> base.own[line.gate] = "strict" => NoNewUse

\* A run that passes, in a checkout with its base, found every blocking line of the base's manifest to
\* hold of the head, by the rules, checks and descriptors of the base: whatever the branch did to the
\* manifest, to those files, or to where its code lies (judged_entries, judged_files, repository_files,
\* at_merge_base, renamed, planted).
NothingWeakened ==
  Ended /\ Result = 0 /\ fetched =>
    \A i \in DOMAIN base.manifest : "soak" \notin base.manifest[i].args => Stands(base.manifest[i])
=============================================================================
