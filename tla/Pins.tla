-------------------------------- MODULE Pins --------------------------------
(***************************************************************************)
(* Pin propagation into one subscribed repository.  A run of `apply-down   *)
(* --auto --act --merge` resolves the catalog's main, merges the bumps     *)
(* that are ready, plans the moves of stale pins, opens one pull request   *)
(* for them and closes the bumps it supersedes.  Runs overlap, fail        *)
(* between any two calls, and people push, review and close meanwhile.     *)
(*                                                                         *)
(* The catalog's main is a line of commits named by their number; Off is a *)
(* commit that is not on it.  A workflow file is its pin line and the rest *)
(* of its lines, by version.  A bump's branch is named for its target.     *)
(* GitHub merges a branch's changes since its merge base, line by line.    *)
(***************************************************************************)
EXTENDS FiniteSets, Integers

CONSTANTS
  Runs,       \* runs that may overlap
  Files,      \* workflow files with a catalog pin
  KindOf,     \* what each catalog commit touches: "release", "tool" or "docs"
  MaxMoves,   \* what people do
  MaxFaults   \* failed checks and calls, runs that die, and runs that overlap

Commits == DOMAIN KindOf
Off == -1
Targets == Commits

\* The commits are numbered along main, from the one the pins start at.
ASSUME PinsAssumption == Commits \subseteq Nat /\ 0 \in Commits

VARIABLES
  main,     \* the newest commit of the catalog's main
  base,     \* the default branch's files
  branch,   \* each target's bump branch
  pull,     \* each target's pull request
  run,      \* where each run is
  moves, faults

vars == <<main, base, branch, pull, run, moves, faults>>

Fault == faults < MaxFaults /\ faults' = faults + 1
Moved == moves < MaxMoves /\ moves' = moves + 1

FirstFiles == [f \in Files |-> [pin |-> 0, rest |-> 0]]
NoBranch == [there |-> FALSE, from |-> FirstFiles, behind |-> FALSE, files |-> FirstFiles,
             checks |-> "running"]
NoPull == [state |-> "none", asks |-> FALSE]
OpenPulls == {t \in Targets : pull[t].state = "open"}

----------------------------------------------------------------------------
(* Pins *)

OnMain(pin, target) == pin \in 0..target

\* No release commit since, and on the main it is judged against.
Release(c) == KindOf[c] \in {"release", "tool"}
Current(pin, target) == OnMain(pin, target) /\ \A c \in pin + 1..target : ~Release(c)

\* A tool version differs, or the pin is not in the catalog's history.
MovesTool(pin, target) == ~OnMain(pin, target) \/ \E c \in pin + 1..target : KindOf[c] = "tool"

Moving(files, target) == {f \in Files : files[f].pin # target /\ ~Current(files[f].pin, target)}
HeldForTool(files, target) == \E f \in Moving(files, target) : MovesTool(files[f].pin, target)

----------------------------------------------------------------------------
(* GitHub's merge *)

Line(from, ours, theirs) == IF theirs = from THEN ours ELSE theirs
Clash(from, ours, theirs) == theirs # from /\ ours # from /\ ours # theirs

Conflicts(b) ==
  \E f \in Files : \/ Clash(b.from[f].pin, base[f].pin, b.files[f].pin)
                   \/ Clash(b.from[f].rest, base[f].rest, b.files[f].rest)

\* The default branch with the changes of the branch on top.
Joined(b) ==
  [f \in Files |-> [pin |-> Line(b.from[f].pin, base[f].pin, b.files[f].pin),
                    rest |-> Line(b.from[f].rest, base[f].rest, b.files[f].rest)]]

Changed(b) == {f \in Files : b.files[f] # b.from[f]}

\* (mutant) a changed file's other lines are not compared
OnlyPins_AnyLine(b, named, target) ==
  /\ OnMain(named, target)
  /\ \A f \in Changed(b) : b.files[f].pin = named

\* Every changed line a pin that moves to the commit the branch is named for, found on the main
\* this run pins from.
OnlyPins(b, named, target) ==
  /\ OnMain(named, target)
  /\ \A f \in Changed(b) : b.files[f].rest = b.from[f].rest /\ b.files[f].pin = named

----------------------------------------------------------------------------
(* A run *)

\* fresh: the pull request still has the head and the state it was judged at.
Idle == [pc |-> "idle", target |-> 0, todo |-> {}, on |-> 0, fresh |-> FALSE, text |-> <<>>]
Goes(r, new) == run' = [run EXCEPT ![r] = new]
Aged(runs, t) == [r \in Runs |-> IF runs[r].on = t THEN [runs[r] EXCEPT !.fresh = FALSE] ELSE runs[r]]
GoesPast(r, new, t) == run' = Aged([run EXCEPT ![r] = new], t)
At(r, pc) == run[r].pc = pc

\* Main is resolved and the open bumps are listed. That a run starts beside another is a fault too.
Start(r) ==
  /\ At(r, "idle")
  /\ IF \A s \in Runs : At(s, "idle") THEN UNCHANGED faults ELSE Fault
  /\ Goes(r, [Idle EXCEPT !.pc = "merge", !.target = main, !.todo = OpenPulls])
  /\ UNCHANGED <<main, base, branch, pull, moves>>

\* With its branch.
Close(t) == pull' = [pull EXCEPT ![t].state = "closed"] /\ branch' = [branch EXCEPT ![t] = NoBranch]

\* What the pull request and its comparison say: closed, held, moved onto its base, or worth its checks.
Judge(r) ==
  /\ At(r, "merge")
  /\ \E t \in run[r].todo :
       LET b == branch[t]
           next == [run[r] EXCEPT !.todo = @ \ {t}] IN
       \/ /\ pull[t].state = "open"
          /\ Changed(b) = {} \/ (OnlyPins(b, t, run[r].target) /\ Conflicts(b))
          /\ Close(t)
          /\ GoesPast(r, next, t)
       \/ /\ pull[t].state = "open"
          /\ Changed(b) # {} /\ OnlyPins(b, t, run[r].target) /\ ~Conflicts(b)
          /\ IF b.behind
             THEN /\ branch' = [branch EXCEPT ![t] = [@ EXCEPT !.from = base, !.behind = FALSE,
                                                               !.files = Joined(b), !.checks = "running"]]
                  /\ GoesPast(r, next, t)
             ELSE /\ Goes(r, [next EXCEPT !.pc = "checks", !.on = t, !.fresh = TRUE])
                  /\ UNCHANGED branch
          /\ UNCHANGED pull
       \* Held for a person, or no longer open.
       \/ /\ pull[t].state = "open" => Changed(b) # {} /\ ~OnlyPins(b, t, run[r].target)
          /\ Goes(r, next)
          /\ UNCHANGED <<branch, pull>>
  /\ UNCHANGED <<main, base, moves, faults>>

\* Every check of the head it read, and the reviews.
ReadChecks(r) ==
  /\ At(r, "checks")
  /\ LET t == run[r].on
         passed == run[r].fresh => branch[t].checks = "passed" IN
     Goes(r, IF passed /\ ~pull[t].asks THEN [run[r] EXCEPT !.pc = "squash"]
             ELSE [run[r] EXCEPT !.pc = "merge", !.on = 0, !.fresh = FALSE])
  /\ UNCHANGED <<main, base, branch, pull, moves, faults>>

\* The default branch has new files, and every branch made from the old ones is behind.
BaseBecomes(files, kept) ==
  /\ base' = files
  /\ branch' = [t \in Targets |-> IF kept[t].there THEN [kept[t] EXCEPT !.behind = TRUE] ELSE NoBranch]

\* Only at the head it judged; GitHub refuses another head, a conflict or a closed pull request.
Squash(r) ==
  /\ At(r, "squash")
  /\ LET t == run[r].on
         next == [run[r] EXCEPT !.pc = "merge", !.on = 0, !.fresh = FALSE] IN
     IF run[r].fresh /\ ~Conflicts(branch[t])
     THEN /\ pull' = [pull EXCEPT ![t].state = "merged"]
          \* The branch's deletion may fail.
          /\ \/ BaseBecomes(Joined(branch[t]), [branch EXCEPT ![t] = NoBranch]) /\ UNCHANGED faults
             \/ Fault /\ BaseBecomes(Joined(branch[t]), branch)
          /\ GoesPast(r, next, t)
     ELSE /\ Goes(r, next)
          /\ UNCHANGED <<base, branch, pull, faults>>
  /\ UNCHANGED <<main, moves>>

\* The texts to write, from the default branch as it is now.
Plan(r) ==
  /\ At(r, "merge") /\ run[r].todo = {}
  /\ LET t == run[r].target
         moving == Moving(base, t) IN
     IF moving = {} \/ HeldForTool(base, t)
     THEN Goes(r, Idle)
     ELSE Goes(r, [run[r] EXCEPT !.pc = "open",
                     !.text = [f \in moving |-> [base[f] EXCEPT !.pin = t]]])
  /\ UNCHANGED <<main, base, branch, pull, moves, faults>>

\* Not overdue and the lane busy: it waits for a later run.
Waits(r) ==
  /\ At(r, "open")
  /\ Goes(r, Idle)
  /\ UNCHANGED <<main, base, branch, pull, moves, faults>>

\* An open pull request of this target is taken as it is.
FindBump(r) ==
  /\ At(r, "open")
  /\ Goes(r, [run[r] EXCEPT !.pc = IF pull[run[r].target].state = "open" THEN "older" ELSE "branch"])
  /\ UNCHANGED <<main, base, branch, pull, moves, faults>>

\* (mutant) a branch left behind stops the bump
MakeBranch_New(r) ==
  /\ At(r, "branch")
  /\ LET t == run[r].target IN
     IF branch[t].there
     THEN Goes(r, Idle) /\ UNCHANGED branch
     ELSE /\ branch' = [branch EXCEPT ![t] = [NoBranch EXCEPT !.there = TRUE, !.from = base, !.files = base]]
          /\ GoesPast(r, [run[r] EXCEPT !.pc = "put"], t)
  /\ UNCHANGED <<main, base, pull, moves, faults>>

\* The branch starts from the default branch, again when an earlier bump left it.
MakeBranch(r) ==
  /\ At(r, "branch")
  /\ LET t == run[r].target IN
     /\ branch' = [branch EXCEPT ![t] = [NoBranch EXCEPT !.there = TRUE, !.from = base, !.files = base]]
     /\ GoesPast(r, [run[r] EXCEPT !.pc = "put"], t)
  /\ UNCHANGED <<main, base, pull, moves, faults>>

\* One commit per file, over the blob the default branch has now; the branch must have that blob.
PutFile(r) ==
  /\ At(r, "put")
  /\ \E f \in DOMAIN run[r].text :
       LET t == run[r].target
           left == [g \in DOMAIN run[r].text \ {f} |-> run[r].text[g]] IN
       IF branch[t].there /\ branch[t].files[f] = base[f]
       THEN /\ branch' = [branch EXCEPT ![t].files[f] = run[r].text[f], ![t].checks = "running"]
            /\ GoesPast(r, [run[r] EXCEPT !.text = left, !.pc = IF left = <<>> THEN "create" ELSE "put"], t)
       ELSE Goes(r, Idle) /\ UNCHANGED branch
  /\ UNCHANGED <<main, base, pull, moves, faults>>

\* GitHub refuses a second pull request of one branch, and one without a branch or a commit.
CreatePull(r) ==
  /\ At(r, "create")
  /\ LET t == run[r].target IN
     IF branch[t].there /\ Changed(branch[t]) # {} /\ pull[t].state # "open"
     THEN /\ pull' = [pull EXCEPT ![t] = [NoPull EXCEPT !.state = "open"]]
          /\ Goes(r, [run[r] EXCEPT !.pc = "older"])
     ELSE /\ Goes(r, Idle)
          /\ UNCHANGED pull
  /\ UNCHANGED <<main, base, branch, moves, faults>>

\* The open bumps whose target the new one includes.
ListOlder(r) ==
  /\ At(r, "older")
  /\ Goes(r, [run[r] EXCEPT !.pc = "close",
                            !.todo = {t \in OpenPulls \ {run[r].target} : OnMain(t, run[r].target)}])
  /\ UNCHANGED <<main, base, branch, pull, moves, faults>>

CloseOlder(r) ==
  /\ At(r, "close")
  /\ IF run[r].todo = {}
     THEN Goes(r, Idle) /\ UNCHANGED <<branch, pull>>
     ELSE \E t \in run[r].todo :
            IF pull[t].state = "open"
            THEN Close(t) /\ GoesPast(r, [run[r] EXCEPT !.todo = @ \ {t}], t)
            ELSE Goes(r, Idle) /\ UNCHANGED <<branch, pull>>
  /\ UNCHANGED <<main, base, moves, faults>>

\* A call fails or the run dies: what it did stays.
Dies(r) ==
  /\ ~At(r, "idle")
  /\ Fault
  /\ Goes(r, Idle)
  /\ UNCHANGED <<main, base, branch, pull, moves>>

----------------------------------------------------------------------------
(* GitHub, the catalog and people *)

ChecksEnd(t) ==
  /\ pull[t].state = "open" /\ branch[t].checks = "running"
  /\ \/ branch' = [branch EXCEPT ![t].checks = "passed"] /\ UNCHANGED faults
     \/ Fault /\ branch' = [branch EXCEPT ![t].checks = "failed"]
  /\ UNCHANGED <<main, base, pull, run, moves>>

CatalogMoves ==
  /\ main + 1 \in Commits
  /\ main' = main + 1
  /\ UNCHANGED <<base, branch, pull, run, moves, faults>>

\* A commit on the default branch: other lines, or a pin by hand.
BaseMoves ==
  /\ Moved
  /\ \E f \in Files, pin \in Commits :
       /\ pin <= main
       /\ BaseBecomes([base EXCEPT ![f] = [pin |-> pin, rest |-> @.rest + 1]], branch)
  /\ UNCHANGED <<main, pull, run, faults>>

\* A push onto a bump's branch: a pin elsewhere, or another line.
Meddle(t) ==
  /\ branch[t].there /\ pull[t].state = "open"
  /\ Moved
  /\ \E f \in Files :
       LET old == branch[t].files[f] IN
       \E new \in {[old EXCEPT !.pin = Off], [old EXCEPT !.pin = 0], [old EXCEPT !.rest = @ + 1]} :
         branch' = [branch EXCEPT ![t].files[f] = new, ![t].checks = "running"]
  /\ run' = Aged(run, t)
  /\ UNCHANGED <<main, base, pull, faults>>

Ask(t) ==
  /\ pull[t].state = "open" /\ ~pull[t].asks
  /\ Moved
  /\ pull' = [pull EXCEPT ![t].asks = TRUE]
  /\ UNCHANGED <<main, base, branch, run, faults>>

\* By hand, the branch kept.
CloseByHand(t) ==
  /\ pull[t].state = "open"
  /\ Moved
  /\ pull' = [pull EXCEPT ![t].state = "closed"]
  /\ run' = Aged(run, t)
  /\ UNCHANGED <<main, base, branch, faults>>

Init ==
  /\ main = 0
  /\ base = FirstFiles
  /\ branch = [t \in Targets |-> NoBranch]
  /\ pull = [t \in Targets |-> NoPull]
  /\ run = [r \in Runs |-> Idle]
  /\ moves = 0 /\ faults = 0

RunStep(r) == \/ Start(r) \/ Judge(r) \/ ReadChecks(r) \/ Squash(r) \/ Plan(r) \/ FindBump(r)
              \/ MakeBranch(r) \/ PutFile(r) \/ CreatePull(r) \/ ListOlder(r) \/ CloseOlder(r)
People == BaseMoves \/ \E t \in Targets : Meddle(t) \/ Ask(t) \/ CloseByHand(t)
Next == (\E r \in Runs : RunStep(r) \/ Waits(r) \/ Dies(r))
        \/ CatalogMoves \/ People \/ \E t \in Targets : ChecksEnd(t)

\* Runs are scheduled again and again and a waiting one is overdue in the end; checks end.
Spec == /\ Init /\ [][Next]_vars
        /\ \A r \in Runs : WF_vars(RunStep(r)) /\ SF_vars(FindBump(r))
        /\ \A t \in Targets : WF_vars(ChecksEnd(t))
----------------------------------------------------------------------------
(* Properties *)

Pinned == [pin : Commits \cup {Off}, rest : Nat]
Steps == {"idle", "merge", "checks", "squash", "open", "branch", "put", "create", "older", "close"}

\* The type invariant.
TypeOK ==
  /\ main \in Commits /\ base \in [Files -> Pinned] /\ moves \in Nat /\ faults \in Nat
  /\ branch \in [Targets -> [there : BOOLEAN, from : [Files -> Pinned], behind : BOOLEAN, files : [Files -> Pinned],
                             checks : {"running", "passed", "failed"}]]
  /\ pull \in [Targets -> [state : {"none", "open", "closed", "merged"}, asks : BOOLEAN]]
  /\ run \in [Runs -> [pc : Steps, target : Commits, todo : SUBSET Targets, on : Commits, fresh : BOOLEAN,
                       text : {run[r].text : r \in Runs}]]
  /\ \A r \in Runs : run[r].text \in [DOMAIN run[r].text -> Pinned] /\ DOMAIN run[r].text \subseteq Files

\* A bump is merged at the head it was judged at, held to what a person would check: its checks
\* passed there, and its merge changes nothing but pins, each to the commit of main the branch is
\* named for, whatever was pushed to the branch or the base between plan, judgement and merge.
MergesOnlyPins ==
  [][\A r \in Runs : At(r, "squash") /\ run'[r] # run[r] /\ base' # base =>
       LET t == run[r].on IN
       /\ branch[t].checks = "passed" /\ OnMain(t, main)
       /\ \A f \in Files : /\ base'[f].rest = base[f].rest
                           /\ base'[f].pin \in {base[f].pin, t}]_vars

\* A run that trusts what it judged has on its bump's branch what it judged there, and, once it may
\* merge, the checks it read; and the commit it pins to is on main.
JudgementHolds ==
  /\ \A t \in Targets : pull[t].state = "open" => branch[t].there
  /\ \A r \in Runs :
       /\ run[r].target <= main
       /\ run[r].fresh => /\ branch[run[r].on].there
                          /\ OnlyPins(branch[run[r].on], run[r].on, run[r].target)
                          /\ At(r, "squash") => branch[run[r].on].checks = "passed"

\* A bump that waits for a person: a check failed, a review asks, a line that is not a pin, or the
\* stale pins would move a tool.
HeldBump(t) == pull[t].state = "open" /\ (pull[t].asks \/ branch[t].checks = "failed" \/ ~OnlyPins(branch[t], t, main))
Held == HeldForTool(base, main) \/ \E t \in Targets : HeldBump(t)

\* A bump left half made, closed with its branch kept or overtaken does not stop the pins: again and
\* again every pin is current, or something is held for a person.
PinsFollow == []<>(Moving(base, main) = {} \/ Held)
=============================================================================
