------------------------------- MODULE PullSync -------------------------------
(***************************************************************************)
(* pull-sync on one repository: a run reads the default branch and every   *)
(* open pull request in one query, judges them, gives the free slots out   *)
(* and then writes row by row: GitHub's "update branch" and the conflict   *)
(* label.  People push, checks run and the default branch moves between    *)
(* the read and a write.  Reading again while GitHub has not said which    *)
(* merge cleanly changes nothing else: only the last read is a step.  The  *)
(* workflow keeps two runs from overlapping.                               *)
(***************************************************************************)
EXTENDS FiniteSets, Integers

CONSTANTS
  Pulls,         \* numbers, in the order GitHub lists them
  MaxInFlight,
  Strict,        \* the default branch merges only a head that is up to date with it
  CountsBehind,  \* a status that is red while a head is behind, and is not in --needs-update
  MaxPushes,     \* what people do
  MaxBroken      \* calls that fail, and runs that die

ASSUME SyncAssumption ==
  /\ Pulls \subseteq Nat /\ IsFiniteSet(Pulls)
  /\ MaxInFlight \in Nat
  /\ MaxPushes \in Nat /\ MaxBroken \in Nat

VARIABLES
  pulls,    \* the pull requests, as GitHub has them
  acting,   \* a run has its plan
  rows,     \* its rows not yet written
  pushes, broken

syncVars == <<pulls, acting, rows, pushes, broken>>

Breaks == broken < MaxBroken /\ broken' = broken + 1
Acts == pushes < MaxPushes /\ pushes' = pushes + 1

\* added: the head is an update a run made in a free slot.  judged: it is the head the run read.
Fresh == [update |-> FALSE, added |-> FALSE, judged |-> FALSE, new |-> TRUE, checks |-> "none",
          behind |-> FALSE, clean |-> TRUE, merges |-> "UNKNOWN", mode |-> "open", label |-> FALSE]

----------------------------------------------------------------------------
(* Judging *)

\* "red": a check failed and another has not finished.
running(p) == p.checks \in {"running", "red"}

\* The rollup's state, without a status whose failure only asks for the update.
checks(p) ==
  CASE p.checks = "none" -> ""
    [] p.checks \in {"red", "failed"} \/ (CountsBehind /\ p.behind) -> "FAILURE"
    [] p.checks = "running" -> "PENDING"
    [] OTHER -> "SUCCESS"

\* (mutant) an updated head without checks yet holds no slot
holds_slot_Running(p) == p.update /\ running(p)

holds_slot(p) == p.update /\ (running(p) \/ (p.checks = "none" /\ p.new))

ready(p) == p.mode = "open" /\ checks(p) = "SUCCESS"

Judged(p) == p.mode # "out" /\ p.merges = "MERGEABLE" /\ p.behind

\* Behind with checks running: replaced where they can never count.
Replaces(p, strict) ==
  Judged(p) /\ running(p) /\ strict /\ p.mode = "open" /\ checks(p) # "FAILURE" /\ ~p.new

\* quiet: nothing changed it lately.  stale: its head is old.
Candidate(p, quiet, stale) == Judged(p) /\ ~running(p) /\ quiet /\ (ready(p) \/ stale)

\* Added for a conflict, taken off once GitHub says it merges.
LabelChange(p) ==
  CASE p.mode = "out" -> "keep"
    [] p.merges = "CONFLICTING" /\ ~p.label -> "add"
    [] p.merges = "MERGEABLE" /\ p.label -> "remove"
    [] OTHER -> "keep"

free(all) == LET held == Cardinality({n \in Pulls : holds_slot(all[n])}) IN
             IF held > MaxInFlight THEN 0 ELSE MaxInFlight - held

\* Ready ones first, then the oldest.
Before(all, m, n) == IF ready(all[m]) = ready(all[n]) THEN m < n ELSE ready(all[m])

Slotted(all, candidates) ==
  {n \in candidates : Cardinality({m \in candidates : Before(all, m, n)}) < free(all)}

plan(all, strict, quiet, stale) ==
  LET slotted == Slotted(all, {n \in Pulls : Candidate(all[n], n \in quiet, n \in stale)})
      row == [n \in Pulls |->
                [sync |-> n \in slotted \/ Replaces(all[n], strict), label |-> LabelChange(all[n]),
                 replaces |-> Replaces(all[n], strict)]] IN
  [n \in {m \in Pulls : row[m].sync \/ row[m].label # "keep"} |-> row[n]]

----------------------------------------------------------------------------
(* A run *)

Old == {n \in Pulls : ~pulls[n].new}

\* A rule this token cannot read counts as not strict.
requires_up_to_date == {Strict, FALSE}

Judge ==
  /\ ~acting
  /\ \E strict \in requires_up_to_date, quiet \in SUBSET Old : \E stale \in SUBSET Old :
       rows' = plan(pulls, strict, quiet, stale)
  /\ acting' = (rows' # <<>>)
  /\ pulls' = [n \in Pulls |-> [pulls[n] EXCEPT !.judged = n \in DOMAIN rows']]
  /\ UNCHANGED <<pushes, broken>>

\* The default branch is merged into a head that merges cleanly.
Updated(p, added) ==
  [p EXCEPT !.update = TRUE, !.added = added, !.judged = FALSE, !.new = TRUE,
            !.checks = "none", !.behind = FALSE, !.merges = "UNKNOWN"]

\* The call names the head the row was judged on: GitHub refuses another one.
Sent(n) ==
  LET p == pulls[n] IN
  IF rows[n].sync /\ p.judged /\ p.behind /\ p.clean THEN Updated(p, p.added \/ ~rows[n].replaces) ELSE p

Labelled(p, change) == IF change = "keep" THEN p ELSE [p EXCEPT !.label = change = "add"]

\* A row's calls: one that fails stops neither the other nor the next row.
WriteRow ==
  /\ acting
  /\ LET n == CHOOSE m \in DOMAIN rows : \A k \in DOMAIN rows : m <= k IN
     /\ \/ pulls' = [pulls EXCEPT ![n] = [Labelled(Sent(n), rows[n].label) EXCEPT !.judged = FALSE]]
           /\ UNCHANGED broken
        \/ /\ Breaks
           /\ \E p \in {Sent(n), Labelled(pulls[n], rows[n].label)} :
                pulls' = [pulls EXCEPT ![n] = [p EXCEPT !.judged = FALSE]]
     /\ rows' = [m \in DOMAIN rows \ {n} |-> rows[m]]
     /\ acting' = (rows' # <<>>)
  /\ UNCHANGED pushes

\* Killed between two writes.
Killed ==
  /\ acting
  /\ Breaks
  /\ acting' = FALSE /\ rows' = <<>>
  /\ pulls' = [n \in Pulls |-> [pulls[n] EXCEPT !.judged = FALSE]]
  /\ UNCHANGED pushes

----------------------------------------------------------------------------
(* GitHub and people *)

Becomes(n, p) == pulls' = [pulls EXCEPT ![n] = p] /\ UNCHANGED <<acting, rows>>

Push(n) ==
  /\ Acts
  /\ \E behind, clean \in BOOLEAN :
       /\ behind => pulls[n].behind
       /\ clean \/ behind
       /\ Becomes(n, [Fresh EXCEPT !.behind = behind, !.clean = clean, !.mode = pulls[n].mode,
                                   !.label = pulls[n].label])
  /\ UNCHANGED broken

\* The button of the pull request's page.
PressUpdate(n) ==
  /\ Acts
  /\ pulls[n].behind /\ pulls[n].clean
  /\ Becomes(n, Updated(pulls[n], FALSE))
  /\ UNCHANGED broken

\* A draft, opted out, or neither.
Edit(n) ==
  /\ Acts
  /\ \E mode \in {"open", "draft", "out"} \ {pulls[n].mode} : Becomes(n, [pulls[n] EXCEPT !.mode = mode])
  /\ UNCHANGED broken

\* Its checks run again: that load is the person's.
Rerun(n) ==
  /\ Acts
  /\ pulls[n].checks \in {"passed", "failed"}
  /\ Becomes(n, [pulls[n] EXCEPT !.checks = "running", !.added = FALSE])
  /\ UNCHANGED broken

MainMoves ==
  /\ Acts
  /\ \E clash \in SUBSET Pulls :
       pulls' = [n \in Pulls |-> [pulls[n] EXCEPT !.behind = TRUE, !.merges = "UNKNOWN",
                                                  !.clean = @ /\ n \notin clash]]
  /\ UNCHANGED <<acting, rows, broken>>

\* GitHub worked out whether it merges.
Settles(n) ==
  /\ pulls[n].merges = "UNKNOWN"
  /\ Becomes(n, [pulls[n] EXCEPT !.merges = IF pulls[n].clean THEN "MERGEABLE" ELSE "CONFLICTING"])
  /\ UNCHANGED <<pushes, broken>>

\* Checks register before the quiet minutes are over, or not at all.
Checked(n) ==
  /\ LET p == pulls[n] IN
     \E state \in CASE p.checks = "none" /\ p.new -> {"running"}
                    [] p.checks = "running" -> {"red", "passed", "failed"}
                    [] p.checks = "red" -> {"failed"}
                    [] OTHER -> {} :
       Becomes(n, [p EXCEPT !.checks = state])
  /\ UNCHANGED <<pushes, broken>>

Ages(n) ==
  /\ pulls[n].new
  /\ Becomes(n, [pulls[n] EXCEPT !.new = FALSE])
  /\ UNCHANGED <<pushes, broken>>

Init ==
  /\ pulls = [n \in Pulls |-> Fresh]
  /\ acting = FALSE /\ rows = <<>>
  /\ pushes = 0 /\ broken = 0

Next == \/ Judge \/ WriteRow \/ Killed \/ MainMoves
        \/ \E n \in Pulls : \/ Push(n) \/ PressUpdate(n) \/ Edit(n) \/ Rerun(n)
                           \/ Settles(n) \/ Checked(n) \/ Ages(n)

Spec == Init /\ [][Next]_syncVars
----------------------------------------------------------------------------
(* Properties *)

\* The load the runs add: whatever happened between a read and its writes, and whatever an earlier
\* run left behind, no more heads a run made in a free slot hold one at a time than may be in flight.
LoadBounded == Cardinality({n \in Pulls : pulls[n].added /\ holds_slot(pulls[n])}) <= MaxInFlight
=============================================================================
