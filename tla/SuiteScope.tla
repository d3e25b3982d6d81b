----------------------------- MODULE SuiteScope -----------------------------
(***************************************************************************)
(* Whether a pull request's diff can change what a slow suite verifies     *)
(* (actions/suite-scope).  Each head has a run of its own: it reads the    *)
(* pull request, the inert list on the default branch and the changed      *)
(* files page by page, and where every changed path is inert it posts the  *)
(* suite's statuses as not applicable.  Meanwhile its author pushes,       *)
(* retargets the pull request, and lists merge.                            *)
(*                                                                         *)
(* A commit is the head once, and the pull request is retargeted once: a   *)
(* run cannot tell that either was undone before it looked again.          *)
(***************************************************************************)
EXTENDS FiniteSets, Naturals, Sequences, SequencesExt

CONSTANTS
  Commits,     \* the heads, one after the other: 1, 2, ...
  Diffs,       \* what the heads change, each a sequence of [name, from] (from: "" or a renamed file's old name):
               \* [changes, above], against the default branch and against the one it may be stacked on
  Reads,       \* the paths the suite reads, or what it tests is built from
  Lists,       \* what a pull request may bring for a list: [there, sound, inert, never]
  Own,         \* the list the heads bring
  Contexts,
  Listed,      \* GitHub lists at most so many files; a page of the model holds one
  MaxMerges, MaxSlips

\* Heads are numbered from 1 and change sequences of files; no path is empty.
Lawful ==
  /\ Commits \in SUBSET Nat /\ 1 \in Commits /\ "" \notin Reads
  /\ \A diff \in Diffs : \A c \in Commits : diff.changes[c] \in Seq(ToSet(diff.changes[c]))

VARIABLES
  pr,      \* the pull request: its diff, its head, whether it targets another branch, whether it was retargeted
  list,    \* the list on the default branch
  merges,  \* how many have merged
  runs,    \* each head's run: where it is, the count it read, the list, the files, the contexts to post
  posted,  \* the statuses of each head
  slips    \* how often GitHub answered wrong or not at all

scopeVars == <<pr, list, merges, runs, posted, slips>>

----------------------------------------------------------------------------
(* GitHub *)

FilesNow == IF pr.stacked THEN pr.diff.above[pr.head] ELSE pr.diff.changes[pr.head]
\* No list there, a malformed one, one that names nothing inert.
parse_list(given) == IF given.there /\ given.sound THEN [inert |-> given.inert, never |-> given.never]
                                                   ELSE [inert |-> {}, never |-> {}]

under_e2e(path) == path = "e2e"
is_inert(path, patterns) == ~under_e2e(path) /\ path \in patterns.inert \ patterns.never

\* The list a pull request would merge is checked by what the suite reads; none at all needs no check.
check(given) == given.there => given.sound /\ \A path \in Reads : ~is_inert(path, parse_list(given))

Waiting == [at |-> "pull", count |-> 0, patterns |-> [inert |-> {}, never |-> {}], files |-> <<>>, left |-> Contexts, tries |-> 3]

Push ==
  /\ pr.head + 1 \in Commits
  /\ pr' = [pr EXCEPT !.head = @ + 1]
  /\ runs' = [runs EXCEPT ![pr.head + 1] = Waiting]
  /\ UNCHANGED <<list, merges, posted, slips>>

Retarget ==
  /\ ~pr.retargeted
  /\ pr' = [pr EXCEPT !.stacked = ~@, !.retargeted = TRUE]
  /\ UNCHANGED <<list, merges, runs, posted, slips>>

ListMerges ==
  /\ merges < MaxMerges
  /\ \E given \in Lists : check(given) /\ list' = given
  /\ merges' = merges + 1
  /\ UNCHANGED <<pr, runs, posted, slips>>

----------------------------------------------------------------------------
(* The decision: every doubt runs the suite *)

Step(sha, run) ==
  /\ runs' = [runs EXCEPT ![sha] = run]
  /\ UNCHANGED <<pr, list, merges, posted>>
RunSuite(sha) == Step(sha, [runs[sha] EXCEPT !.at = "suite"])

\* GitHub does not answer a read.
gh(sha) ==
  /\ runs[sha].at \in {"pull", "list", "files"} /\ slips < MaxSlips
  /\ slips' = slips + 1 /\ RunSuite(sha)

judge(sha) ==
  LET count == Len(FilesNow) IN
  /\ runs[sha].at = "pull"
  /\ \/ /\ pr.head # sha \/ pr.stacked \/ count < 1 \/ count > Listed
        /\ RunSuite(sha)
     \/ /\ pr.head = sha /\ ~pr.stacked /\ count \in 1..Listed
        /\ Step(sha, [runs[sha] EXCEPT !.at = "list", !.count = count])
  /\ UNCHANGED slips

\* (mutant) the list as the head has it
base_list_Head == parse_list(Own)

base_list == parse_list(list)

ReadList(sha) ==
  /\ runs[sha].at = "list"
  /\ IF base_list.inert = {} THEN RunSuite(sha)
     ELSE Step(sha, [runs[sha] EXCEPT !.at = "files", !.patterns = base_list])
  /\ UNCHANGED slips

\* A page of the files as they are now; a slip is an empty page, or a file of an earlier one again.
ReadPage(sha) ==
  LET files == runs[sha].files
      page == IF Len(files) < Len(FilesNow) THEN <<FilesNow[Len(files) + 1]>> ELSE <<>>
      wrong == {<<>>} \cup {<<files[i]>> : i \in DOMAIN files} IN
  /\ runs[sha].at = "files"
  /\ \E answer \in {page} \cup {w \in wrong : slips < MaxSlips} :
       /\ slips' = slips + IF answer = page THEN 0 ELSE 1
       /\ Step(sha, [runs[sha] EXCEPT !.files = files \o answer,
                     !.at = IF answer = <<>> \/ Len(files) + 1 = runs[sha].count THEN "judge" ELSE "files"])

\* Every file the pull request reports, each once
listed(sha) ==
  LET files == runs[sha].files IN
  Len(files) = runs[sha].count /\ Cardinality({f.name : f \in ToSet(files)}) = runs[sha].count

\* Both names of a rename
changed_paths(sha) == (UNION {{f.name, f.from} : f \in ToSet(runs[sha].files)}) \ {""}

decide(sha) ==
  /\ runs[sha].at = "judge"
  /\ Step(sha, [runs[sha] EXCEPT
       !.at = IF listed(sha) /\ \A path \in changed_paths(sha) : is_inert(path, runs[sha].patterns)
              THEN "post" ELSE "suite"])
  /\ UNCHANGED slips

----------------------------------------------------------------------------
(* The statuses, one by one; a third refusal of one fails the step *)

post(sha) ==
  LET run == runs[sha] IN
  /\ run.at = "post" /\ run.left # {}
  /\ LET context == CHOOSE c \in run.left : TRUE IN
     \/ /\ posted' = [posted EXCEPT ![sha] = @ \cup {context}]
        /\ runs' = [runs EXCEPT ![sha] = [run EXCEPT !.left = run.left \ {context}, !.tries = 3]]
        /\ UNCHANGED slips
     \/ /\ slips < MaxSlips /\ slips' = slips + 1
        /\ runs' = [runs EXCEPT ![sha] = [run EXCEPT !.tries = run.tries - 1,
                                                    !.at = IF run.tries = 1 THEN "failed" ELSE "post"]]
        /\ UNCHANGED posted
  /\ UNCHANGED <<pr, list, merges>>

----------------------------------------------------------------------------

Init ==
  /\ \E diff \in Diffs, stacked \in BOOLEAN : pr = [diff |-> diff, head |-> 1, stacked |-> stacked, retargeted |-> FALSE]
  /\ list \in {given \in Lists : check(given)}
  /\ merges = 0
  /\ runs = [c \in Commits |-> IF c = 1 THEN Waiting ELSE [Waiting EXCEPT !.at = "none"]]
  /\ posted = [c \in Commits |-> {}]
  /\ slips = 0

Next ==
  \/ Push \/ Retarget \/ ListMerges
  \/ \E sha \in Commits : gh(sha) \/ judge(sha) \/ ReadList(sha) \/ ReadPage(sha) \/ decide(sha) \/ post(sha)

Spec == Init /\ [][Next]_scopeVars

----------------------------------------------------------------------------
(* Properties *)

\* The suite is skipped only for a diff it cannot see: where the head of a pull request to the default branch
\* has a status posted as not applicable, the head changes nothing the suite reads - whatever was pushed,
\* retargeted or merged and whatever GitHub left unread while the run looked.
SkipIsInert ==
  posted[pr.head] # {} /\ ~pr.stacked =>
    \A file \in ToSet(pr.diff.changes[pr.head]) : file.name \notin Reads /\ file.from \notin Reads
=============================================================================
