------------------------------ MODULE Mutation ------------------------------
(***************************************************************************)
(* A run of changed-code-mutation: the lines a pull request changed are    *)
(* broken one small change (a mutant) at a time, and the project's tests   *)
(* must notice enough of them.  StrykerJS judges JS and TS, mutmut Python  *)
(* (_mutation_python.py), and one score covers both: there is never a      *)
(* verdict on part of the change.                                          *)
(*                                                                         *)
(* A file is [lang, test, inside, spans, mutants]: whether it is a test,   *)
(* whether it is under --project, the lines the pull request changed, and  *)
(* what can be broken in it.  A mutant is [line, fate, first, original,    *)
(* copy, decorated]: the line it breaks, what the tests do on it, and for  *)
(* mutmut the line of its function's def, the function's lines and the     *)
(* mutant's, and whether the function is one mutmut leaves alone.          *)
(***************************************************************************)
EXTENDS Naturals, Sequences, FiniteSets, FiniteSetsExt

CONSTANTS
  Pulls,   \* what a pull request may change: sets of files
  Tools,   \* how the tools may run: [installed, fails (exits with an error), matched (finds every file it was asked to
           \* mutate), refused (a connection), stats (mutmut saw a test reach the code), suite (pytest's exit without any
           \* mutant: "passes", "fails" or "none")]
  Break,   \* the lowest passing score
  MaxFiles

VARIABLES
  files, tools,
  pc, tried, \* the mutants with a result: [of (the file), mutant, result]
  verdict

mutationVars == <<files, tools, pc, tried, verdict>>

Init ==
  /\ files \in Pulls /\ tools \in [{"script", "python"} -> Tools]
  /\ pc = "check" /\ tried = {} /\ verdict = "none"

\* A mutant of mutmut breaks the line where it first differs from its function, or where one of the two ends.
Breaks(m) ==
  LET at == m.line - m.first + 1 IN
  /\ m.first \in Nat /\ m.line \in Nat /\ m.original \in Seq(STRING) /\ m.copy \in Seq(STRING)
  /\ at \in 1..Len(m.original) /\ at \in 1..Len(m.copy)
  /\ \A i \in 1..(at - 1) : m.original[i] = m.copy[i]
  /\ m.original[at] # m.copy[at] \/ at = Len(m.original) \/ at = Len(m.copy)
Lawful(fs) ==
  \A f \in fs : f.lang \in {"script", "python"} /\ (f.lang = "python" => \A m \in f.mutants : m.decorated \/ Breaks(m))

----------------------------------------------------------------------------
(* What is judged *)

\* Tests are never mutated, files outside --project not judged, deletions nothing to mutate.
judged_ranges == {f \in files : ~f.test /\ f.inside /\ f.spans # {}}
Of(lang) == {f \in judged_ranges : f.lang = lang}

KILLED == {"killed"}
UNDETECTED == {"survived", "not covered"}
EXCLUDED == {"timed out", "broken", "disabled"}

End(v) == pc' = "done" /\ verdict' = v
CannotRun == End("cannot run") /\ UNCHANGED tried

\* A kill cannot be told from a connection the run refused.
judge(lang) == tools[lang].refused /\ \E r \in tried' : r.of.lang = lang /\ r.result \in KILLED

check ==
  /\ pc = "check"
  /\ IF judged_ranges = {} THEN End("passes") /\ UNCHANGED tried
     ELSE IF Cardinality(judged_ranges) > MaxFiles THEN CannotRun
     ELSE pc' = (IF Of("script") # {} THEN "script" ELSE "generate") /\ UNCHANGED <<tried, verdict>>
  /\ UNCHANGED <<files, tools>>

----------------------------------------------------------------------------
(* JS and TS *)

Mutants(lang, on(_)) == UNION {{<<f, m>> : m \in {m \in f.mutants : on(m) \in f.spans}} : f \in Of(lang)}

\* StrykerJS mutates only the line ranges it is given; a status it does not know is a run that did not finish.
Results(lang, results) ==
  /\ tried' = tried \cup results
  /\ IF (\E r \in results : r.result \notin KILLED \cup UNDETECTED \cup EXCLUDED) \/ judge(lang)
     THEN End("cannot run")
     ELSE pc' = (IF lang = "script" /\ Of("python") # {} THEN "generate" ELSE "verdict") /\ UNCHANGED verdict

stryker_run ==
  /\ pc = "script"
  /\ LET t == tools["script"]
     IN  IF ~t.installed \/ t.fails \/ ~t.matched THEN CannotRun
         ELSE Results("script", {[of |-> c[1], mutant |-> c[2], result |-> c[2].fate] : c \in Mutants("script", LAMBDA m : m.line)})
  /\ UNCHANGED <<files, tools>>

----------------------------------------------------------------------------
(* Python *)

\* mutmut generates every function's mutants and runs the suite once.  Without stats, pytest says whether the
\* suite fails or no test reaches the code.
collect ==
  /\ pc = "generate"
  /\ LET t == tools["python"]
     IN  IF ~t.installed \/ (~t.stats /\ t.suite = "fails") THEN CannotRun
         ELSE pc' = "select" /\ UNCHANGED <<tried, verdict>>
  /\ UNCHANGED <<files, tools>>

\* The source line where a mutant first differs from its function; the last when one is the other's start.
place(m) ==
  LET shorter == Min({Len(m.original), Len(m.copy)})
      differ == {i \in 1..shorter : m.original[i] # m.copy[i]}
  IN  m.first + (IF differ = {} THEN shorter ELSE Min(differ)) - 1

\* No mutant is made in a decorated function, nor in a nested class.
functions(f) == {m \in f.mutants : ~m.decorated}

\* The mutants on changed lines, if mutmut wrote any for each file with functions it mutates.
select == {c \in Mutants("python", place) : c[2] \in functions(c[1])}

\* Only those run, each against the tests that reach its function; uncovered, none has to.
mutate ==
  /\ pc = "select"
  /\ LET t == tools["python"]
         classify(c) == [of |-> c[1], mutant |-> c[2], result |-> IF t.stats THEN c[2].fate ELSE "not covered"]
     IN  IF ~t.matched THEN CannotRun ELSE Results("python", {classify(c) : c \in select})
  /\ UNCHANGED <<files, tools>>

----------------------------------------------------------------------------
(* The score, and an end before it *)

Count(result) == Cardinality({r \in tried : r.result \in result})

\* (mutant) A mutant no test reaches is left out of the score.
score_Run ==
  /\ pc = "verdict"
  /\ LET scored == Count(KILLED) + Count({"survived"})
     IN  End(IF scored = 0 \/ 100 * Count(KILLED) >= Break * scored THEN "passes" ELSE "fails")
  /\ UNCHANGED <<files, tools, tried>>

score ==
  /\ pc = "verdict"
  /\ LET scored == Count(KILLED) + Count(UNDETECTED)
     IN  End(IF scored = 0 \/ 100 * Count(KILLED) >= Break * scored THEN "passes" ELSE "fails")
  /\ UNCHANGED <<files, tools, tried>>

\* The time is up, the guard refuses what a run inherits, or a report cannot be read.
Stops ==
  /\ pc \in {"script", "generate", "select"}
  /\ CannotRun /\ UNCHANGED <<files, tools>>

Next == check \/ stryker_run \/ collect \/ mutate \/ score \/ Stops

Spec == Init /\ [][Next]_mutationVars

----------------------------------------------------------------------------
(* Property *)

\* What the tests do on a mutant, when no test reached its code nothing.
Truth(f, m) == IF f.lang = "python" /\ ~tools["python"].stats THEN "not covered" ELSE m.fate
Noticeable(f) == {m \in f.mutants : m.line \in f.spans /\ ~(f.lang = "python" /\ m.decorated)}
Change(result) == UNION {{<<f, m>> : m \in {m \in Noticeable(f) : Truth(f, m) \in result}} : f \in judged_ranges}

\* A verdict counts every mutant of every changed line under the project, in either language, each by what the
\* tests did on it: none missed because its file, its line or its result was, no kill owed to a refused
\* connection; and it passes exactly when enough of those that a test could notice were (judged_ranges, place,
\* stryker_results, classify, verdict).
ScoreOfWhole ==
  pc = "done" /\ verdict \in {"passes", "fails"} =>
    LET killed == Cardinality(Change({"killed"}))
        scored == killed + Cardinality(Change({"survived", "not covered"}))
    IN  /\ Change({"unfinished"}) = {}
        /\ \A lang \in {"script", "python"} :
             tools[lang].refused => \A c \in Change({"killed"}) : c[1].lang # lang
        /\ verdict = "passes" <=> 100 * killed >= Break * scored
=============================================================================
