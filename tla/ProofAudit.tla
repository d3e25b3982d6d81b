----------------------------- MODULE ProofAudit -----------------------------
(***************************************************************************)
(* The proof audit of a pull request (gates/_proof_audit.py,               *)
(* gates/proof_audit.py) and ticket-coverage beside it.  A plan step reads *)
(* what the body owes and cuts it into shards; a job for each has a model  *)
(* grade its requirements; and the gate reads what the body owes again and *)
(* holds each grade to the repository.  The model's output is anything at  *)
(* all.  Meanwhile the body may be edited and the stored plan amended.     *)
(*                                                                         *)
(* A test file is its blocks: a test [title, body] or, with no title, what *)
(* is outside every test; a body is the kinds of its lines, "assert",      *)
(* "open" (a call opened and not closed) and "value" (the rest of it).     *)
(***************************************************************************)
EXTENDS Requirements

CONSTANTS
  Plans,      \* the plans a repository may have at its merge base, each clean under ticket-coverage
  Stored,     \* the plan in the store
  Amendments, \* what may be appended to it
  Bodies,     \* the bodies
  Paths,      \* the paths there are at HEAD
  Tests,      \* the blocks of the test file
  Outputs,    \* what the model may say of a requirement: sequences of grades [status, quotes, owner], a quote being
              \* [title, line, text]
  MaxIds,     \* requirements in a shard
  MaxAmendments, MaxEdits

VARIABLES
  sections, stored, body, edits,
  cuts,    \* the shards the plan step planned
  graded,  \* each graded shard's envelope: [error, output (from the ID to its grades)]
  verdicts \* what each gate said: "none", "passes", "fails" or "cannot run"

auditVars == <<sections, stored, body, edits, cuts, graded, verdicts>>

Unplanned == <<{}>>
NoVerdict == [trace |-> "none", audit |-> "none"]

Init ==
  /\ sections \in {p \in Plans : plan_findings(p) = {}}
  /\ stored = Stored /\ body \in Bodies /\ edits = 0
  /\ cuts = Unplanned /\ graded = [k \in {} |-> 0] /\ verdicts = NoVerdict

----------------------------------------------------------------------------
(* What is audited *)

FromStore == IF body.marker THEN plan_requirements(stored) ELSE {}
Owed == linked_requirements(sections, body) \cup FromStore
Split == split_offs(body)

\* The plan is read from the store itself; a body that cannot be read whole owes nothing that is known.
Unreadable == (body.marker /\ FromStore = {}) \/ split_problem(body, Owed, FromStore)

shards(ids) ==
  LET count == (Cardinality(ids) + MaxIds - 1) \div MaxIds
      size(k) == (Cardinality(ids) \div count) + (IF k <= Cardinality(ids) % count THEN 1 ELSE 0)
      before(k) == IF k = 1 THEN 0 ELSE FoldLeft(LAMBDA n, j : n + size(j), 0, [j \in 1..(k - 1) |-> j])
      order == SetToSeq(ids)
  IN  IF ids = {} THEN <<>> ELSE [k \in 1..count |-> Range(SubSeq(order, before(k) + 1, before(k) + size(k)))]

plan_of ==
  /\ cuts = Unplanned /\ ~Unreadable
  /\ cuts' = shards(Owed \ Split)
  /\ UNCHANGED <<sections, stored, body, edits, graded, verdicts>>

\* A shard's envelope: the model's output, or why there is none (its CLI's error, a timeout, no JSON, or a
\* working tree it changed).
grade(k) ==
  /\ cuts # Unplanned /\ k \in DOMAIN cuts /\ k \notin DOMAIN graded /\ verdicts = NoVerdict
  /\ \E output \in [cuts[k] -> Outputs], error \in BOOLEAN :
       graded' = [j \in DOMAIN graded \cup {k} |-> IF j = k THEN [error |-> error, output |-> output] ELSE graded[j]]
  /\ UNCHANGED <<sections, stored, body, edits, cuts, verdicts>>

EditBody ==
  /\ verdicts = NoVerdict /\ edits < MaxEdits /\ edits' = edits + 1
  /\ body' \in Bodies \ {body}
  /\ UNCHANGED <<sections, stored, cuts, graded, verdicts>>

Amend ==
  /\ verdicts = NoVerdict /\ Len(stored.amendments) < MaxAmendments
  /\ \E text \in Amendments : stored' = [stored EXCEPT !.amendments = Append(@, text)]
  /\ UNCHANGED <<sections, body, edits, cuts, graded, verdicts>>

----------------------------------------------------------------------------
(* The test file, as lines *)

Lines ==
  FlattenSeq([b \in DOMAIN Tests |->
    (IF Tests[b].title = "" THEN <<>> ELSE <<[kind |-> "test", text |-> Tests[b].title]>>)
      \o [i \in DOMAIN Tests[b].body |-> [kind |-> IF Tests[b].title = "" THEN "outside" ELSE Tests[b].body[i].kind,
                                          text |-> Tests[b].body[i].text]]
      \o (IF Tests[b].title = "" THEN <<>> ELSE <<[kind |-> "closer", text |-> "});"]>>)])

declaration_above(n) ==
  LET above == {i \in 1..(n - 1) : Lines[i].kind = "test"}
  IN  IF above = {} THEN 0 ELSE CHOOSE i \in above : \A j \in above : j <= i

\* (mutant) The test above a line is the one it is in.
body_end_None(start) == Len(Lines)

\* The line that closes a test, or the last one before what is outside.
body_end(start) ==
  CHOOSE e \in start..Len(Lines) :
    /\ e = Len(Lines) \/ Lines[e].kind = "closer" \/ Lines[e + 1].kind \in {"outside", "test"}
    /\ \A i \in start..(e - 1) : Lines[i].kind # "closer" /\ Lines[i + 1].kind \notin {"outside", "test"}

\* A value is short, and counts as a line of the assertion that is open above it in the same test.
continues_assertion(n) == n > 1 /\ Lines[n].kind = "value" /\ Lines[n - 1].kind \in {"open", "value"}

\* The quote is the line's whole text, long enough to be found only there, and more than a call opened.
quote_problem(n, text) ==
  \/ n \notin 1..Len(Lines) \/ Lines[n].text # text
  \/ Lines[n].kind \in {"open", "closer"}
  \/ Lines[n].kind = "value" /\ ~continues_assertion(n)

\* The one line of the test the grade names that is the quote.
relocated_line(q) ==
  LET starts == {i \in DOMAIN Lines : Lines[i].kind = "test" /\ Lines[i].text = q.title}
      start == CHOOSE i \in starts : TRUE
      hits == {n \in (start + 1)..body_end(start) : Lines[n].text = q.text}
  IN  IF Cardinality(starts) # 1 THEN {} ELSE IF Cardinality(hits) = 1 THEN hits ELSE {}

test_problem(n, title) ==
  LET start == declaration_above(n)
  IN  start = 0 \/ Lines[start].text # title \/ n > body_end(start)

proof_problem(q) ==
  LET at == IF quote_problem(q.line, q.text) THEN relocated_line(q) ELSE {q.line}
  IN  \A n \in at : quote_problem(n, q.text) \/ test_problem(n, q.title)

----------------------------------------------------------------------------
(* The gates *)

\* The shards' grades, when they are for exactly what is owed now.
Grades == [r \in UNION Range(cuts) |-> LET k == CHOOSE k \in DOMAIN cuts : r \in cuts[k] IN graded[k].output[r]]
Ungraded ==
  \/ cuts = Unplanned \/ DOMAIN graded # DOMAIN cuts
  \/ \E k \in DOMAIN graded : graded[k].error
  \/ UNION Range(cuts) # Owed \ Split

proven_problem(g) == g.quotes = {} \/ \E q \in g.quotes : proof_problem(q)

\* The requirement is one of a section of the repository, and its owner, which the body does not link, took it.
excluded_problem(r, g) == r \in FromStore \/ g.owner \notin DOMAIN sections \/ g.owner \in body.links \/ r \notin sections[g.owner].takes

verdict(r) ==
  IF r \in Split THEN "SPLIT"
  ELSE IF Len(Grades[r]) # 1 THEN "UNPROVEN"
  ELSE LET g == Grades[r][1]
       IN  CASE g.status = "PROVEN" /\ ~proven_problem(g) -> "PROVEN"
             [] g.status = "EXCLUDED" /\ ~excluded_problem(r, g) -> "EXCLUDED"
             [] OTHER -> "UNPROVEN"

proof_audit ==
  /\ verdicts.audit = "none"
  /\ verdicts' = [verdicts EXCEPT !.audit =
       CASE Unreadable -> "cannot run"
         [] ~Unreadable /\ Owed = {} -> IF unlinked(body, TRUE) THEN "fails" ELSE "nothing owed"
         [] OTHER -> IF Ungraded THEN "cannot run"
                     ELSE IF \E r \in Owed : verdict(r) = "UNPROVEN" THEN "fails" ELSE "passes"]
  /\ UNCHANGED <<sections, stored, body, edits, cuts, graded>>

ticket_coverage ==
  /\ verdicts.trace = "none"
  /\ verdicts' = [verdicts EXCEPT !.trace = IF body_findings(sections, Paths, body) = {} THEN "passes" ELSE "fails"]
  /\ UNCHANGED <<sections, stored, body, edits, cuts, graded>>

Next ==
  \/ plan_of \/ EditBody \/ Amend \/ proof_audit \/ ticket_coverage
  \/ \E k \in DOMAIN cuts : grade(k)

Spec == Init /\ [][Next]_auditVars

----------------------------------------------------------------------------
(* Property *)

\* A quote is a line of an assertion of the test it names.
Real(q) ==
  \E b \in DOMAIN Tests :
    /\ Tests[b].title = q.title /\ q.title # ""
    /\ \E i \in DOMAIN Tests[b].body : Tests[b].body[i].text = q.text /\ Tests[b].body[i].kind # "open"

\* Who took a requirement over, and it is not the one who gave it away.
Taken(r) == \E s \in DOMAIN sections : r \in sections[s].takes

\* When both gates pass, nothing the linked sections or the named plan ask for was dropped on the way, whatever
\* the model said and whoever edited the body or amended the plan meanwhile: each item of each section has a
\* proof or another section that took it, and each requirement was graded once, by quotes of a test that are
\* there or an owner that took it, or was given to another (linked_requirements, graded, verdict, split).
NothingDropped ==
  verdicts.audit = "passes" /\ verdicts.trace = "passes" =>
    /\ \A s \in body.links : \A i \in DOMAIN sections[s].reqs :
         LET r == sections[s].reqs[i]
         IN  (\E c \in body.claims : c.id = r /\ c.kind = "proof" /\ c.value \in Paths) \/ Taken(r)
    /\ \A r \in Owed :
         \/ r \in Split /\ r \in FromStore /\ \A l \in Range(body.splits) : l.owner # "itself"
         \/ \E k \in DOMAIN graded :
              /\ r \in DOMAIN graded[k].output /\ ~graded[k].error
              /\ \E g \in Range(graded[k].output[r]) :
                   \/ g.status = "PROVEN" /\ g.quotes # {} /\ \A q \in g.quotes : Real(q)
                   \/ g.status = "EXCLUDED" /\ Taken(r) /\ r \notin FromStore
    /\ Owed \ Split # {}
=============================================================================
