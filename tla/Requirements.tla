---------------------------- MODULE Requirements ----------------------------
(***************************************************************************)
(* What a pull request owes: the requirements of the plan sections its     *)
(* body links and of the plans it names in a plan store, and how they are  *)
(* traced to proof (gates/ticket_coverage.py, gates/_plan_store.py,        *)
(* gates/_proof_requirements.py).                                          *)
(*                                                                         *)
(* A plan is a function from its sections' names: each has `reqs`, the IDs *)
(* of its requirement items (<<>> for one with no tag), `cites`, those     *)
(* its own criteria and not-checked entries name, `takes`, those it takes  *)
(* over from others, and `rows`, those of its ledger's keyed rows.  A body *)
(* is [links, claims, splits, marker, reason]: the sections it links, its  *)
(* claims [id, kind, value], its split-off lines [id, owner, formed],      *)
(* whether it names the stored plan, and whether it says why no ticket     *)
(* applies.                                                                *)
(***************************************************************************)
EXTENDS Naturals, Sequences, FiniteSets, SequencesExt, TLC

----------------------------------------------------------------------------
(* A plan kept in the repository *)

Requires(plan, s) == {r \in Range(plan[s].reqs) : r # <<>>}

Twice(plan, r) ==
  \/ \E s \in DOMAIN plan : Cardinality({i \in DOMAIN plan[s].reqs : plan[s].reqs[i] = r}) > 1
  \/ Cardinality({s \in DOMAIN plan : r \in Requires(plan, s)}) > 1

\* Every requirement item and ledger row has a tag, every ID is defined once and cited by its own section, and
\* nothing cites or takes one that is not defined.
requirement_findings(plan, s) ==
  {r \in Range(plan[s].reqs) : r = <<>> \/ Twice(plan, r) \/ r \notin plan[s].cites}

Citations(plan) == UNION {plan[s].cites \cup plan[s].takes \cup Range(plan[s].rows) : s \in DOMAIN plan}

plan_findings(plan) ==
  UNION {requirement_findings(plan, s) : s \in DOMAIN plan}
    \cup {r \in Citations(plan) : \A s \in DOMAIN plan : r \notin Requires(plan, s)}

----------------------------------------------------------------------------
(* A plan kept in a store: the text is its blocks [kind, level, aside]: an *)
(* "item", a "paragraph", a "fence", a "label" or a "heading"; an aside is *)
(* one of the phrases Why, Background, Out of scope and the like.          *)

Heading(text, i) == text[i].kind = "heading"

\* The headings block i is under.
opened(text, i) ==
  {j \in 1..(i - 1) : Heading(text, j) /\ \A k \in (j + 1)..(i - 1) : Heading(text, k) => text[k].level > text[j].level}

\* The plan's own title, a first heading of the first level, is never an aside.
Title(text, j, titled) == titled /\ text[j].level = 1 /\ \A k \in 1..(j - 1) : ~Heading(text, k)

\* The one list, paragraph or code block directly under an aside label.
under_label(text, i) ==
  \E j \in 1..(i - 1) :
    /\ text[j].kind = "label" /\ text[j].aside
    /\ i = j + 1 \/ \A k \in (j + 1)..i : text[k].kind = "item"

wording(text, titled) ==
  {i \in DOMAIN text :
     /\ text[i].kind \in {"item", "paragraph"} /\ ~text[i].aside
     /\ \A j \in opened(text, i) : text[j].aside => Title(text, j, titled)
     /\ ~under_label(text, i)}

\* An amendment of headings and code alone is one requirement, its whole text.
has_wording(text) == \E i \in DOMAIN text : text[i].kind \in {"item", "paragraph"}

cut(prefix, text, whole) ==
  LET pieces == IF whole /\ text # <<>> /\ ~has_wording(text) THEN {1} ELSE wording(text, ~whole)
  IN  {<<prefix, n>> : n \in 1..Cardinality(pieces)}

\* PL-1, PL-2, ... of the plan, AM1-1, ... of its first amendment.
plan_requirements(stored) ==
  cut("PL", stored.text, FALSE) \cup UNION {cut("AM" \o ToString(a), stored.amendments[a], TRUE) : a \in DOMAIN stored.amendments}

----------------------------------------------------------------------------
(* What a body owes *)

\* The items of the linked sections, one for each ID, at the merge base.
linked_requirements(plan, body) == UNION {Requires(plan, s) : s \in body.links}

\* A split-off line names a requirement of the stored plan, once, and an owner that is neither this pull request
\* nor the plan itself; and it does not give everything away.
split_offs(body) == {l.id : l \in Range(body.splits)}
split_problem(body, owed, kept) ==
  \/ \E l \in Range(body.splits) : ~l.formed \/ l.owner = "itself" \/ l.id \notin kept
  \/ \E i, j \in DOMAIN body.splits : i # j /\ body.splits[i].id = body.splits[j].id
  \/ owed # {} /\ owed \subseteq split_offs(body)

\* A body that links no section although it claims requirements, or must link one and says not why.
unlinked(body, required) == body.links = {} /\ (body.claims # {} \/ (required /\ ~body.reason))

----------------------------------------------------------------------------
(* ticket-coverage of a body *)

\* A proof names what is at HEAD; a deferral a section that took the requirement at the merge base.
claim_problem(plan, paths, c) ==
  IF c.kind = "proof" THEN c.value \notin paths ELSE c.id \notin plan[c.value].takes

body_findings(plan, paths, body) ==
  {c.id : c \in {c \in body.claims : c.id \notin linked_requirements(plan, body)}}
    \cup {r \in linked_requirements(plan, body) :
            \A c \in body.claims : c.id = r => claim_problem(plan, paths, c)}
=============================================================================
