--------------------------------- MODULE Walk ---------------------------------
(***************************************************************************)
(* The browser check of one pull request's acceptance criteria: a criteria *)
(* job decides whether there is anything to walk, up to MaxShards          *)
(* explorers walk a share each, and a verify job judges what they left.    *)
(* Each of those jobs reads the pull request's body for itself, while      *)
(* people push, edit the body, merge and revert on the base and run failed *)
(* jobs again; a later head may carry an earlier walk instead of a new one.*)
(*                                                                         *)
(* A wording is all of a criterion; Walks and Names say how many walks it  *)
(* is and which criteria it names by number.  A page is what a browser     *)
(* sees: the pull request's own version of it on a version of the base.    *)
(***************************************************************************)
EXTENDS FiniteSetsExt, Naturals, Sequences, SequencesExt

CONSTANTS
  Bodies,     \* what the body may say: none declared, the wordings it lists, the ticket criteria it proves
  Ticket,     \* the wordings of the ticket's criteria
  Walks, Names,
  ShardWalks, MaxShards,
  MaxMoves, MaxAttempts,  \* of people: pushes, moves of the base and edits together; of one run
  Tested      \* own versions whose tree holds the tests a body names

VARIABLES
  commits,  \* what was pushed: own version of the page, of docs, base commits it has, whether the
            \* workflow is the branch's own, and the parent; the last is the head
  base,     \* the base's history: what each of its commits shows
  body,
  edits,
  current,  \* the run of the head
  past      \* runs that succeeded, oldest first, with what their explorers saw hold: a wording on a page

walkVars == <<commits, base, body, edits, current, past>>

----------------------------------------------------------------------------
(* Criteria and their shares *)

\* Criteria are known by their list and number.
BodyItems(b) == IF b.none THEN {} ELSE {<<"AC", n>> : n \in DOMAIN b.lists}
split_ticket(b) == {<<"TC", n>> : n \in DOMAIN Ticket \ b.proofs}
Wanted(b) == BodyItems(b) \cup split_ticket(b)
Wording(b, item) == IF item[1] = "AC" THEN b.lists[item[2]] ELSE Ticket[item[2]]
Wordings(b) == {Wording(b, item) : item \in Wanted(b)}

Load(b, items) == MapThenSumSet(LAMBDA item : Walks[Wording(b, item)], items)
named_criteria(b, item) == {<<item[1], n>> : n \in Names[Wording(b, item)]} \cap Wanted(b)

\* Closed: no criterion in it names one outside or is named by one.
Closed(b, group) == \A x \in group, y \in Wanted(b) \ group : y \notin named_criteria(b, x) /\ x \notin named_criteria(b, y)
criterion_chains(b) ==
  {group \in SUBSET Wanted(b) : /\ group # {} /\ Closed(b, group)
                                /\ \A part \in (SUBSET group) \ {{}, group} : ~Closed(b, part)}

Earlier(x, y) == (x[1] = "AC" /\ y[1] = "TC") \/ (x[1] = y[1] /\ x[2] < y[2])
FirstOf(group) == CHOOSE x \in group : \A y \in group \ {x} : Earlier(x, y)

\* The largest chains first, in document order.
Ordered(b) ==
  SetToSortSeq(criterion_chains(b), LAMBDA g, h : \/ Load(b, g) > Load(b, h)
                                                  \/ Load(b, g) = Load(b, h) /\ Earlier(FirstOf(g), FirstOf(h)))

\* Each goes to the explorer with the fewest walks so far.
Assigned(b, shards) ==
  FoldLeft(LAMBDA shares, chain :
             LET least == CHOOSE k \in 1..shards :
                            \A l \in 1..shards : \/ Load(b, shares[k]) < Load(b, shares[l])
                                                 \/ Load(b, shares[k]) = Load(b, shares[l]) /\ k <= l
             IN [shares EXCEPT ![least] = @ \cup chain],
           [k \in 1..shards |-> {}], Ordered(b))
shard_shares(b, shards) == IF shards = 1 THEN [k \in {1} |-> Wanted(b)] ELSE Assigned(b, shards)

shard_plan(b) ==
  LET enough == (Load(b, Wanted(b)) + ShardWalks - 1) \div ShardWalks
  IN Max({1, Min({MaxShards, Cardinality(criterion_chains(b)), enough})})

----------------------------------------------------------------------------
(* The pull request *)

Tip == Len(commits)
At == commits[Tip]
Page(own, baseAt) == <<own, base[baseAt]>>

\* Every changed path is one no browser can see.
Unrendered(c) == commits[c].own = 0

NoCarry == 0
Blank == [none |-> FALSE, lists |-> <<>>, proofs |-> {}]
NoRun == [stage |-> "none", base |-> 1, body |-> Blank, carry |-> NoCarry, text |-> Blank, shards |-> 1, attempt |-> 1,
          explored |-> 1, explorer |-> <<>>, edited |-> FALSE, verdict |-> "none", why |-> ""]
NewRun(baseAt) == [NoRun EXCEPT !.stage = "criteria", !.base = baseAt]

MayMove == (Len(commits) - 1) + (Len(base) - 1) + edits < MaxMoves

\* A push ends the run of the head before and starts one of its own, on the base as it is now.
Pushed(commit) ==
  /\ MayMove
  /\ commits' = Append(commits, commit)
  /\ current' = NewRun(Len(base))
  /\ UNCHANGED <<base, body, edits, past>>

PushPage == Pushed([At EXCEPT !.own = Tip, !.parent = Tip])
PushDocs == Pushed([At EXCEPT !.docs = Tip, !.parent = Tip])
PushWorkflow == Pushed([At EXCEPT !.forged = ~At.forged, !.parent = Tip])
MergeBase == At.base < Len(base) /\ Pushed([At EXCEPT !.base = Len(base), !.parent = Tip])
ForcePush == At.parent # 0 /\ Pushed(commits[At.parent])

Ancestor[c \in 0..Tip] == IF c = 0 THEN {} ELSE {c} \cup Ancestor[commits[c].parent]

\* A new version, or an earlier one again.
BaseMoves ==
  /\ MayMove
  /\ \E version \in 1..(Max(ToSet(base)) + 1) \ {base[Len(base)]} : base' = Append(base, version)
  /\ UNCHANGED <<commits, body, edits, current, past>>

Edit ==
  /\ MayMove
  /\ edits' = edits + 1
  /\ \E b \in Bodies \ {body} : body' = b
  /\ current' = [current EXCEPT !.edited = TRUE]
  /\ past' = [i \in DOMAIN past |-> [past[i] EXCEPT !.edited = TRUE]]
  /\ UNCHANGED <<commits, base>>

----------------------------------------------------------------------------
(* The criteria job *)

\* The newest earlier run of another head that passed and left evidence.
walked_run ==
  LET left == {i \in DOMAIN past : past[i].evidence /\ past[i].head # Tip} IN
  IF left = {} THEN NoCarry ELSE Max(left)

\* (mutant) a head that lacks commits of the base carries a verdict
carried_Behind(run) ==
  /\ run # NoCarry
  /\ past[run].head \in Ancestor[At.parent]
  /\ LET then == commits[past[run].head] IN
     /\ <<then.docs, then.forged>> # <<At.docs, At.forged>>
     /\ then.own = At.own /\ base[then.base] = base[At.base] /\ then.forged = At.forged
  /\ ~past[run].edited

\* What it is judged by, read once: that head is an ancestor, something changed since and none of it is
\* what a browser or a gate sees, this head has the whole base, and the body was not edited since that
\* run began.
carried(run) ==
  /\ run # NoCarry
  /\ past[run].head \in Ancestor[At.parent]
  /\ LET then == commits[past[run].head] IN
     /\ <<then.docs, then.forged>> # <<At.docs, At.forged>>
     /\ then.own = At.own /\ base[then.base] = base[At.base] /\ then.forged = At.forged
  /\ At.base = Len(base)
  /\ ~past[run].edited

\* Nothing needs a browser: none declared, or no criteria and nothing rendered changed. A ticket's
\* criteria override both.
Declared(b) == b.none /\ split_ticket(b) = {}
Exempt(b) == Wanted(b) = {} /\ Unrendered(Tip)
not_required(b, carry, text) ==
  \/ Declared(b) \/ Exempt(b)
  \/ split_ticket(b) = {} /\ BodyItems(b) # {} /\ carry # NoCarry /\ text = b

\* Facts that cannot be read carry nothing.
Criteria ==
  /\ current.stage = "criteria" /\ ~At.forged
  /\ \E carry \in {NoCarry} \cup {run \in {walked_run} : carried(run)} :
     LET walks == ~not_required(body, carry, body) /\ Wanted(body) # {} IN
       current' = [current EXCEPT
         !.carry = carry, !.text = body, !.shards = shard_plan(body),
         !.stage = IF walks THEN "explore" ELSE "verify",
         !.explorer = IF ~walks THEN <<>>
                      ELSE [k \in 1..shard_plan(body) |-> [result |-> "waits", attempt |-> 0, lines |-> {}]]]
  /\ UNCHANGED <<commits, base, body, edits, past>>

----------------------------------------------------------------------------
(* The explorers *)

Ends(k, result, attempt, lines) ==
  /\ current' = [current EXCEPT
       !.explorer = [current.explorer EXCEPT ![k] = [result |-> result, attempt |-> attempt, lines |-> lines]],
       !.explored = current.attempt]

MayExplore(k) == current.stage = "explore" /\ k \in DOMAIN current.explorer /\ current.explorer[k].result = "waits"

\* It walks its share of the criteria it reads and writes a line for each; a line says PASS of what it
\* saw hold. It may break off with what it has written.
Explore(k) ==
  /\ MayExplore(k)
  /\ LET share == shard_shares(body, current.shards)[k]
         page == Page(At.own, current.base) IN
     /\ share # {}
     /\ \E holds \in SUBSET share, result \in {"success", "failure"} :
          Ends(k, result, current.attempt, {[item |-> item, saw |-> <<Wording(body, item), page>>] : item \in holds})
  /\ UNCHANGED <<commits, base, body, edits, past>>

\* Nothing to walk, a site that does not answer, or a model's usage limit: no new evidence.
ExploreFails(k) ==
  /\ MayExplore(k)
  /\ \E result \in {"failure", "limit"} : Ends(k, result, current.explorer[k].attempt, current.explorer[k].lines)
  /\ UNCHANGED <<commits, base, body, edits, past>>

Explored ==
  /\ current.stage = "explore"
  /\ \A k \in DOMAIN current.explorer : current.explorer[k].result # "waits"
  /\ current' = [current EXCEPT !.stage = "verify"]
  /\ UNCHANGED <<commits, base, body, edits, past>>

----------------------------------------------------------------------------
(* The verify job *)

explore_result(run) ==
  IF run.explorer = <<>> THEN "skipped"
  ELSE IF \A k \in DOMAIN run.explorer : run.explorer[k].result = "success" THEN "success" ELSE "failure"

\* Every explorer stopped at its model's usage limit.
explorer_limits(run) ==
  run.explorer # <<>> /\ \A k \in DOMAIN run.explorer : run.explorer[k].result = "limit"

\* Each explorer's newest evidence; the explore job's last attempt must have left some.
Evidence(run) ==
  /\ run.explorer # <<>>
  /\ \E k \in DOMAIN run.explorer : run.explorer[k].attempt >= run.explored

\* Exactly one PASS for each criterion the body lists now, whatever it said when it was walked.
Passes(run, item) ==
  Cardinality({k \in DOMAIN run.explorer : \E line \in run.explorer[k].lines : line.item = item}) = 1

Saw(run) == {line.saw : line \in UNION {run.explorer[k].lines : k \in DOMAIN run.explorer}}

proof_findings(b) == b.proofs # {} => At.own \in Tested

\* A body that says nothing of criteria is refused, unless a ticket has some.
Judged(run, b) ==
  /\ proof_findings(b)
  /\ b.none \/ b.lists # <<>> \/ Ticket # <<>>
  /\ Wanted(b) # {} => Evidence(run)
  /\ \A item \in Wanted(b) : Passes(run, item)
  /\ run.shards > 1 => explore_result(run) = "success"

Concludes(verdict, why) ==
  LET run == [current EXCEPT !.stage = "done", !.verdict = verdict, !.why = why, !.body = body] IN
  /\ current' = run
  /\ past' = IF verdict = "green" /\ explore_result(run) # "failure"
             THEN Append(past, [head |-> Tip, base |-> run.base, evidence |-> explore_result(run) = "success",
                                edited |-> run.edited, saw |-> Saw(run)])
             ELSE past

\* limited: GitHub listed the explorers' annotations in time.
Verify ==
  /\ current.stage = "verify"
  /\ \E limited \in {FALSE, explorer_limits(current)} :
       CASE not_required(body, current.carry, current.text) ->
              Concludes("green", IF Declared(body) \/ Exempt(body) THEN "declared" ELSE "carried")
         [] ~not_required(body, current.carry, current.text) /\ limited -> Concludes("green", "limited")
         [] OTHER -> IF Judged(current, body) THEN Concludes("green", "walked") ELSE Concludes("red", "")
  /\ UNCHANGED <<commits, base, body, edits>>

\* A workflow rewritten by the branch passes as it likes, and may leave files named like evidence.
Forged ==
  /\ current.stage = "criteria" /\ At.forged
  /\ \E evidence \in BOOLEAN :
       past' = Append(past, [head |-> Tip, base |-> current.base, evidence |-> evidence, edited |-> current.edited, saw |-> {}])
  /\ current' = [current EXCEPT !.stage = "done", !.verdict = "green", !.why = "forged", !.body = body]
  /\ UNCHANGED <<commits, base, body, edits>>

\* A person runs the failed jobs again, or all of them: the same run, of the same tree.
RerunFailed ==
  /\ current.stage = "done" /\ current.verdict = "red" /\ current.attempt < MaxAttempts
  /\ current' = [current EXCEPT
       !.attempt = current.attempt + 1, !.verdict = "none",
       !.stage = IF explore_result(current) = "failure" THEN "explore" ELSE "verify",
       !.explorer = [k \in DOMAIN current.explorer |->
                       [current.explorer[k] EXCEPT !.result = IF @ = "success" THEN "success" ELSE "waits"]]]
  /\ UNCHANGED <<commits, base, body, edits, past>>

RerunAll ==
  /\ current.stage = "done" /\ ~At.forged /\ current.attempt < MaxAttempts /\ current.verdict = "red"
  /\ current' = [NewRun(current.base) EXCEPT !.attempt = current.attempt + 1, !.edited = current.edited]
  /\ UNCHANGED <<commits, base, body, edits, past>>

\* Nothing happens until someone moves.
Settled == current.stage = "done" /\ UNCHANGED walkVars

----------------------------------------------------------------------------

Init ==
  /\ commits = <<[own |-> 0, docs |-> 0, base |-> 1, forged |-> FALSE, parent |-> 0]>>
  /\ base = <<1>>
  /\ body \in Bodies
  /\ edits = 0
  /\ current = NewRun(1)
  /\ past = <<>>

Next ==
  \/ PushPage \/ PushDocs \/ PushWorkflow \/ MergeBase \/ ForcePush \/ BaseMoves \/ Edit
  \/ Criteria \/ Explored \/ Verify \/ Forged \/ RerunFailed \/ RerunAll \/ Settled
  \/ \E k \in 1..MaxShards : Explore(k) \/ ExploreFails(k)

Spec == Init /\ [][Next]_walkVars
----------------------------------------------------------------------------
(* Properties *)

\* A green check stands on a walk: every criterion the body lists was seen to hold, in those words, on
\* the page this run is of - by its own explorers, or by those of the run it carries. Left out: a run
\* whose body was edited since it began, and a carried run that was of a head behind the base.
GreenIsWalked ==
  current.stage = "done" /\ current.why \in {"walked", "carried"} =>
    \/ current.edited
    \/ current.carry # NoCarry /\ commits[past[current.carry].head].base < past[current.carry].base
    \/ \A w \in Wordings(current.body) :
         <<w, Page(At.own, current.base)>> \in Saw(current) \cup (IF current.carry = NoCarry THEN {} ELSE past[current.carry].saw)
=============================================================================
