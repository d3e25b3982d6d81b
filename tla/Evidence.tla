------------------------------- MODULE Evidence -------------------------------
(***************************************************************************)
(* What explorers of one run leave behind, and the gate that judges it     *)
(* (qae-artifacts).  Explorers share a site.  What their browsers record   *)
(* by themselves - the console, the page record, the session log of calls  *)
(* in order - no explorer chooses; which steps it shoots, which network    *)
(* records it saves and what its step log says it does choose, so here     *)
(* those are any.  The gate may run after every event.                     *)
(*                                                                         *)
(* An explorer walks one criterion, in one role and on one load of the     *)
(* site.  A URL is one the pull request's changed files name, or another   *)
(* of the site, or another host's.  Left out: the allowlists, a run that   *)
(* declares nothing to walk, re-walked features' logs, saved console       *)
(* records with their websockets, the host's own login page, and the 409s  *)
(* the harness answers itself (each is a finding of the isolation rule).   *)
(***************************************************************************)
EXTENDS FiniteSets, FiniteSetsExt, Naturals, Sequences, SequencesExt

CONSTANTS
  Explorers,
  Walkers,     \* those that walk steps; the others only work on records
  Doings,      \* what a page-changing call does
  Answers,     \* what the site does with a request: [method, url, status]
  DeclaredFailures, \* the answers a criterion declares expected: [url, status]
  Widths,      \* the widths a criterion must be shown at
  Records,     \* of the site
  MaxEvents,
  MaxAsides    \* exceptions and records worked on

VARIABLES
  calls,     \* the session log of each explorer: page-changing calls, snapshots, screenshots, network records
  log,       \* its step log: what each step says it took, and the step it says it retries
  made,      \* the requests it had the site answer, in order
  console,   \* the errors its console log holds, in order: a request's, or an exception by its script
  pageAt,    \* the page record: which error which page logged
  record     \* the page record's isolation lines: created, opened, refused

evidenceVars == <<calls, log, made, console, pageAt, record>>

----------------------------------------------------------------------------
(* What is served and what the browsers record of it *)

Failing == {"500", "conn", "401", "422", "abort"}
judged(url) == url # "third"
named(url) == url = "own"
failed(status) == IF status \in {"conn", "abort"} THEN "FAILED" ELSE status
Refusal(a) == [url |-> a.url, status |-> failed(a.status)]

Asides ==
  MapThenSumSet(LAMBDA e : Len(SelectSeq(console[e], LAMBDA c : c.status = "throws")), Explorers) + Len(record)
Events == MapThenSumSet(LAMBDA e : Len(calls[e]), Explorers) + Asides

\* A call names the console lines that arrived since the one before it, and the snapshot it wrote, if any; the first
\* opens the site.
Call(tool) == [tool |-> tool, does |-> "", step |-> 0, wide |-> 0, shows |-> 0, view |-> "none"]
Calls(e, call) ==
  /\ calls[e] = <<>> => call.tool = "act"
  /\ calls' = [calls EXCEPT ![e] = Append(@, [upto |-> Len(console'[e])] @@ call)]

\* A call that changes the page and shows it: what it asks of the site is answered or fails.  The console tells
\* every failure but one the page cancelled itself; a form refused says so in place, or is lost.
Act(e, does) ==
  /\ \E a \in Answers :
       LET error == [url |-> a.url, status |-> a.status]
           tells == a.status \in Failing \ {"abort"} IN
       /\ made' = [made EXCEPT ![e] = Append(@, a)]
       /\ console' = IF tells THEN [console EXCEPT ![e] = Append(@, error)] ELSE console
       /\ pageAt' = IF tells THEN pageAt \cup {<<error, "site">>} ELSE pageAt
       /\ \E view \in IF a.status = "422" THEN {"told", "lost"} ELSE {"form"} :
            Calls(e, [Call("act") EXCEPT !.does = does, !.view = view])
  /\ UNCHANGED <<log, record>>

\* An exception of a script, on a page of the site or one a link opened; the page record has every tab's.
Throws(e) ==
  /\ Asides < MaxAsides
  /\ \E page \in {"site", "off"}, url \in {"other", "third"} :
       LET error == [url |-> url, status |-> "throws"] IN
       /\ console' = [console EXCEPT ![e] = Append(@, error)]
       /\ pageAt' = pageAt \cup {<<error, page>>}
  /\ UNCHANGED <<calls, log, made, record>>

\* It looks at a part of the page.
Look(e) ==
  /\ UNCHANGED <<log, made, console, pageAt, record>>
  /\ Calls(e, [Call("look") EXCEPT !.view = "part"])

\* A step is shot, again or with the line that says what it was: a step of its own, the invalid input it tried, or
\* another taken again; the line may give the number of the step before.
Shoot(e) ==
  /\ UNCHANGED <<made, console, pageAt, record>>
  /\ \E k \in {Len(log[e]), Len(log[e]) + 1} \ {0}, wide \in Widths :
       /\ Calls(e, [Call("shot") EXCEPT !.step = k, !.wide = wide])
       /\ \/ k = Len(log[e]) /\ log' = log
          \/ \E says \in {"walked", "invalid input"}, of \in {0, k - 1} :
               /\ of # 0 => k > Len(log[e]) /\ says = "walked"
               /\ log' = [log EXCEPT ![e] = Append(@, [k |-> k, says |-> says, retries |-> of])]

\* It asks for the requests so far: as a step's record, or in the session log itself.
Save(e) ==
  /\ UNCHANGED <<log, made, console, pageAt, record>>
  /\ \E k \in {0, Len(log[e])} : Calls(e, [Call("net") EXCEPT !.step = k, !.shows = Len(made[e])])

\* The browser of one of several: an answer that names a record, a request on one, and one it refuses.
Line(kind, e, rec) == [kind |-> kind, by |-> e, rec |-> rec]
Works(e) ==
  /\ Asides < MaxAsides /\ Cardinality(Explorers) > 1
  /\ \E kind \in {"created", "opened", "refused"}, rec \in Records : record' = Append(record, Line(kind, e, rec))
  /\ UNCHANGED <<calls, log, made, console, pageAt>>

----------------------------------------------------------------------------
(* A step taken again after an environment error *)

Shots(e) == {i \in DOMAIN calls[e] : calls[e][i].tool = "shot"}
ShotsOf(e, k) == {i \in Shots(e) : calls[e][i].step = k}
acts(e, from, to) == LET part == SelectSeq(SubSeq(calls[e], from, to), LAMBDA c : c.tool = "act")
                     IN [i \in DOMAIN part |-> part[i].does]
Saves(e, k) == {i \in DOMAIN calls[e] : calls[e][i].tool = "net" /\ calls[e][i].step = k}
LinesOf(e, k) == {i \in DOMAIN log[e] : log[e][i].k = k}
twice(e) == \E i, j \in DOMAIN log[e] : i # j /\ log[e][i].k = log[e][j].k

\* The step log alone: the step right after, once, of one that is no retry and that no other step takes.
log_problem(e, i) ==
  LET k == log[e][i].retries
      again == {j \in DOMAIN log[e] : log[e][j].retries = k} IN
  \/ twice(e) \/ LinesOf(e, k) = {} \/ log[e][i].k # k + 1 \/ again # {i}
  \/ \E j \in LinesOf(e, k) :
       \/ log[e][j].retries # 0 \/ log[e][j].says # log[e][i].says
       \/ \E other \in DOMAIN log[e] \ {i, j} : log[e][other].retries = 0 /\ log[e][other].says = log[e][j].says

\* The session log: step k's screenshots before step m's, what was saved of it until the retry acts, and the
\* acts of either, and between two screenshots of one.
screenshots(e, k, m) == {i \in ShotsOf(e, k) : ShotsOf(e, m) # {} /\ i < Min(ShotsOf(e, m))}
retry_window(e, k, m) ==
  LET own == screenshots(e, k, m)
      retry == Min(ShotsOf(e, m))
      start == Max({0} \cup {i \in Shots(e) : i < Min(own)})
      redo == Min({retry} \cup {i \in Max(own)..retry : calls[e][i].tool = "act"}) IN
  [saved |-> {i \in Saves(e, k) : Min(own) < i /\ i < redo},
   did |-> acts(e, start + 1, Min(own) - 1), redid |-> acts(e, Max(own) + 1, retry - 1),
   between |-> acts(e, Min(own), Max(own)) \o acts(e, retry, Max(ShotsOf(e, m)))]

\* A record of the step, no act between screenshots, and the retry's acts the last of the step's.
record_problem(e, k, m) ==
  \/ screenshots(e, k, m) = {}
  \/ LET w == retry_window(e, k, m) IN
     w.saved = {} \/ w.between # <<>> \/ (w.did # <<>> /\ w.redid = <<>>) \/ ~IsSuffix(w.redid, w.did)

\* The requests of an explorer that a call's record lists, by their numbers; a later save of its name replaces it.
Listing(e, i) == {made[e][n] : n \in 1..calls[e][i].shows}
step_records(e, k) == Listing(e, Max(Saves(e, k)))
environment(e, k) == {r \in step_records(e, k) : r.status \in {"500", "conn"}}

Retries(e) == {i \in DOMAIN log[e] : log[e][i].retries # 0}
counts(e, i) ==
  LET k == log[e][i].retries IN
  /\ ~log_problem(e, i) /\ ~record_problem(e, k, log[e][i].k)
  /\ environment(e, k) # {}
  /\ \A r \in environment(e, k) : ~named(r.url)

\* What a page got an answer below 400 for: the page record has it, shown or not.
answered == {<<r.method, r.url>> : r \in {q \in UNION {ToSet(made[e]) : e \in Explorers} : q.status = "ok"}}
\* (mutant) a counted retry excuses every error of its step
excuse_answered_Any(e, i) == environment(e, log[e][i].retries)

excuse_answered(e, i) == {r \in environment(e, log[e][i].retries) : <<r.method, r.url>> \in answered}
Excused ==
  UNION {{Refusal(r) : r \in excuse_answered(x[1], x[2])} :
           x \in {y \in UNION {{e} \X Retries(e) : e \in Explorers} : counts(y[1], y[2])}}

----------------------------------------------------------------------------
(* An invalid input the site refused *)

Writes == {"POST"}
Scripts == {"script"}

\* The calls of a step: those after the screenshot before its first, of any step, up to that one.
window(e, k) ==
  {i \in DOMAIN calls[e] : \E first \in ShotsOf(e, k) :
     /\ i <= first /\ \A shot \in ShotsOf(e, k) : first <= shot
     /\ \A shot \in Shots(e) : shot < i \/ first <= shot}
Acted(e, k) == {i \in window(e, k) : calls[e][i].tool = "act"}
logged(e, i) == (IF i = 1 THEN 0 ELSE calls[e][i - 1].upto) + 1 .. calls[e][i].upto
Errors(e, k, status) == {j \in UNION {logged(e, i) : i \in window(e, k)} : console[e][j].status = status}

\* A page that answers in place keeps its elements, and puts up text it did not show.
kept(before, after) == {before, after} \subseteq {"form", "told"}
new_text(before, after) == before = "form" /\ after = "told"
state_problem(before, after) == ~kept(before, after) \/ ~new_text(before, after)

\* The whole page right before the step's last action, and the last shown of it once the answer came.
page_problem(e, k, acted, last) ==
  LET before == {i \in window(e, k) : i < acted /\ (calls[e][i].tool = "act" \/ calls[e][i].view \notin {"none", "part"})}
      after == {i \in window(e, k) : last <= i /\ calls[e][i].view # "none"} IN
  ~\E i \in before, j \in after : /\ \A other \in before : other <= i
                                /\ \A other \in after : other <= j
                                /\ ~state_problem(calls[e][i].view, calls[e][j].view)

\* One refusal, of what the step did last, and by no script.
refusal_problem(e, k) ==
  \/ \E i, j \in Errors(e, k, "422") : i # j
  \/ \E i \in Acted(e, k) : calls[e][i].does \in Scripts
  \/ ~\E acted \in Acted(e, k), last \in window(e, k) :
        /\ \A i \in Acted(e, k) : i <= acted
        /\ acted <= last /\ logged(e, last) \cap Errors(e, k, "422") # {}
        /\ ~page_problem(e, k, acted, last)

\* The steps a log marks as one: a log has one, and numbers no step twice.
marked(e) == {log[e][i].k : i \in {j \in DOMAIN log[e] : log[e][j].says = "invalid input" /\ log[e][j].retries = 0}}
judge(e, k) ==
  /\ ~twice(e) /\ marked(e) = {k}
  /\ Errors(e, k, "throws") = {} /\ ~refusal_problem(e, k)
Tied == UNION {UNION {{<<e, j>> : j \in Errors(e, k, "422")} : k \in {m \in marked(e) : judge(e, m)}} : e \in Explorers}

----------------------------------------------------------------------------
(* The gate *)

\* The network records: what the session log itself lists, and what each file holds since its last save.
Recorded(e) ==
  UNION {1..calls[e][i].shows :
           i \in Saves(e, 0) \cup {Max(Saves(e, k)) : k \in {j \in 1..MaxEvents : Saves(e, j) # {}}}}
requests(a) ==
  UNION {{<<n, made[e][n].method>> : n \in {m \in Recorded(e) : Refusal(made[e][m]) = a}} : e \in Explorers}
lines(a) == UNION {{<<e, j>> : j \in {i \in DOMAIN console[e] : console[e][i] = a}} : e \in Explorers}

\* An excuse is by answer, so it is withdrawn when the answer is no write's, or may be another step's.
answer_problem(a) ==
  \/ requests(a) = {} \/ \E r \in requests(a) : r[2] \notin Writes
  \/ ~(lines(a) \subseteq Tied) \/ Cardinality(requests(a)) > Cardinality(lines(a))
probe_excuses == {a \in {console[x[1]][x[2]] : x \in Tied} : ~answer_problem(a)}

Refusable == {"401", "422"}
declared_refusals == \A d \in DeclaredFailures : d.status \in Refusable
expected == DeclaredFailures \cup Excused \cup probe_excuses
refusal_expected(answers, a) == Refusal(a) \in answers

retry_checks == \A e \in Explorers : \A i \in Retries(e) : counts(e, i)

steps_have_screenshots ==
  /\ \E e \in Explorers : log[e] # <<>>
  /\ \A e \in Explorers : \A i \in DOMAIN log[e] : ShotsOf(e, log[e][i].k) # {}

\* The file of a step's screenshot is its last.
screenshot_widths(e) ==
  {calls[e][Max(shots)].wide : shots \in {ShotsOf(e, log[e][i].k) : i \in DOMAIN log[e]} \ {{}}}
widths_findings == \A e \in Explorers : log[e] # <<>> => Widths \subseteq screenshot_widths(e)

\* Every page that logged it is off the site, and the error is about no URL of the site.
logged_off_site(c) ==
  LET pages == {p \in {"site", "off"} : <<c, p>> \in pageAt} IN pages = {"off"} /\ ~judged(c.url)
\* A response refused on a host that is not judged is excused, a connection that failed only as a retry's.
console_is_clean ==
  LET excused == expected IN
  \A e \in Explorers : \A c \in ToSet(console[e]) :
    \/ logged_off_site(c)
    \/ c.status \notin {"throws", "conn"} /\ ~judged(c.url)
    \/ c.status # "throws" /\ refusal_expected(excused, c)

request_findings ==
  LET excused == expected IN
  \A e \in Explorers : \A n \in Recorded(e) : LET r == made[e][n] IN
    r.status \in Failing /\ judged(r.url) =>
      refusal_expected(excused, r) \/ (r.status = "abort" /\ <<r.method, r.url>> \in answered)
session_and_network ==
  /\ \E e \in Explorers : acts(e, 1, Len(calls[e])) # <<>>
  /\ \E e \in Explorers, k \in 0..MaxEvents : Saves(e, k) # {}
  /\ request_findings

\* A record exactly one explorer created is its own.
creators(rec) == {line.by : line \in {l \in ToSet(record) : l.kind = "created" /\ l.rec = rec}}
isolation_findings ==
  \A line \in ToSet(record) : /\ line.kind # "refused"
                              /\ line.kind = "opened" => Cardinality(creators(line.rec)) # 1 \/ line.by \in creators(line.rec)

Passes ==
  /\ declared_refusals /\ steps_have_screenshots /\ widths_findings /\ isolation_findings
  /\ retry_checks /\ session_and_network /\ console_is_clean

----------------------------------------------------------------------------

Init ==
  /\ calls = [e \in Explorers |-> <<>>]
  /\ log = [e \in Explorers |-> <<>>]
  /\ made = [e \in Explorers |-> <<>>]
  /\ console = [e \in Explorers |-> <<>>]
  /\ pageAt = {}
  /\ record = <<>>

Next ==
  /\ Events < MaxEvents
  /\ \/ \E e \in Walkers : \/ \E does \in Doings : Act(e, does)
                           \/ Throws(e) \/ Look(e) \/ Shoot(e) \/ Save(e)
     \/ \E e \in Explorers : Works(e)

Spec == Init /\ [][Next]_evidenceVars
----------------------------------------------------------------------------

\* What the site refused was refused to a step its log says tried an invalid input, which was refused nothing else,
\* and whose page then told of it.
TriedAndTold(e, j) ==
  \E k \in marked(e) :
    /\ Errors(e, k, "422") = {j} /\ Errors(e, k, "throws") = {}
    /\ \E answer, shown \in window(e, k) :
         j \in logged(e, answer) /\ answer <= shown /\ calls[e][shown].view = "told"

\* Whatever explorers say and save, a run that passes had no URL of the pull request's own answered with a
\* server error or unreachable, and what else of the site failed was declared, worked at another time, or was the
\* form's own answer to an input made to be refused.
PassMeansServed ==
  Passes => \A e \in Explorers : \A r \in ToSet(made[e]) : r.status \in Failing \ {"abort"} /\ judged(r.url) =>
    \/ Refusal(r) \in DeclaredFailures
    \/ r.status \in {"500", "conn"} /\ ~named(r.url) /\ \E a \in answered : a[2] = r.url
    \/ r.status = "422" /\ \A x \in lines(Refusal(r)) : TriedAndTold(x[1], x[2])
=============================================================================
