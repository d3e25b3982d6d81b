------------------------------ MODULE MergeGrant ------------------------------
(***************************************************************************)
(* May an agent merge this pull request without a human review?  A policy  *)
(* decides from what the pull request changes; the dashboard feeds it the  *)
(* pull request as a pass read it, the file listing and the files' texts,  *)
(* and keeps the answer per head, base and title.  People push and retitle *)
(* between those reads, and GitHub lists late or not at all.               *)
(*                                                                         *)
(* A changed path is known by its kind; its change is plain, one a         *)
(* condition on its content or on its lines forbids, or one that cannot be *)
(* read.  A version is a head beside a base; a push brings a new one or,   *)
(* forced, one that was there before.                                      *)
(***************************************************************************)
EXTENDS FiniteSets, Naturals, Sequences

CONSTANTS
  Kinds,        \* of changed paths
  Category,     \* each category's kinds
  Conditional,  \* kinds whose content some category's entry compares
  Exclusion,    \* each exclusion: the kinds it selects, and whether it looks at their lines
  Grants,       \* who may merge what, in order
  Titles, Changes, Readers,
  MaxVersions   \* bound

Any == {"any"}

load_policy ==
  /\ Grants # <<>>
  /\ \A i \in DOMAIN Grants : /\ Grants[i].categories = Any \/ Grants[i].categories \subseteq DOMAIN Category
                              /\ Grants[i].exclusions \subseteq DOMAIN Exclusion

VARIABLES
  pull,     \* its version, title and what each version it ever had changes
  reader,   \* the passes that ask
  known     \* the answer kept, and whether its listing was of another version

grantVars == <<pull, reader, known>>

----------------------------------------------------------------------------
(* The policy *)

Text(change, k) == IF k \in DOMAIN change THEN change[k] ELSE "plain"

in_scope(g, title) == g.titles = Any \/ title \in g.titles

\* Every path in a category, and every condition on its content holds.
categorized(g, listed, change) ==
  LET taken == UNION {Category[c] : c \in g.categories} IN
  /\ listed \subseteq taken
  /\ \A k \in listed \cap Conditional : Text(change, k) = "plain"

\* By its path, or by a line it changes.
excluded(g, listed, change) ==
  \E x \in g.exclusions : \E k \in listed \cap Exclusion[x].kinds :
    ~Exclusion[x].lines \/ Text(change, k) # "plain"

judge(g, listed, change) ==
  \/ g.categories = Any /\ g.exclusions = {}
  \/ /\ g.categories = Any \/ categorized(g, listed, change)
     /\ ~excluded(g, listed, change)

Holding(title, listed, change) ==
  {i \in DOMAIN Grants : in_scope(Grants[i], title) /\ judge(Grants[i], listed, change)}

\* The first that holds, 0 for none.
decide(title, listed, change) ==
  LET held == Holding(title, listed, change) IN
  IF held = {} THEN 0 ELSE CHOOSE i \in held : \A j \in held : i <= j

NeedsFiles(title) ==
  LET asking == {i \in DOMAIN Grants : in_scope(Grants[i], title)}
      free == {i \in asking : Grants[i].categories = Any /\ Grants[i].exclusions = {}} IN
  asking # {} /\ \A i \in free : \E j \in asking : j < i

----------------------------------------------------------------------------
(* The dashboard *)

Change == pull.changes[pull.version]

Idle == [busy |-> FALSE, at |-> 0, title |-> "", change |-> <<>>]
fingerprint(r) == <<r.at, r.title>>

\* The pass read the pull request; an answer kept for this fingerprint ends it.
Asks(r) ==
  /\ ~reader[r].busy
  /\ known.at # <<pull.version, pull.title>>
  /\ reader' = [reader EXCEPT ![r] = [busy |-> TRUE, at |-> pull.version, title |-> pull.title,
                                      change |-> Change]]
  /\ UNCHANGED <<pull, known>>

Keeps(r, answer, away) ==
  /\ known' = [at |-> fingerprint(reader[r]), name |-> answer, away |-> away]
  /\ reader' = [reader EXCEPT ![r] = Idle]

\* (mutant) a listing of any length is believed
files_Any(r, listed) == NeedsFiles(reader[r].title) /\ listed # {}

\* A listing that is not as long as the pull request read said is not believed.
files(r, listed) ==
  /\ NeedsFiles(reader[r].title)
  /\ listed # {}
  /\ Cardinality(listed) = Cardinality(DOMAIN reader[r].change)

\* The listing is of the pull request as it is now, asked by its number; the texts are of the version it was
\* read at, and so is the fingerprint the answer is kept under.
Decides(r) ==
  /\ reader[r].busy
  /\ \/ /\ ~NeedsFiles(reader[r].title)
        /\ Keeps(r, decide(reader[r].title, {}, <<>>), FALSE)
     \/ \E listed \in SUBSET DOMAIN Change :
          /\ files(r, listed)
          /\ Keeps(r, decide(reader[r].title, listed, reader[r].change), reader[r].at # pull.version)
  /\ UNCHANGED pull

\* A spent budget, a failed read or a listing of another length: asked again on a later pass.
GivesUp(r) ==
  /\ reader[r].busy
  /\ reader' = [reader EXCEPT ![r] = Idle]
  /\ UNCHANGED <<pull, known>>

----------------------------------------------------------------------------
(* People *)

Push ==
  /\ Len(pull.changes) < MaxVersions
  /\ \E change \in Changes :
       pull' = [pull EXCEPT !.version = Len(pull.changes) + 1, !.changes = Append(@, change)]
  /\ UNCHANGED <<reader, known>>

\* Forced back to a version it had
PushBack ==
  /\ \E version \in DOMAIN pull.changes \ {pull.version} : pull' = [pull EXCEPT !.version = version]
  /\ UNCHANGED <<reader, known>>

Retitle ==
  /\ \E title \in Titles \ {pull.title} : pull' = [pull EXCEPT !.title = title]
  /\ UNCHANGED <<reader, known>>

Init ==
  /\ \E change \in Changes, title \in Titles : pull = [version |-> 1, title |-> title, changes |-> <<change>>]
  /\ reader = [r \in Readers |-> Idle]
  /\ known = [at |-> <<0, "">>, name |-> 0, away |-> FALSE]

Next == Push \/ PushBack \/ Retitle \/ \E r \in Readers : Asks(r) \/ Decides(r) \/ GivesUp(r)

Spec == Init /\ [][Next]_grantVars
----------------------------------------------------------------------------
(* Properties *)

\* What a person has to look at: a change outside the grant's categories, one of its exclusions, a
\* content condition that fails, or one that could not be read.
NeedsAPerson(i, title, change) ==
  \/ Grants[i].titles # Any /\ title \notin Grants[i].titles
  \/ Grants[i].categories # Any /\ \E k \in DOMAIN change :
       \/ \A c \in Grants[i].categories : k \notin Category[c]
       \/ k \in Conditional /\ change[k] # "plain"
  \/ \E x \in Grants[i].exclusions, k \in DOMAIN change :
       k \in Exclusion[x].kinds /\ (Exclusion[x].lines => change[k] # "plain")

\* The badge beside the head the pull request has: nothing in the whole change needs a person, whatever was
\* pushed, pushed back, retitled or listed late while the dashboard asked - unless the listing it rests on was
\* taken while another version, of as many files, stood in this one's place.  Files are listed by number and
\* the answer is kept by fingerprint (merge_grant.py _files, grant): pushed away and back within one pass, the
\* badge may be the other version's, and stays until the head, the base or the title moves.
BadgeHolds ==
  known.name # 0 /\ known.at = <<pull.version, pull.title>> /\ ~known.away
    => ~NeedsAPerson(known.name, pull.title, Change)
=============================================================================
