# Formal model of vibe-verifier

TLA+ modules, TLC runs and TLAPS proofs of the parts of vibe-verifier that keep state, run
concurrently, or judge a pull request while it moves. Two halves: the **runner lane**, the machine that takes
GitHub jobs in throw-away containers (`src/lanes/`), and what stands around a **pull request** - the gates that
judge it, the programs that bump, sync and merge it, and the dashboard that tells what they found.

Contents: 1 inventory, 2 plan, 3 modules and how they follow the code, 4 runs and bounds,
5 fairness, 6 findings and observations, 7 proofs, 8 what is left out.

To repeat a run: `tlc -config MCLaneOrg.cfg MCLane`; to repeat a proof: `tlapm LanePlan_proofs.tla`.

## 1. Inventory

### Runner lanes (Go and shell, `src/lanes/`)

A lane is one listener process, a systemd template unit per kind of slot (`ci`, `qae`, `wait`) with
numbered instances, and one container per running slot. The listener holds a message session per
GitHub scale set; a five-second loop and every message make it reconcile slots with demand.

| part | state | operations | interacts through |
|---|---|---|---|
| **planner** (`listener/plan.go`) | none: one round's input and result | `makePlan` = idle stops, then recycles, then `planStarts` turn by turn | called by `reconcile` under the lane's lock |
| **slots and goroutines** (`scaler.go`, `state.go`, `systemd.go`) | `l.slots`, `l.sets`, retired runners, job history; run-dir files `jit`, `job`, `idle-stop`, `assignment`, `jobs.json`, `queue.json` | `rebuild`, `reconcile`/`refresh`, `start`, `undoStart`, `idleStop`, `removeRunner`, `jobStarted`, `jobCompleted`, statistics | GitHub (mint, remove, messages), `systemctl`, run-dir files shared with the slot helper and the dashboard |
| **sets, sessions, configuration** (`sets.go`, `main.go`, `github.go`) | targets served, set ids, one supervisor and session per set | `ensureTarget`, `dropTarget`, `syncTargets`, `sweep`, `superviseSet`, `openSession`, signals, `--delete-sets` | adds sets to and removes them from the lane; GitHub |
| **slot unit and helper** (`bin/lane-slot.sh`, units written by `provision-lane.sh`) | store copy per instance, store trash and its lock, per-instance Codex store and its lock, container | `prepare`, `exec`, `cleanup`, `retire_store`, `reap`, `codex_keepalive` | systemd; run-dir files; docker; flock |
| **provisioning and upkeep** (`provision-lane.sh`, `listener-health.sh`, `build-runner-image.sh`) | installed files, images, offline registrations | idempotent installation, health probe, sweep of offline runners | the machine; GitHub |

Hard here: goroutines outlive the slot they were started for; messages arrive late and out of order;
`systemctl` blocks while the unit's own cleanup changes the same files; the listener crashes while
units keep running; every call may fail with or without effect; budgets are shared between kinds;
memory is unsigned; cleanups of several instances, the reaper and the keepalive share a trash and
Codex stores under three different locks.

Correct means: no budget is exceeded by what really runs; every registration that can still take a
job is someone's to remove; a goroutine acts only on its own slot, container and runner; a waiting
job is taken; a container starts only on a fresh copy; the login of a running job is used by no one
else; each job has one complete history entry.

### What judges a pull request (Python, `src/gates/`, `src/bin/cli/`, `src/actions/`)

| part | state | operations | correct means |
|---|---|---|---|
| **gate contract and runner** (`_contract.py`, `bin/cli/runner.py`, `repo_rules.py`, `universal_checks.py`, `_descriptors.py`) | manifest lines, judged entries, base texts | read the manifest, judge each entry against base and head, report | what the base's manifest blocks on holds of a head that passes, whatever the branch edits |
| **regression gate** (`regression_test_fails_on_base.py`, `_regression_*.py`, `_local_guard.py`) | working tree, the stack's containers and networks, the environment | swap the code to before the fix, run changed tests on both, put everything back | a pass has a test that failed before, for no missing name or refused connection the gate knows of; tree and stack are left as found whatever stops the run |
| **coverage, mutation, affected tests** (`coverage_not_lost.py`, `changed_code_mutation.py`, `_affected_graph.py`) | checkouts, two runs at each side, mutants, the import graph | compare, score, select | told losses are real; the score is of the whole change; a test that loads anything else is selected |
| **feature map and suite scope** (`_features.py`, `feature_map.py`, `suite_scope.py`) | map on head, base and merge base; inert list | select features, judge re-walks, skip a suite | a pass with a criterion to check means every selected feature was re-walked; a suite is skipped only for a diff it cannot see |
| **requirements and proof audit** (`ticket_coverage.py`, `_plan_store.py`, `_proof_audit.py`) | body, plan sections, stored plan, grades | require, shard, grade, judge | nothing a pull request owes is dropped on the way to a pass |
| **QAE harness and acceptance** (`acceptance_verdict.py`, `_acceptance.py`, `qae_artifacts.py`, `_retry.py`, `explore.yml`) | runs, shards, attempts, evidence, carried verdicts | decide, explore, verify, carry | a green check stands on a walk of every criterion, in its words, of this page; a run that passes saw none of its own URLs fail |
| **review receipt and merge grant** (`review_receipt.py`, `_merge_grant.py`, `dashboard/merge_grant.py`) | policy, kept answers | judge a change, keep and show the answer | the badge beside a head is of the whole of what it changes |

Hard here: the pull request edits the very files that judge it; jobs of one run read the body, the base and the head for
themselves, minutes apart; heads are pushed, bodies edited, bases moved and jobs re-run in between; runs are killed while
the tree is swapped.

### What acts on a pull request

**Pin propagation** (`bin/cli/consumers.py`, `apply_down.py`, `gates/_pin_bump.py`, `_pin_merge.py`). State: pins on a
consumer's default branch, bump branches and pull requests. Operations: plan a target, `open_bump`, `supersede`,
`merge_pass` with `judge` per pull request. Hard: overlapping runs with different targets, a bump that fails part-way
leaves its branch, heads and bases move between a read and a write. Correct: what merges by itself changes nothing but pins, at
the head that was judged; every pin gets to the newest release in the end.

**Pull sync** (`actions/pull-sync/`). State: open pull requests with their checks. Operations: `judge` each, `plan` free
slots, `write` row by row. Correct: the load the runs add never exceeds `--max-in-flight`, however the world moves between the
read and a write.

### What tells about it: the dashboard (`src/dashboard/`) and the records it reads

| part | state | operations | correct means |
|---|---|---|---|
| **service and store** (`service.py`, `live_service.py`, `state_store.py`, `owner_set.py`) | the reading, its generation, caches, kept documents, forget flags | pass, head beat, token history, snapshot, revoke, forget, restart | what was read with refused access is left nowhere; what was forgotten does not come back; readings follow the abstract promise |
| **collector** (`collector.py`, `head_state.py`) | details, urgent heads, stamps | a pass on a budget of calls, a beat | a title shown green was green within a beat; every repository is read again |
| **lane history** (`lane_history.py`, `remote_sampler.py`) | samples, job records | refresh, tell | busy time shown is the time jobs ran |
| **previews** (`actions/preview/preview.py`) | check runs and statuses of a commit | record, find | the address found is not older than the pass waited for |
| **outcomes** (`outcomes.py`) | a reader, stored records | cycles, reset on lost access | forgotten records are neither served nor left on disk |

### How they interact

GitHub is the only thing most parts share; the exceptions are the lane's run-dir files
(`assignment`, `jobs.json`, `queue.json`) that the dashboard reads, and the head sample the dashboard's passes and beats share.
Gates run as jobs inside lane slots. Pin bumps and pull sync create the check runs that become lane demand. What a program
decides on it has always read earlier, and the others have moved since: that is what most of the modules are about.

## 2. Plan

Done, in the order in which a failure damages most: LanePlanner, LanePlan, Lane, JobRecords, SlotHelper; then Dashboard with
the abstract Reading, Collector, Pins, PullSync, MergeGrant; then the gates (Walk, Evidence, GateRun, Regression, Coverage,
Mutation, Requirements, ProofAudit, Affected, Features, SuiteScope); then the records (LaneHistory, Preview, Outcomes).
The proofs cover the safety properties of the first two groups, and of the others where nothing recursive is in reach.

Next, in this order:

1. `BusyIsReal`: its bound needs the busy moments summed by moment and by job, and that the two sums are one.
2. **Sets**: `sets.go` whole - partly created sets, the sweep, the session window against an earlier session's expiry.

## 3. Modules

Each module's header says what of the code it stands for and what it takes for granted. `PROJECT.json` maps every definition to its lines.

| module | models | abstracts |
|---|---|---|
| **LanePlanner** | `plan.go` as pure operators: `Wants`, `MayStart` with a conjunct per refusal, `Neediest`, `PlanIdleStops`, `PlanRecycles`, `MakePlan`; memory modulo `Word`, as `uint64` is | refusal codes and wording |
| **LanePlan** | the loop of `planStarts` as a state machine, a turn a step, from any input | - |
| **Lane** | listener, goroutines, units, run-dir files, registrations and messages around the planner | time: any idle slot may be old enough |
| **JobRecords** | assignment files and job history, in the steps the handlers take with and without the lock | an entry's content beyond started and finished |
| **SlotHelper** | `lane-slot.sh` beside other instances, the reaper and the keepalive | lengths of back-offs and timeouts |
| **Reading** | abstract: what the dashboard promises of the reading it shows | - |
| **Dashboard** | `service.py` and its store: passes, beats, requests, threads, failures, restarts; implements Reading | rows by where their content comes from |
| **Collector** | a pass's requests one by one, on its budget, and beats; checks, heads and stamps | a pull request's checks are one state |
| **Pins** | overlapping `apply-down` runs over one subscribed repository | a workflow file is its pin line and the rest |
| **PullSync** | a run's read, judgement, plan and row-by-row writes | repeated reads before the last |
| **MergeGrant** | the policy's judgement, and passes that ask while people push and retitle | a path by its kind |
| **Walk** | criteria job, explorers, verify job, attempts, carrying | a wording is a whole criterion |
| **Evidence** | what browsers record and explorers choose, with invalid input a step tries on purpose; the gate over it | widths, records by number; a call by how it ends |
| **GateRun** | the base's and the head's manifest, rules and descriptors; the judged entries | a rule's text by its strictness |
| **Regression** | both runs of a changed test, swap, seal, network guard, and every way to be stopped | a test by how it ends on each tree |
| **Coverage**, **Mutation** | the runs and judgements of the two gates | one file stands for all; a mutant by its fate |
| **Requirements**, **ProofAudit** | what a body owes, as operators; plan step, shards, grades and gate while body and plan change | a test file by its blocks |
| **Affected** | the import graph and selection | a text by what it imports and declares |
| **Features** | both sides' maps and the two gates that read them | a glob by the files it matches |
| **SuiteScope** | a run per head: list, pages of files, statuses | - |
| **LaneHistory**, **Preview**, **Outcomes** | the three programs that read back what others recorded | time in refreshes, polls, cycles |

Four modules hold programs that meet only through GitHub, or nowhere, each in a world of its own: **Sides** holds Collector and Pins, **TextGates** ProofAudit and Coverage,
**Gates** PullSync, MergeGrant, Walk, Evidence, GateRun, Regression, Mutation, Features and SuiteScope, **Records** JobRecords, Outcomes and Preview. They are what
the proofs speak of. The MC modules below add the rest, and a variable that names the program that moves: a behaviour chooses one at the
start and leaves the others as they began, so that a run costs the sum of its programs' states, not the product.

MC modules instantiate them. **MCLanePlan**, **MCLane**, **MCSlotHelper**, **MCDashboard** and **MCJobRecords** give one module its constants,
**MCSides** gives Sides its own; **MCGates** puts Gates and TextGates together and adds the last program that judges a pull request (Affected); **MCRecords** adds
LaneHistory to Records.

### Lane: how its state follows the code

| variable | code |
|---|---|
| `up` | the listener process |
| `served`, `assigned` | `l.sets` and each set's last statistics |
| `slots` | `l.slots`: set, phase, runner |
| `op[r]` | where the goroutine of runner r's slot stands (`start`, `undoStart`, `idleStop`) |
| `removing` | the background `removeRunner`s |
| `file`, `marker` | the run dir's `jit`/`job` and `idle-stop` |
| `unit`, `load` | the unit's state and the runner its container was given |
| `runner`, `setOf`, `queued`, `events` | GitHub: registrations, jobs, undelivered messages |

`Reconcile` is one `reconcile` under the lock: `refresh` (forget slots whose unit is down, clear leftovers,
withdraw registrations), the plan of LanePlanner on exactly the occupancy the code passes, and the
beginnings of its starts and stops. The goroutines' steps are separate actions
because nothing is locked between them. `JobStarted` and `JobCompleted` move a phase as the handlers
do, whatever the goroutine is doing. `Crash` and `Restart` (`rebuild`) adopt or clear what the files say. The unit's steps
(`PrepareOk` ... `CleanupFiles`) are systemd's and the helper's as far as registration and files go.
Failures are charged to `faults`: a refused or unanswered mint, failed write, start misreported by
`systemctl`, failed removal with or without effect, killed cleanup, failed prepare, crash, unreadable
unit states at rebuild. A runner names its slot object and goroutine; identifiers are reused only
once nothing refers to them; GitHub refuses to remove a busy runner, which `idleStop` relies on.

### Dashboard and Reading

Dashboard has one step per lock region of `LiveService` and its threads. A row, a cache or a document is told apart only by
where its content comes from - this process, an inheritance, nowhere - because that is what forgetting and revoking are about.
`R == INSTANCE Reading WITH shown <- github.rows, handed <- kept, refused <- noticed` is the refinement mapping, and
`KeepsPromise == R!ReadingSpec` says the readings start as the abstract ones do and every step is one of theirs or none.

## 4. Runs and bounds

| run | configuration | question |
|---|---|---|
| `lane_plan` | 5 sets, 3 kinds, 3 shared slots and one of `wait`'s own, qae concurrency 1, 16-word memory, 11,700 inputs | may a plan break a budget, double an instance, wrap memory, or take back a refusal; is a set left without a slot only where it must be, and does the loop end |
| `lane_org` | ci (one warm slot) and qae sets on one shared slot, unreadable or ample memory, 2 faults | do budgets hold for what really runs; is a registration ever lost |
| `lane_user` | one droppable set, 2 runner identifiers, 1 fault | do goroutines, units and files of successive slots stay apart |
| `lane_live` | one set with a warm slot, 1 fault, fair | do goroutines return, registrations settle, jobs get taken |
| `lane_stop` | no faults | violated: a stop lands on another slot's job (finding) |
| `lane_turns` | two sets, one slot, no faults, fair | violated: a set may wait forever (finding) |
| `slot_helper` | one qae instance with 2 runs, one ci instance with 1, trash of 1, 1 fault, fair | do jobs start on fresh copies, and on a Codex store only a swallowed failure of their own reset leaves full; is the login of a running job its own; does the trash stay bounded; do units come down |
| `job_records` | records: 3 runners, 2 sets, 1 instance, history of 2, one remembered slot, 1 fault; history: 2 good refreshes over 3 ticks, samples of a span of 2, jobs that start in the first two; preview: 2 runs of the check; outcomes: 2 cycles, 2 mishaps | one complete entry per job; busy time as the jobs ran; the address of the pass waited for; nothing forgotten served or left on disk |
| `job_record_stale` | no faults | violated: a record names a job of an earlier slot (finding) |
| `dashboard` | one repository, one history thread, 1 fault, 1 restart, 1 loss of access | is anything read with lost access left; does what was forgotten come back; does the service keep the abstract promise |
| `sides` | collector: 2 repositories with 2 and 1 pull requests, 3 calls a pass, readings of age 1, 1 move and 1 fault; pins: 2 runs, 1 file | is what is shown green green; is every repository read again; do automatic merges bring pins alone; do pins follow |
| `gates` | twelve programs, one at a time; bounds in `MCGates.cfg` | each gate's own question, listed in section 1 |

Why the bounds suffice for the questions asked:

- **Slots and identifiers.** Every interference in Lane is between a slot and its predecessor or
  successor on the *same* instance, so one instance with two identifiers shows it; a second instance matters only to
  budgets, which `lane_plan` covers with three, and `lane_org` with two kinds on one shared slot.
- **Faults.** One fault reaches every error path; two, as in `lane_org` and the regression gate's part, reach a failure during
  the recovery of another (a crash and then an unreadable rebuild; a signal while networks are put back). The fault-free runs
  show the findings need none.
- **`MaxQueued` 1** keeps a set's backlog to one job, enough to want a slot; larger backlogs are in `lane_plan`.
- **`Word` 16** makes a sum of three containers and the reserve wrap; `MemReadings` include the unreadable 0.
- **History of 2 with 3 jobs** pushes an entry out; `MaxRetired` 1 forgets a slot while its messages are late.
- **Trash of 1** is full after one retire. Two runs of the qae instance are needed for a keepalive, a cleanup and the next
  prepare to meet on one store.
- **What moves between reads.** Most judgements go wrong when one thing moves between two reads: one move, push, edit or merge beside
  two readers, runs or heads reaches that, and a second one (`MaxMoves` 2 of the walk, `PushBack` and `Retitle` of the merge grant) the return to where it was.
- **`MaxEvents` 5** of an explorer's session: a first answer, a refusal, a retry, a save and one more; **`MaxAttempts` 2**: one re-run.
- **`Break` 60** with three changed lines and two test runs at each side reaches scores on both sides of the line.
- **3 calls a pass** for three pull requests: a pass cannot read all it has to, so who is left out matters.

Each run checks for deadlock except `lane_plan`, where a round that is planned stops, and `gates`, whose programs end.
That nothing stalls without being deadlocked is what the liveness properties say.

Every property is also checked against a mutated definition, the operators marked `(mutant)`: a dropped guard, an off-by-one or a
swapped order in the modelled code that the property must detect.

Two properties have parts. `NeedsServed` says that a demand left unmet was refused (`DemandMet`) and that an idle slot is stopped only
where it may be (`StopsSpareNeeded`); `SlotsStayApart` that an instance's files name its unit's runner (`FilesNameUnit`) and that a
stop never ends its own runner's job (`StopSparesOwnJob`).

## 5. Fairness

- **LanePlan**: `WF(Next)`: a loop in one goroutine runs on.
- **Lane**: weak fairness of each goroutine's steps, background removals, message deliveries (in the set's
  session), `Statistics` (each message carries them), `ServeSet`, `Restart` (systemd `Restart=always`), each unit's steps,
  `JobEnds` (GitHub ends every job), and of *the* reconcile in which everything idle is old and memory is
  free: reconciles come every five seconds, so such a one comes again and again. Strong fairness of `TakeJob`:
  GitHub keeps offering a waiting job. `Sweep` stands for the provisioner's removal of offline
  registrations. An `Exit` without the job having ended is a fault (`RuntimeMaxSec`, container failure), never relied on.
- **SlotHelper**: *some* unit that can go on does, the pass holding the trash goes on, the reaper gets the lock or leaves,
  the timer fires. Nothing is asked of the keepalive or of free room: waits for the Codex lock and for room may end
  without either (the code's timeouts).
- **Dashboard**: a pass and a beat that began end (each call has a timeout), and the clear of disk or usage a failure began goes on;
  strong fairness of starting a pass, since the loop tries again and again while beats come between.
- **Collector**: a pass goes on. Nothing is asked of beats, nor of GitHub, whose calls may fail.
- **Pins**: each run goes on, checks of a head end; strong fairness of a run finding its bump, which the
  schedule brings back each time.
- **JobRecords**, **LaneHistory**, **Preview**, **Outcomes** and all of **Gates** have safety properties alone and no fairness.

## 6. Findings and observations

Findings, each a run that TLC shows violated:

1. **A stop may land on another slot's job** (`lane_stop`, `scaler.go:657`). `refresh` keeps an instance
   while its slot is `stopping`, "a stop must never land on the next slot's unit". But a job message moves
   the stopping slot to `busy` or `done` while `idleStop` still waits for `RemoveRunner`; the job ends, the
   instance is freed and the next slot starts; `RemoveRunner` then answers not found, taken for
   removed, and `systemctl stop` ends the next slot's job.
   What does hold is `StopSparesOwnJob`: a goroutine never stops *its own* runner's job.
2. **A lane smaller than its sets may starve one** (`lane_turns`, `plan.go:148`). The spread by active
   slots ties at zero whenever a slot frees, so names decide every round anew.
3. **A record may name a job that is over** (`job_record_stale`, `scaler.go:663`). The handler unlocks
   before it writes `assignment`; a reconcile in between frees the instance and starts the next slot.

Observations met while modelling or proving. They are in the models, as the code does them; the properties are stated so that they
hold with them, and none has a run of its own.

*Lanes.* The store trash may exceed `TRASH_MAX` (`lane-slot.sh:250`): listing and rename are not locked together; the true bound,
proved as `TrashStaysWithin`, is one less than `TRASH_MAX` plus the number of ci and qae instances. A cleanup that skipped
deregistering because of the idle-stop marker, then a failed removal and a crash of the listener, leaves the registration to
the provisioner's sweep alone; `NoSilentLeak`'s proof needed that case, no bounded run had reached it.
`reset_codex_store` runs in an `||` list, where bash ignores `set -e` (the comment at `lane-slot.sh:543-546` says so of `prepare_slot`): a prune,
a copy of the config or a chmod that fails is swallowed, only the last `chown` can fail the reset, and the job starts on a store that may hold more than the
login, against "nothing else may persist" (576) and "only auth.json survives" (582). `FreshStart` admits exactly that case (`unheard`) and no other.

*Lane history.* The time is noted before the host is asked (`collector.py:425`): a job that starts in between has its runner counted for the sample's whole
interval and its span besides, though `docs/dashboard-collector.md:290-293` and `_interval` say a job is never counted longer than GitHub says. One that ends in between is
covered by its span; a cleanup longer than a minute counts as running (`docs/dashboard-collector.md:327-330` says that). `BusyIsReal` bounds the excess by one interval for
each such runner; partial overlaps of spans and intervals, late starts and long cleanups are all in the run.

*Dashboard.* A beat whose read is refused while kept state is being forgotten revokes caches and disk but does not publish the empty
reading (`service.py:324-338`). `_forget_kept` clears the store before it resets the usage reader (`live_service.py:54-60`).
Within one repository pull requests carried over are read again in number order, so on a small budget the higher
numbers wait for the lower; `_detail` and `_urgent` keep closed pull requests. Outcomes: a process that ends between an
old cycle's write and its check, or between a reset and its deletion, leaves forgotten records on disk until the next loss
(`torn` in the model); an old cycle's check may delete what a newer reader wrote.

*Acting on pull requests.* `open_bump` writes text planned earlier over a blob read just before (`_pin_bump.py:264-271`);
overlapping runs of one target may reset each other's branch. A consumer subscribed by ruleset alone is flagged for
a stale pin by `consumers` but neither bumped nor named as skipped by `apply-down`. In pull-sync, a row that
replaces running checks adds load of its own if those end between the read and the write. The merge grant lists the files of
the current head beside texts read of an earlier one; the kept answer is dropped when the head differs. A branch forced away and back while a pass reads
comes back to the fingerprint the answer is kept under: a listing of the other version, if it has as many files, then stands as this one's, and the badge with it until
head, base or title move. `BadgeHolds` leaves out that case, told by `known.away`, and only that.

*Gates.* `carried` checks that the new head has the whole base, not that the walked head had. A body edited between explore and verify with
the same criterion ids has the old wording's verdict judged for the new wording (the property speaks of runs without such an
edit). A `- None:` body whose ticket criteria are all proved by tests is not required, and its proof is never judged, though
`_acceptance.py` says the verdict judges it. `git status` does not list an ignored file at a path the fix deleted
(`regression_test_fails_on_base.py:265-277`). A second signal, or docker failing, while the stack is put back leaves it half
moved. An explicit `--base-ref` that does not resolve makes gates that compare nothing read the head. Two linked plan sections
that define one id hide a requirement. A `package.json` that changes only its entries, and a config a `tsconfig` extends under another
name, select no test; a relative import through a subpackage never reaches its `__init__.py`
(`_affected_graph.py:240-247`). A feature the pull request itself adds can make a changed file shared
(`docs/feature-map.md:186-190` says otherwise). Suite-scope compares the head once, before it reads list and files.
The regression gate counts every failure before the fix that its patterns do not read as something missing: an assertion's, but also a `TypeError`, a timeout, a
fixture that raises, or a missing name in other words; and one of a connection the sealed network refused without counting it (`_regression_sealed.py:30-32`,
`docs/threat-model.md:64`). `ShownIsReal` says so much and no more. A Python suite that fails and prints `Ran 0 tests` - unittest's, when a `setUpClass` or a
`setUpModule` raises - is taken for an empty one and compared (`_coverage_runs.py:295-298`), against `coverage_not_lost.py:26-28`, "a suite that fails at either side ...
cannot run"; `LossIsReal` speaks of what the runs measured. The verdict on the acceptance criteria returns before it asks for a re-walk where no criterion is left to
check (`acceptance_verdict.py:364-372`): a `- None:` body, the limit `docs/feature-map.md:335-337` names, and a ticket whose every criterion a test proves, which it does not.

## 7. Proofs

tlapm checks eight modules, one per component or group (`*_proofs.tla`). What they show holds for every value of the constants that
satisfies the named assumptions.

| module | theorems | property of a run |
|---|---|---|
| LanePlanner_proofs | `RoundIsSafe`: a whole round gives distinct free instances within every budget | - |
| LanePlan_proofs | `TypeCorrect`, `BudgetSafe`, `InstancesSafe`, `RefusalsSafe`, `MemorySafe`, `NeedsAreServed` | `BudgetKept`, `InstancesKept`, `RefusalsStand`, `MemoryKept`, `NeedsServed` |
| Lane_proofs | `TypeCorrect`, `SlotsApart`, `BudgetSafe`, `NothingLeaks` | `SlotsStayApart`, `BudgetHeld`, `NoSilentLeak` |
| SlotHelper_proofs | `SlotTypesCorrect`, `CodexIsAlone`, `StartsAreFresh`, `TrashStaysWithin` | `CodexAlone`, `FreshStart`, `TrashWithin` |
| Records_proofs | `HistoryInvariant`, `RecordsAreComplete`, `FinishesAreKept`, `ForgettingHolds`, `AddressIsProved` | `HistoryComplete`, `FinishesStay`, `OutcomesForgotten`, `PreviewIsProved` |
| Dashboard_proofs | `TypeCorrect`, `RefusalStands`, `ForgettingStands`, `PromiseKept` (the refinement of Reading) | `RefusedLeavesNothing`, `ForgottenIsGone`, `KeepsPromise` |
| Sides_proofs | `TypeCorrect`, `JudgementStands`, `MergesArePins`, `GreenStands`, `PassesAreEarned`, `LossesAreReal` | `MergesOnlyPins`, `GreenIsTrue`, `NothingDropped`, `LossIsReal` |
| Gates_proofs | `LoadFits`, `BadgeStands`, `GreenStandsOnWalks`, `ServedStands`, `NothingIsWeakened`, `FoundAgain`, `ShownStands`, `SkipStands`, `ScoreStands`, `ReWalksStand` | `LoadBounded`, `BadgeHolds`, `GreenIsWalked`, `PassMeansServed`, `NothingWeakened`, `LeavesAsFound`, `ShownIsReal`, `SkipIsInert`, `ScoreOfWhole`, `ReWalkStands` |

### The invariants and why they are needed

**LanePlan.** `BudgetKept` speaks of sets of instances, but the loop decides by counters, so `IInv` adds `Accounts`, which ties
them: `taken` is the occupied and the started instances, and `used[b]` and `usedQAE` are the cardinalities of its part in that budget
and of its qae part. A start adds an instance that was not in `taken` (lemma `HeldOneMore`), and its guard looked at the
very cardinality the invariant speaks of. `RefusalsStand` is inductive because counters, planned memory and taken instances only
grow during a round and `MayStart` only gets harder with each: the code's own argument ("every rule only tightens"), made
exact. `MemoryKept` needs `Planned`: the memory counted for the starts is the sum over them, and the sum so far did not wrap.
`NeedsServed` is about a round that has ended, so `DInv` says what holds at every turn: a set wants exactly what it lacks (`Shares`);
none is ahead of one of its kind left short (`Evenly`: the neediest goes first, and a refusal of the one would have been one of the
other); and where all jobs fitted, those left still fit beside what is taken (`FitsStill`), so no set with a job can be refused
(`FittingStarts`) - four sums over sets of demands, each less by one turn's start. That stops spare what is needed is a fact of
an input alone: `sortIdle`'s order is total, so at most p idle slots have fewer than p older ones (`OldestFew`).
`RoundIsSafe` carries the same argument as `BudgetKept` over the recursive function that a whole round is, so that Lane may use it.

**Lane.** `IInv` says for each goroutine's step what it may still find: its slot's phase, its unit, its file, its registration. For
`NoSilentLeak` `AllInSight` lists every way a registration is someone's: a file, a goroutine, a removal, a unit not yet cleaned up, or the
sweep. `InRound` states what is true of a reconcile between its refresh and its plan.

**SlotHelper.** `IInv` adds to the types, for each instance: a unit that is not down has its job file
(what the keepalive looks at); a container runs only at `running` and in what follows a cut-short run; the steps
between copy and exec have a fresh copy; the Codex lock is the keepalive's exactly when its record
says so and the slot's in the steps that reset, return and run; from the reset to the run the store is the job's, and clean unless that reset failed unheard. `CodexAlone` follows because the keepalive looks at the job
file *under the lock* that prepare must also hold before exec: neither the lock nor the job file alone is enough. `TrashWithin`
counts the instances at `rename` beside the entries: each found space when it listed, so the last to look bounds the sum.

**JobRecords.** A message is pending, in the history or known to be missed (`Heard`), and a runner of whom nothing was heard has no
entry (`NoneBefore`). A history that only ever saw the finish (`FinishOnly`) is completed by the late start, not doubled.

**Outcomes.** A reader's records are free of what was forgotten (`Live`), except in a process that started from a deletion cut short
(`Doubt`): there the next deletion's reset makes it good again. What is stored and forgotten has a clear, a check or a service's
deletion still to come (`OnDisk`), and only an old cycle clears (`ClearIsOld`).

**Preview.** `AddressInv`: each record a run made is among the statuses (`Posted`), an address of a run with a database comes after that was
recorded (`StatusesOf`), and what the finder read of a run stays true of it (`LineHolds`): a pass is never taken back. So the run it waited for
has its address there, and the newest one is no older.

**Dashboard.** Types, what is in turn (`InTurn`: passes and beats exclude each other), and for each place a row can hide - GitHub's cache,
usage, caches, disk, a reading handed on - who is to remove it (`GithubForgot`, `UsageForgot`, `CachesForgot`, `DiskForgot`,
`ReadingsFollow`, `AllLost`). `PromiseKept` maps every action to a step of Reading or a stutter; the invariant is what shows that a step that must be a stutter is.

**Collector.** `GreenIsTrue` is of a shown title and a past moment, so `CollectInv` follows every row from the call that read it:
`SuccessNow` and `CheckedNow` say at what age a row's checks were true, `RowsSince` that a carried row is not older than the age allowed.

**Pins.** `JudgementHolds`: from the judgement to the merge, GitHub's own refusal of a moved head is what keeps the judged text the merged one.

**ProofAudit.** A pass says what was so of the body, the grades and the stored plan when it was given, and nothing moves after it: `AuditInv` keeps
that (`AuditPassed`, `CoveragePassed`), and that a grade is of its shard as cut (`GradesFit`). That a real quote is a line of a test's own body is about
the text: blocks joined to lines. `InBody` says it of the first so many blocks and each block more keeps it (`OneBlockMore`, by `Counting`);
`body_end` and `declaration` then find the block a quoted line stands in (`QuoteIsReal`).

**Coverage.** Two accounts of one diff must agree: the head's file, laid hunk by hunk, and `Diff.line`'s sum over the hunks before a line. `Position`
says where each line is, or what comes instead begins; each piece is as long as it moves the next line (`PieceFits`), so the pieces up to any line
have every kept line at its position and nothing else of the old file (`Laid`). A line looked for is then found as itself (`MovedIsThere`), and
what `lost_lines` finds is what stopped (`LostStop`). `CoverInv` carries it to the verdict: what stands when a run ends is what both pairs found.

**PullSync.** `SlotsSuffice`: the rows still to be written and the heads already running fit the slots counted. **MergeGrant.** `GrantInv`: a reader's
known answer is of the head and the title it names, and its listing of that head too unless another version stood there when it was listed (`known.away`). **Walk.** `WalkInv`: until someone edits the
body, every line an explorer left is of its words on the page of its run (`LinesAreSeen`), so what a kept run saw is a walk of the body as it
still is (`PastIsWalked`), and what a run carries is of a page that looks as its own does (`CarriedLooksSame`). A run with explorers is one
that had to be walked (`WalkIsRequired`): without it a declared run could be kept as evidence of a walk. **Evidence.** `ConsoleTells`: what the console has is what
the calls answered. A refusal excused
because a step tried invalid input was the one refusal of that step and its page told of it (`TiedIsTold`), and an excuse, which goes by URL and
status, is withdrawn when any line it covers is no such step's.
**GateRun.** `CourseInv`: each line of the base's manifest is still to judge, or its result is among the run's (`Told`). That a judged line stands
(`PassedStands`) is about one state, of any trees: the rules read are the base's, and a file's uses did not rise since it was where it was at the
merge base. A tree keeps its form through every edit and move (`EditedLawful`).
**Regression.** `TreeKnown`, `StackKnown`, `RanKnown`: at each step of the program, where each file and container is, who still has to move it back,
and on which tree a result was made. **Mutation.** `MutantInv`: the results so far are those of every noticeable mutant of the languages already
run (`Leaves`), all finished and none killed by a connection the guard refused (`Sound`); counting results is counting mutants, by a bijection
that needs each mutant to be of one place of one file (`BreaksAtPlace`). **Features.** `MapInv`: nothing moves once the gates judged, and what the
base's own pages owe is selected unless the branch adds a page that lists a changed file (`DueIsSelected`). **SuiteScope.** `ScopeTyped`, `InOrder`, `HeadKnown`: list and files are of the head compared, or the comparison failed.

Induction over a loop, a finite set or the sum of a fold is done without the library's theorems that take an operator: by the least
cardinality at which a statement about sets would fail (`Counting`), or a minimal element of a well-founded order.

### Assumptions

Each is a named ASSUME that the runs evaluate, or a hypothesis of the theorem. `PlannerAssumption`, `InstancesAssumption` and
`LanePlanAssumption`: counts are natural, a kind's instances are no more than its slots, inputs are of the right shape
and a slot's set has its instance's kind (`scaler.go:166`, `471`); `Kinds` is finite.
`SyncAssumption`: `--max-in-flight` is not negative (with a negative value no slot is ever free and the bound says nothing).
`NoneAssumption`, `JobRecordsAssumption`, `SlotHelperAssumption`, `LaneAssumption`, `BoundsAssumption`, `PinsAssumption`: bounds are natural and markers no members of
the sets they mark. `ScopeAssumption`: heads are numbered, lists are sequences, only a renamed
file has an old name. `TreesAssumption`: a branch starts from a tree whose uses are counted and whose files have a place.
`MutantsAssumption`: `--break` is natural, a change has finitely many mutants, each of a place of one of its files. `DatabasesAssumption`: a
preview has a database or none. `AuditAssumption`: a test's line is an assertion, an open one or a value, an output has its schema's shape, and the
sections a body links or defers to exist (of one that does not, either gate ends with no verdict). `CoverageAssumption`: a diff's hunks are in the file's order, none overlapping another, as
`git diff -U0` prints them, remove only lines there are, and are of a modified or moved file. `MaxAge`, `MaxMoves` natural, and grants listed by the policy (`GrantsListed`), as hypotheses.

Two slips in the models came to light as failing proofs and are corrected: `NoSilentLeak` counted too few of a crash's orphans, and a thread of
outcomes started after a reset was taken for an old one, which made `OutcomesForgotten` easier than the code has it.

### Only model-checked

- Liveness and ENABLED, which the prover does not do: `UnitsEnd`, `RunnersSettle`, `JobsTaken`, `OldReadingGoes`, `PinsFollow`, `TailIsRead`.
- `AffectedIsRun`: its selection is a closure written with RECURSIVE operators.
- `BusyIsReal`: a count of moments and of jobs by folds, see section 2.
- JobRecords' full type invariant (its `retired` list is a fold), and the three findings.

## 8. What is left out

- **Planner**: refusal codes and their text; the number widths of counts (slots are few).
- **Lane**: `queue.json` (a copy of what a reconcile read); the ages behind "old enough"; required files
  missing (in LanePlan only); sessions and their windows, partly created or deleted sets (creation and deletion are one action each),
  `--delete-sets`: planned as Sets; log lines.
  A completion handled before its start is JobRecords' (Lane delivers them in order); an error of `systemctl stop` (`scaler.go:583-584`) and a malformed job file at the
  rebuild (`scaler.go:159-163`) are left out, and a failed start is undone in one step (`scaler.go:518-528`).
- **JobRecords**: the contents of an entry beyond started and finished; sanitising of names beyond "no record is written".
- **SlotHelper**: lengths of back-offs and timeouts (they may elapse at any time); the btrfs store; the smoke
  container's snapshot and its discard; mounts, permissions and network set-up. Assumed: `docker rm -f` succeeds once reached;
  the listener removes a job file only of a unit that is down (a start misreported by `systemctl` is Lane's).
- **Provisioning and upkeep**: idempotent installation, its state is the machine's configuration; the
  effect that matters here, the sweep of offline registrations, is Lane's `Sweep`.
- **Gates**: those that judge one text without state; the soak record; parsers of reports and of the review receipt; prompts and wording.
- **Collector**: the repositories are listed in one step; how a search that failed stamps its reading, and the order of the stamps when heads are packed (`owner_set.py:335-403`).
- **Pins**: the hold of a pin whose `with:` gives an input the tool does not declare (`holds`, `_pin_bump.py:86-96`).
- **Affected**: of several configs in a directory all `baseUrl`s are followed (the code keeps the first, so the model selects more); what a config extends is a
  set, without its order, and an empty `paths` is as none.
- **Features**: what the criteria themselves lack is Walk's and ProofAudit's; the verdict here is of the re-walks alone.
- **Preview**: conclusions other than success and failure, queued runs have no start time, nothing is followed after the finder ends.
- **SuiteScope**: a pull request is retargeted at most once.
- **Pages, host sampling, seats, usage, tickets**: rendering and thin clients.
