# rec-deploy in TLA+

rec-deploy is a push-to-deploy daemon with a command line: GitHub posts a push to a
webhook, the daemon finds every checkout of that repository on the server, pulls it as its
owner and runs the pipeline its manifest declares; deploys, outcomes and registrations are
rows of one SQLite file. These modules model the parts where order, concurrency and failure
decide whether that goes right.

## Inventory

| Component | Code | State | Operations | Status |
|---|---|---|---|---|
| Webhook receiver | `internal/server` | `inflight`, `cancels`, `draining`; one goroutine per accepted push | `hook`, the deploy goroutine, `Shutdown`, `Drain` | `Webhook`, `Ledger` |
| State store | `internal/store` | tables `repos`, `deploys`, `deploy_paths`, `update_state` | `DeployStart`, `DeployFinish`, `ReconcileInterrupted`, `RepoInsert`, `RepoDelete`, path rows, lookups | `Webhook` (repos, deploys), `History` (deploys, path rows), `SelfUpdate` (`update_state`), `RepoAdmin` and `Uninstall` (the row of `repos`) |
| serve command | `cmd/serve.go` | the process | guard, reconcile, `deployAndRecord`, `recordResult` | `Webhook`, `History`; the guard is not modelled |
| Deploy engine | `internal/deploy` | a flock and a git tree per checkout; one `Result` per run | `Run`, `Rollback`, `targets`, `deployPath`, `rollbackPath`, `rollbackTo`, `sync`, `runPipeline`, `Lock` | `Checkout` |
| Discovery, manifest | `internal/discover`, `internal/manifest` | none (files of the trees) | `Scan`, `Filter`, `Load` | `Sites`; the scan's answers in `Checkout` |
| Command execution | `internal/privexec` | a process group | `Run` | its outcomes in `Checkout` |
| deploy / setup / rollback commands | `cmd/deploy.go` | a row of their own in `deploys` | `runDeploy`, `runRollback`, `rollbackTargets`, `record` | runs in `Checkout`; rows and targets in `History` |
| Self-update | `internal/selfupdate`, `cmd/selfupdate.go` | binary, kept binary, bad-release memory, the unit | check, keep, install, restart, watch, restore, record | `SelfUpdate` |
| Repository administration | `cmd/repo*.go`, `internal/github`, `internal/sshkey/store.go` | deploy key and hook at GitHub, two key files, the row | `repo add`, `rotate`, `check` and its repair, `remove`, `install` | `RepoAdmin` (add to remove), `Sites` (install); the table's effects in `Webhook` |
| Reachability checks | `internal/github/verify.go`, `cmd/repo_check.go` | the hook's record of deliveries, at GitHub | `VerifyHook`, `Reachability` | in `RepoAdmin`, as far as verdicts |
| Uninstall | `cmd/uninstall.go`, `internal/uninstall`, `internal/units` | everything installed | inventory, clean-up at GitHub, gate, services, files, data, binary | `Uninstall` |
| Retry | `internal/retry`, `Client.do` | none | bounded attempts | one call with its attempts is one action of `RepoAdmin` |
| Deploy keys and agent | `internal/sshkey` | key files, an agent process | keys are minted, saved, removed | the files in `RepoAdmin` |
| Systemd units | `internal/systemd`, `internal/units` | units | enable, disable, restart | as `SelfUpdate` and `Uninstall` use them |
| Notifications, configuration, terminal UI, listings | the rest | files, prompts | formatting, forms | not modelled |

How they interact: `serve` reconciles the store, then hands `hook` a callback; `hook` opens
a row and starts a goroutine that calls `deployAndRecord`, which calls the engine and then
writes path rows and the outcome. The command line runs the same engine in other processes:
the two sides share the SQLite file, the checkouts and the flocks, and nothing else.
`repo add` and `repo remove` change the rows the receiver reads while it is running. Nothing
registers a checkout: a push walks the roots and takes what it recognises, so panels, site
users and `repo install` decide on the disk what a push will find. `uninstall` takes away
what all the others use, with the daemon and perhaps an update still at work.

What is hard: requests, deploy goroutines, `Drain` and its expiring budget interleave;
SIGTERM, SIGKILL, a failed listener and a restart come at any point; GitHub repeats
deliveries; pushes overtake one another; several runs want one tree; a command may fail,
time out or be cancelled half-way; rowids are used again; a registration lives in four
places, and nothing spans them; an answer of GitHub is lost after the call took effect.
`PROJECT.json` lists each hazard at its line with the properties aimed at it.

What makes each part correct:

- receiver: a push is deployed at most once; a 200 means it is recorded; a row that says
  running has a deploy alive behind it; a drain abandons no deploy and can cancel all; a
  shutdown ends; stranded rows are settled by the next start.
- engine: a verdict is true of the tree; a run that moved a tree reports where it came
  from; only the holder of the lock moves a tree, and only to a commit it is entitled to;
  a push touches its own branch only; a careful deploy interrupted in its pipeline is undone;
  overtaking deploys converge; locks are given back; a wait for a lock can be cancelled.
- history: a rollback puts each checkout in its scope where the last run found it, also when
  that run recorded half a move, or was killed before it recorded anything; a target is always
  a commit that checkout has been on. A checkout without a target stays where it is.
- self-update: what is reported as restarted runs; a rollback leaves nothing of the release
  behind, also when the run was cancelled; a release that stays up is kept; one remembered as
  bad is not tried again; a crashing release does not end the service.
- administration: GitHub holds the key that the row names, however commands overlap; what
  was undone has left nothing; what a command reports is true; a removal can be repeated.
- discovery and install: a push reaches the checkouts of its repository and no other; an
  installation that ends well has run its pipeline over files of the right owner.
- uninstall: nothing stays at GitHub without the ids to remove it, or consent; the report
  accounts for what is left; half an installation can be finished by a second run, once
  there is a binary to start it.

## Plan

Modules, in order, the most important behaviour first:

1. `Ledger` and `Webhook`: the promise about one delivery and the receiver that keeps it,
   with `WebhookProofs` and `DeliveryProofs`. Done.
2. `Checkout`: the engine over contended trees, with `CheckoutProofs`. Done.
3. `History`: `deploy_paths` rows, `rollbackTargets`, the fallback for a killed deploy,
   manual rows, over a coarse engine whose moves and recordings are separate steps, with
   `HistoryProofs`. Done.
4. `SelfUpdate`: keep, install, restart, watch, restore, bad-release memory, with an operator
   at the unit and a kill between any two steps, with `SelfUpdateProofs`. Done.
5. `RepoAdmin`: add, rotate, check and remove over GitHub, key files and row, each step
   failing, commands side by side, with `RepoAdminProofs`. Done.
6. `Uninstall`: both phases, run again over what a failed or killed run left, with
   `UninstallProofs`. Done.
7. `Sites`: discovery, attribution and `repo install` on a disk that others change, with
   `SitesProofs`. Done.
8. A second daemon against the live one's rows. Not done: see Not modelled.

Abstract specification: `Ledger` for a delivery. Those of the other modules are their
properties: there is no second layer in the code that they would be the promise of.

Proofs, in order: the receiver's safety invariants and its refinement of `Ledger`; what a
run reports, and the scope of its moves, in `Checkout`, that an interrupted pipeline is undone
there and that overtaking deploys converge; where a rollback can take a tree and what it
undoes, in `History`; the key, the undone command, the removal and the reports of
`RepoAdmin`; consent and the account in `Uninstall`; what a run reports in `SelfUpdate`;
what a push finds and what an installation leaves in `Sites`. All done.

## Modules

| Module | Models |
|---|---|
| `Ledger` | one delivery: unseen, running, then one final outcome |
| `Webhook` | `internal/server`, the `deploys` and `repos` tables, start-up and recording of `cmd/serve.go` |
| `MCWebhook` | instances of it |
| `WebhookProofs`, `DeliveryProofs` | theorems about it: the count; deliveries, rows and the ledger |
| `Checkout` | `internal/deploy` over the checkouts of one repository |
| `MCCheckout` | instances of it |
| `CheckoutProofs` | theorems about it: what a run knows under its lock, and what deploys come to |
| `History` | the tables `deploys` and `deploy_paths`, `recordResult`, the rollback of `cmd/deploy.go` |
| `MCHistory` | instances of it |
| `HistoryProofs` | theorems about it: what a rollback can bring back, and what it undoes |
| `SelfUpdate` | `internal/selfupdate`, `cmd/selfupdate.go`, the bad-release memory and the daemon's unit |
| `MCSelfUpdate` | instances of it |
| `SelfUpdateProofs` | theorems about it: reports, rollbacks and the bad release |
| `RepoAdmin` | `cmd/repo.go` (add, rotate, remove), `cmd/repo_check.go`, `internal/github`, the key files |
| `MCRepoAdmin` | instances of it |
| `RepoAdminProofs` | theorems about it: the row's key, what was undone, removals, reports |
| `Uninstall` | `cmd/uninstall.go`, `internal/uninstall` |
| `MCUninstall` | instance of it |
| `UninstallProofs` | theorems about it: consent, the report, half an installation |
| `Sites` | `internal/discover`, `internal/manifest`, `repo install` of `cmd/repo.go` |
| `MCSites` | instance of it |
| `SitesProofs` | theorems about it: what a walk finds, what an installation leaves |

### Webhook

A slot of `Conn` is a request, and after the 200 the deploy goroutine it started: `at` is
`admit` between the lookup of the repository and the hold of `mu`, `ack` until the response,
`run` inside `deploy.Run`, `record` before `DeployFinish`, `leave` before the deferred hold.
`phase` is `ListenAndServe`'s progress: serving, `shutdown` (the listener closed,
`http.Server.Shutdown` waiting), draining, expired, and how the process ended: it drained
(`stopped`), it failed and systemd starts it again, or it did not drain and systemd had been
told to stop it (`killed`). `Accept` is
one action because the code holds `mu` over the drain check, the insert, the count and the
cancel. `Receive` reads the repository and `Accept` uses that copy, so a removal comes in
between. `IsNextRowid` is SQLite's rule for a key without AUTOINCREMENT. `Record` may fail
(`MaxFaults`) and is logged only. A deploy here is an arbitrary verdict after an arbitrary
time; requests that fail a check before `mu` change nothing and are left out, as are
`deploy_paths` and rows of manual deploys.

`acked` and `runs` are history: what GitHub was told, and how often a deploy was started.
`Ack` joins the response to the start of `deploy.Run`: both follow the hold of `mu`
in the same goroutine pair and neither waits for the other.

### Checkout

A worker is one run of the engine. `Begin*` are the daemon's goroutine, `repo deploy`,
`repo setup` and `repo rollback`; `Scan` and `Choose` are what the engine decides without a
lock; each later action is one command under the flock, so `at` names the command that is
next. `sync` is `Fetch`, `Reset`, `Clean`; `rollbackTo` is `Undo`, `UndoClean`, `UndoLoad`,
`UndoPipeline`, for a failed deploy (on its own context) and for a rollback (on the run's).
A failing or killed fetch or reset may have done its work or not.

A commit is a number in the order of arrival at GitHub, with a branch and a manifest; 0 is
the empty SHA. A manifest is what the engine asks of it: does it load (a manifest that names
another repository than the origin counts as broken), has it a setup block, does it ask for
a rollback, can a step of it stop the pipeline. `built` is the commit whose pipeline last
passed in a tree and is what "deployed" means here. `base` is history: the commit at the
time the lock was taken. `recorded` keeps every commit a path row ever named, a superset of
what the lookups answer, so a rollback of the model may go to any of them.

Abstracted: a push appends, so no branch is force-pushed back; a checkout stays on its
branch; a killed CLI's command ends with it (in the code its process group may outlive it);
a rollback's `repo rollback --path` is a target map with one entry.

### History

A worker is a goroutine of the daemon with an accepted push, a `repo deploy`, or a `repo
rollback`. `List`, `Rows` and `Prior` are the three statements of `rollbackTargets`, with
nothing held between them; `StartRollback` comes after the operator's answer, any time later.
`Scan` reads the manifests; a visit of a path under its lock is one step, chosen from what
`Checkout` shows in detail: left alone, failed before or after the reset, moved, undone, or an
undo that failed. A killed visit leaves the tree on either side. `DeployPathInsert` writes one
row of `deploy_paths`, after all visits, and may fail; `DeployFinish` too. A row of `deploys`
is reduced to what a rollback asks: running, interrupted or done. Rows are in the order of
`id`, which is that of `started_at` as long as the clock does not go back. Manual rows stay
running after a kill, as in the code; `StartDaemon` settles the rows of pushes.

`was`, `last`, `overlapped` and, in a run, `promise` and `before` are history: the
commits a checkout has been on, how the newest row came about and what a rollback that nobody
overtakes can be held to. The code takes no lock over reading targets and resetting, so a
rollback that begins while another run moves trees or records is held to nothing but
`TargetsWereHere`. `KilledIsUndone` asks for more than `RecordedIsUndone`: the fallback trusts
the newest `new_sha` of each path, which is the tree's commit only if runs did not overlap
(they record in any order) and no move failed half-way.

Left out: a manifest that is missing (the checkout is not found at all) and a removed
registration (its rows go with it).

### SelfUpdate

An updater is one run of the command. `Recall`, `Check` and `Record` are
`selfUpdateRestart`; `Prepare`, `Backup` and `Install` are `ApplyAndRestart` up to the swap
of the binary; `Decide` to `Unhealthy` are `superviseRestart` and `waitHealthy`; `Restore`
and `Recover` are `rollback`, on its own context. A run without `--restart` goes from
`prepare` to `install` and ends. `unit` is what systemd says of the daemon: `waiting` is
the restart delay after a failure, `restarting` and `stopping` a process that drains; only
`active` makes `is-active` say yes. `daemon` is the release of the unit's last process, which
an install does not change. Versions are their order.

Time is what the watch sees of it. A sample is a second, so `samples` is the elapsed time
and `Samples` the budget. A release in `Crashers` dies before any watcher has seen a process
of it for `Streak` samples, and as `RestartSec` (5 s) is longer than `pollInterval`, a
watcher sees each crash as a gap (the guard of `AutoRestart`). A release that dies later than
the streak is out of scope, as `waitHealthy` says of itself. The real budget is 30 samples;
three and four are those where a streak just fits.

`quiet` is history: no other updater, no operator and no failure came into this run. Nothing
in the code keeps the hourly timer and an operator apart, so the properties promise nothing
for two overlapping updaters: both write one `BackupPath`, and the second may keep what the
first has just installed. A kill of the updater after `Install` leaves the new release on
disk, unwatched and not remembered; that too is in the model and in no promise.

### RepoAdmin

One repository; a member of `Command` is one process of the operator. It mints at most one
key pair, one secret and one webhook, so all of them go by its name. `keys` and `hooks` are
what GitHub holds, `priv` and `pub` the two files, `row` the row. One action is one API call
with all its attempts, one statement or one run over the key files: `AddDeployKey`,
`CreateHook`, `Save`, `RepoInsert` are `addRepo`; `AddDeployKey`, `UpdateHook`, `Save`,
`RepoUpdate` and the drop of the old key are `rotateRepo`; `DropHook` and `DropKey` are the
way back of `abortAdd`; `DeleteHook` to `RepoDelete` are `deleteRepoArtifacts`; `ReadHook`
to `GiveUpPolling` are `checkRepo`, its repair and `VerifyHook`. The order is the code's and
`mine` is the copy of the row each command works from, read once at its start.

A call is answered, fails, takes effect and loses its answer, or finds nothing
(`Outcome`). A retry of a POST that had taken effect is refused, and
the command cannot tell (`lost`). `Save` may write one file of the two. `Kill` may come
between any two calls, `Misdirect` and `DeleteByHand` are what people do at GitHub. `marks`
and `fresh` are history: whether something failed in the command, an answer was lost, the
operator was told of something left over, whether it was alone. The pings are data of the
model because verdicts rest on them: GitHub sends a ping when it gets to it (`Deliver`), lists
it with its answer some time later and in an order of its own (`RecordPing`), and the check
finds its own by a list read before. `RepoUpdate` names its row by id alone: over a
registration made meanwhile it hits that one, if SQLite gave the id out again, or nothing
(`Updated`). `UndoneLeavesNothing`
excludes lost answers and announced leftovers, as the code does; nothing excludes other
commands.

### Uninstall

`Inventory` and `Ask` are the first half of `runUninstall`; `Client` to `Gate` the clean-up
at GitHub, where `todo` is the repositories still to come and `now` the one in hand;
`Package` to `BinaryFile` are `uninstall.Run`, whose targets are taken in the code's order
or, among units alike, an arbitrary fixed one (`Turn`). No step of the second phase ends the
run. `report` has an outcome for each target. A cancelled context makes each later call of
systemctl and dpkg fail without being started; the code takes silence for "not running"
and "not owned", and `misled` records that; the key files alone are removed without asking
the context. `Kill` forgets the run; the next `Begin` works on what is left, as long as the
binary is. The binary goes last whatever failed before it; after that only `PutBack`, the
operator's own installation, makes another run possible. `Register`, `UpdateLands` and `DaemonLocks`
are the others: a `repo add`, an update under watch that takes the stopped daemon for a bad
release and puts the kept binary back, and a daemon that did not stop and opens a lock.
`accepted`, `late` and `back` are history: what the operator agreed to leave at GitHub, what
was registered after the inventory, what the others put back.

### Sites

A directory has a kind, an owner and perhaps files in it (`place`), and perhaps a checkout
(`tree`): its origin, whether HEAD is on a branch, its manifest under either name and what
that declares. Slugs have a spelling, which GitHub does not tell apart and a byte
comparison would. `Walk`, `Inspect`, `Scan` and `Filter` are `internal/discover`, including
the pruned names, what is nested below a checkout, and `strayOwner`. `installRepo` is cut
where another can change the next call's answer: inspect, confirm, clear, owner, clone,
manifest, deploy. A deploy of one checkout is one step (`Deploys`), as its details are
`Checkout`'s; it replaces the contents, sweeps untracked files (`git clean -fd` leaves nested
repositories) and runs the pipeline of what it pulled; where the setup that was asked
for has gone from the commit pulled, `post_deploy` may have run though the deploy fails
(`Unasked`). `ran` is history, `raced` too:
whether somebody else was at the destination during an installation. A push deploys one
checkout that its scan finds; several are several steps. Users are a root and another:
installations run as root, as the code needs to hand files over.

## Runs

| Run | Bounds | Shows |
|---|---|---|
| `webhook` | 2 deliveries of 1 repository, 2 slots, 2 kills, 1 failing write; fair | the receiver implements `Ledger`; an expired drain has cancelled every deploy; rows settle; a shutdown ends |
| `webhook_registry` | 2 repositories, one of them removable, 3 slots, 1 kill, 1 failing write | the safety invariants while registrations come and go |
| `webhook_removal` | as above, 2 slots, no faults | counterexample, see Findings |
| `checkout` | 1 checkout, 2 workers, 3 runs, 3 commits (careful or broken manifests), 1 fault, 1 cancellation, kill or rollback | verdicts, rollback points, interrupted pipelines, convergence |
| `checkout_fan_out` | 2 checkouts of one branch and a second branch, 2 workers, 2 runs, 4 commits, 1 fault | a push moves its own branch's checkouts, and all of them |
| `checkout_ends` | 1 checkout, 2 workers, 2 runs, 1 fault, 1 disturbance; fair | every run ends, a wait for the lock can be cancelled |
| `history` | 2 checkouts on 2 branches, `--path` or all, 1 worker, 3 deploys, 3 commits, 2 faults or kills | a rollback goes where the last run came from, by the rows or by the fallback |
| `self_update` | 3 releases of which the second crashes, 1 updater, 3 runs, 4 samples, 2 troubles; fair | reports are true, rollbacks complete, good releases kept, bad ones not retried, the service comes back |
| `repo_admin` | 3 commands, 2 of which run, in turn or together; 1 more may have registered before; 2 failures, kills or changes by hand | the row's key is at GitHub, what was undone is gone, reports are true, removals repeat |
| `repo_verdict` | 1 command over a new repository or a registered one, no trouble | counterexample, see Findings |
| `uninstall` | 2 repositories, daemon, update unit, a unit of a former release; 2 runs, 2 failures, cancellations, kills, registrations or reinstallations | nothing orphaned without consent, the report accounts, a run that starts finishes |
| `sites` | a root, a site, a theme and a pruned cache in it; 2 repositories, 1 registered; 2 spellings, 3 contents; 2 installations, 2 touches by others | a push finds its checkouts, an installation keeps its word |

Why the bounds are enough: two deliveries and two slots are the smallest instance in which
one request is decided while another deploys and a delivery arrives twice at once; the third
slot adds a request that was decided before a drain began. Two kills let a row be stranded,
settled and the settled state survive another. For the engine, two workers on one tree are
all a lock can see; three runs let a rollback follow two deploys; three commits give a
base, a tip and a push that overtakes it; one fault and one disturbance meet at every
command. Where a longer history would matter (ids used again, deploys in a row), the bound is
on what is inserted, not on how often it is tried. For the history, three rows are a
recorded deploy, one that is killed and the rollback of it; two branches give every push a
checkout it skips. For the updater, three releases are one to
come from, one that crashes and one that mends it; the third run comes after a rollback and
a skip; two troubles meet in one run, and a fourth sample lets a streak begin again. For a
registration, two commands are every pair of commands in every order, over a row made by a
third; the second trouble lets the way back of the first fail too. For `uninstall`, the
second run is the one that finishes, and two repositories let one be cleaned and the next
fail. For `sites`, three levels put a checkout above, below and beside another, and two
touches come before and after a step of one installation or into each of two. Slots,
commands, repositories of `uninstall`, and the workers and checkouts of `checkout` and
`checkout_fan_out`, are interchangeable and reduced by symmetry where they are model
values; no run that checks liveness uses symmetry.

All runs but those of `Webhook` set `CHECK_DEADLOCK FALSE`: once the bounded runs are
spent and all are idle the model has nothing to do, as the program has until the next push,
command or tick of the timer. The runs of
`Webhook` check deadlock: a stopped daemon can always be started.

### Fairness

`Webhook`: a deploy goroutine goes on (`deployTimeout`, the timeouts of steps and
`recordTimeout` bound each stage), `Shutdown` returns within its ten seconds, `Drain`
returns once the count is zero, and systemd starts a daemon that failed by itself
(`Restart=on-failure`). Nothing is assumed of requests, of the drain's expiry, or of an
operator. systemd starts nothing it was told to stop, be it that the stop ended in a SIGKILL
at `TimeoutStopSec` or came in the seconds before a restart (`CallOff`): such a daemon is
`killed` and may stay down, and `RowsSettle` says nothing of the rows it left running.

`Checkout`: every command ends, by itself or by the timeout `runGit` and the pipeline give
it; a worker then goes on. `RunsEnd` assumes it of all workers, weakly: the lock is polled,
and the bounded number of runs makes overtaking finite. `CancelEndsTheWait` assumes only that
the waiter itself is scheduled, so it holds when the lock's holder never moves again.

`SelfUpdate`: every step of an updater ends (the download, `systemctl` and the watch have
their limits), a draining process ends (`TimeoutStopSec`), a crashing release crashes, and
systemd restarts what failed (`Restart=on-failure`). Nothing is assumed of operators, of new
releases or of the timer.

The other modules promise nothing that must eventually happen: their commands are
sequences whose calls all have limits, and the operator may call them off.

### Mutants

Next to a definition stands, for every property, the form a plausible bug would give it
(`X_Something` beside `X`): a dropped drain check, a missing WHERE, a count taken down
twice, a rollback on the cancelled context, a copy in the wrong direction, a row deleted
before the key it names, a parent's owner for a directory that has its own, a reset to the
pushed commit instead of the tip. With the mutated form in place the property fails in its
run.

## Proofs

The theorems hold for every set of deliveries, tokens, connections, checkouts, branches,
manifests, workers, releases, updaters, commands, repositories and units, and every bound.
Assumed are `ConnAssumption` (finitely many slots), `DeliveryAssumption` and
`BoundAssumption` of `Webhook`, `CheckoutAssumption` (every checkout is on a branch that
exists on GitHub) and `HistoryAssumption` (the same, and the checkouts are numbered),
`SelfUpdateAssumption` (releases are positive numbers, the budget of a watch holds a
streak), `CommandAssumption` and `BoundAssumption` of `RepoAdmin`, `UninstallAssumption`
and `SitesAssumption` (the directories form a finite tree: of any of them one lies
outermost and one innermost, which is all the proofs use of it in place of an induction),
which TLC evaluates on every run; two results have one hypothesis more, `Removable = {}`.

| Theorem | States |
|---|---|
| `WebhookProofs!TypeCorrect` | `Spec => []TypeOK` |
| `WebhookProofs!DrainWaitsForAll` | `Spec => ReturnAbandonsNothing` |
| `DeliveryProofs!DeployedAtMostOnce` | `Spec => []AtMostOnce` |
| `DeliveryProofs!AcknowledgedIsRecorded` | `Spec => []AckedIsRecorded` |
| `DeliveryProofs!RunningHasADeploy` | `Spec => []NoZombieRow` |
| `DeliveryProofs!ExpiredDrainReachesAll` | `Spec => []DrainCancelsAll`, nothing removed |
| `DeliveryProofs!ReceiverKeepsLedger` | `Spec => RefinesLedger`, nothing removed |
| `CheckoutProofs!CheckoutTypes` | `Spec => []TypeOK` |
| `CheckoutProofs!VerdictsAreTrue` | `Spec => []VerdictIsTrue` |
| `CheckoutProofs!MovesAreReported` | `Spec => []MoveIsReported` |
| `CheckoutProofs!TreesMoveInScope` | `Spec => MovesInScope` |
| `CheckoutProofs!InterruptedAreUndone` | `Spec => []InterruptedIsUndone` |
| `CheckoutProofs!PushesAreDelivered` | `Spec => PushIsDelivered` |
| `CheckoutProofs!DeploysConverge` | `Spec => []Converges` |
| `HistoryProofs!TypeCorrect` | `Spec => []TypeOK` |
| `HistoryProofs!RollbacksStayHome` | `Spec => []TargetsWereHere` |
| `HistoryProofs!RollbackUndoesRecorded` | `Spec => []RecordedIsUndone` |
| `HistoryProofs!RollbackUndoesKilled` | `Spec => []KilledIsUndone` |
| `SelfUpdateProofs!TypeCorrect` | `Spec => []TypeOK` |
| `SelfUpdateProofs!ReportedIsRunning` | `Spec => []RestartedIsRunning` |
| `SelfUpdateProofs!RollbackIsWhole` | `Spec => []RolledBackIsBack` |
| `SelfUpdateProofs!GoodStays` | `Spec => []GoodReleaseIsKept` |
| `SelfUpdateProofs!BadStaysOut` | `Spec => BadIsNotRetried` |
| `RepoAdminProofs!TypeCorrect` | `Spec => []TypeOK` |
| `RepoAdminProofs!RowKeyStays` | `Spec => []RowKeyIsThere` |
| `RepoAdminProofs!UndoneIsClean` | `Spec => []UndoneLeavesNothing` |
| `RepoAdminProofs!RemovalRepeats` | `Spec => []RemovalCanBeRepeated` |
| `RepoAdminProofs!ReportsAreTrue` | `Spec => []ReportIsTrue` |
| `UninstallProofs!TypeCorrect` | `Spec => []TypeOK` |
| `UninstallProofs!OrphansAreConsented` | `Spec => []OrphansAreAccepted` |
| `UninstallProofs!ReportIsComplete` | `Spec => []ReportAccountsForAll` |
| `UninstallProofs!HalfRemovedFinishes` | `Spec => []HalfRemovedIsFinishable` |
| `SitesProofs!SitesTypeOK` | `Spec => []TypeOK` |
| `SitesProofs!PushFindsItsCheckouts` | `Spec => []PushReachesItsCheckouts` |
| `SitesProofs!InstallKeepsWord` | `Spec => []InstallKeepsItsWord` |

None is inductive alone; each module adds what it needs.

- `CountInv` (`WebhookProofs`): `Leave` subtracts one from `inflight`, which stays a natural
  number only because the slot that leaves was counted, and `Drained` says something of the
  goroutines only because the count is their number. So: types, `SlotsFilled` (a slot in use
  has a delivery, a counted one a row id) and `InflightCounts` (`inflight` is the cardinality
  of the slots between acceptance and leaving). `Accept` adds one element to a finite set,
  `Leave` removes one, a process end empties it.
- `DeliveryInv` (`DeliveryProofs`): a request uses a copy of a repository that may be gone,
  and ids are used again, so rows, slots, the table of repositories, the run counters and
  `acked` have to agree on each delivery whose registration still stands. `TokensAreOnce` is
  the uniqueness of tokens; `Belongs` ties a slot or a row to the registration; a delivery
  without a row is untouched (`FreshIsUntouched`); the one goroutine about to start a run and
  the run itself count together (`RunsOnce`). Most actions are instances of `QuietStep`.
- `AliveInv` (`DeliveryProofs`): the goroutine behind a running row has not recorded yet.
- `KeptInv` (`DeliveryProofs`): with nothing removed, no id is used twice, so each goroutine
  owns its row and its entry of `cancels`, a delivery has one row, and a process that is down
  has no goroutine. This is exactly what a removal breaks (run `webhook_removal`). From it,
  `Accept` opens an entry of the ledger, `Record` settles it, `Start` writes off, and every
  other step leaves the ledger as it was.
- `EngineInv` (`CheckoutProofs`): a verdict is given many commands after what it speaks of
  was read, and between any two of them another run, a push, a cancellation or a kill may
  step. `KnownInv` says that every SHA in use is a commit GitHub holds, which needs every
  branch to have a head (`MaxExists`, by well-founded descent); `ScopeInv` that the path
  under the lock is one the job asked for. `LockInv` says what a run may rely on between its
  commands, by where it is: it holds the flock of its path, its rollback point is the
  commit it found, and what it read of the tree or reset it to is still so. The last part
  survives the others because a tree changes only under its flock and two runs cannot hold
  the same one (`OthersKeep`); each command then adds what the next one relies on
  (`HeldStep`), and a kill gives up the lock together with the knowledge.
- On `EngineInv` three more rest. `PromiseInv`: until HEAD is read after the reset nothing is
  promised, and from there each way out of a deploy that must be undone is a success, a
  rollback, or a command that failed by itself, because what interrupted the deploy does not
  reach its rollback. `DeliveryInv`: a run for a push carries a commit no older than the push
  from the fetch to the report, because a branch only grows (`TipIsNewest`), and no checkout
  of the branch is passed over. `CalmInv`: as long as nothing fails, a checkout only goes
  forward along its branch, what is on disk is built or in the hands of the run that builds
  it, and for each push whose run has begun every checkout of the branch has it already or is
  still owed it (`Owes`) by that run. When all runs are over nothing is owed.
- `HistoryInv` (`HistoryProofs`): a target is read from rows, which were written from results
  a run carried along after its visits, and other runs, kills and restarts come between any
  two of these. So `RowSeen` has to hold of rows, of results not yet recorded and, for
  targets, of runs that wait for an answer (`RunSeen`); it survives every other step because
  the commits a checkout has been on only grow (`RunSeenGrows`). That the fallback names a
  row at all needs the maximum of a bounded set of ids (`MaxExists`), that a visit has a
  path the least element of a set (`MinExists`).
- `UndoInv` (`HistoryProofs`): what a deploy did is told by trees, by results in the hands of
  a run and by rows, in this order, and a rollback compares rows with trees it reads at
  another time. While the newest deploy is alone and has lost nothing (`CleanInv`), every
  row and result is `Faithful` and every checkout that has moved is `Traced` to one; while
  nothing at all has gone wrong (`KnownInv`), the newest row with a `new_sha` is where the
  checkout is, or the run that moved it has still to record it, so that a kill leaves the
  fallback something true (`KilledInv`). `ChoosingInv` carries this through the three
  statements of `rollbackTargets` and the wait for an answer: nobody is under way in between,
  as a run that begins takes every promise away. `PromiseInv` carries it through the visits.
- `WordInv` (`SelfUpdateProofs`): what a run says at its end was settled by what it did
  tens of steps before, so `KeepsWord` says of each step of a quiet run what the binaries, the
  memory, the unit and the daemon are there: `Forward` up to the swap and the restart,
  `Watching` that only a crashing release leaves a gap and that the streak counts samples one
  process has lived through, `Backward` from the first step of the way back. It needs that no
  other run is beside a quiet one (`QuietIsAlone`) and that what is remembered as bad was
  published once (`Published`), so that a new release is never it; and, for the order of
  releases, that there is a newest one (`MaxExists`). A step of systemd changes the unit under
  a run that does not move (`SystemdIsNobody`); trouble ends the quiet.
- `NamedArePlaced`, `AheadIsThere`, `OldKeyIsOut`, `KeysAgree` (`RepoAdminProofs`): that GitHub holds the
  row's key has to survive a rotation and a removal that work from copies of rows read
  earlier. What the row or a copy of it names was minted by a command that got to its row and
  was not undone; the key of a command on its way there is at GitHub and nobody else can name
  it; a rotation takes its old key away only after the row has moved on; and the row
and each copy name the hook that goes with their key. For
  `UndoneLeavesNothing`, `HooksAreClean` says that a command whose hook is not made, or taken
  back, signs none, and `FilesAreSaved` that only a command that has got to `Save` is in the
  files.
- `Reporting` (`RepoAdminProofs`): what a command reports holds of GitHub, the files and the row
  at once, but each of its steps settles one of them. So `OnTrack` says of a command that is
  alone, at each step, what it has settled (`Adding`, `Rotating`, `Removing`, `Checking`), and
  `FreshInv` that it has reached its aim at the end and nothing runs after it. `PingsInv` is
  for a check: its own ping is sent once, answered once and put on record answered.
- `CleanupInv` (`UninstallProofs`): the repositories a run works on have their rows
  (`WorkHasItsRow`), so no registration of one comes in between; of the one in hand, what has
  been passed is gone at GitHub (`CleanedSoFar`); and every row is still to be cleaned, has
  failed, is to be left or came later (`RowsAccounted`), so that behind the gate the data may
  go.
- `AccountInv` (`UninstallProofs`): a target is passed once and reported at the end, while the
  daemon, an update and a Ctrl+C can change what is there. `Told`: a target whose turn is over
  is gone or its report says why not, or somebody put it back; `GoesWell`: a run without
  trouble has failed at nothing and passes the gate with nothing left at GitHub, which makes
  half an installation one that a second run finishes.

- `WalkIs` and `SiteInv` (`SitesProofs`): what a walk finds is defined by recursion over
  children, what a property says of it by the directories on the way. `FoundBelow` is the
  second, and solves the first (`FoundItself`, `FoundDeeper`); no other function does, as the
  innermost directory where two differed would have a child where they differ (`Innermost`).
  The other direction, from a directory up (`Above`), is solved in the same way, and any two
  directories that hold a third hold one another (`AboveChain`): what somebody does elsewhere is
  apart from the destination (`ApartBelow`). So `WordInv` survives it, which says who clones
  (`FromInv`), that all there is belongs to its owner from the clone on (`OwnInv`), and that
  the first deploy leaves what the next can use (`FitInv`). That a clone into an empty or new
  directory has nothing below it needs `FamilyInv`: whatever is there lies in a directory.

Model-checked only: liveness (`RowsSettle`, `ShutdownEnds`, `RunsEnd`, `CancelEndsTheWait`,
`ServiceComesBack`), which the prover cannot reach. No module declares a RECURSIVE operator:
`Sites` recurses in functions.

## Findings

In 1 and 2 the property is what the code's comment says and the run finds it violated. In 3 to
5 a word of the code goes further than what it does; the property holds of what it does,
with the exception named in its comment, and the passing run shows how far that is.

1. `webhook_removal`: `cancels` is keyed by `deploys.id`, a key without AUTOINCREMENT.
   Removing a repository while its deploy runs frees the id; the next deploy takes it and
   overwrites the entry, so a drain whose budget expires cannot cancel the first deploy and
   waits out its `deployTimeout`, which `server.go:293-296` says the code rules out.
   `DrainCancelsAll` holds where nothing is removed (run `webhook`).
2. `repo_verdict`: `VerifyHook` takes the newest ping that was not on its list before for its
   own (`verify.go:110`), whoever caused it, although it "triggers its own ping rather than
   reading the one GitHub sends when a hook is created", since that one may be answered 404 and
   "would report a healthy server as broken" (`verify.go:64-67`). In the counterexample nothing
   fails: the creation ping of `repo add` is answered 404 before the row is there, is listed
   after the check has read the list, and becomes the verdict on a webhook in working order.
3. `uninstall`, `HalfRemovedIsFinishable`: "a half-removed install must be finishable by a
   second run" (`internal/uninstall/uninstall.go:132-134`) and, printed after a failure, "a
   re-run finishes what is left" (`cmd/uninstall.go:229`). The binary goes last whatever failed
   before it (`internal/uninstall/uninstall.go:274`), so after a failed step there is nothing to
   run again. What is left is finished by a run once the operator has put a binary back
   (`PutBack`), and after a kill, which leaves the binary.
4. `uninstall`, `ReportAccountsForAll`: after Ctrl+C in the local phase systemctl and dpkg are
   not started, and their silence is taken for an answer: a running unit is reported as "not
   enabled or running" and left, a file of a package is removed, though the report is "the full
   account of a run — nothing the engine did is silent" (`internal/uninstall/uninstall.go:79`).
   The property excepts a run that was `misled`.
5. `sites`, `InstallKeepsItsWord`: the help of `repo install` has git run "as the owner of the
   parent directory so every file lands correctly owned" (`cmd/repo.go:685`). In an empty
   directory that is there already git runs as that directory's own owner, as the comment at
   `cmd/repo.go:716-719` says. The second half of the help's sentence holds by this; with a
   parent's owner in its place (the mutant `OwnerDir_Parent`) it fails.

## Noticed while modelling

Consequences of the code that contradict no word of it and are in the models, so that no
property promises the opposite:

- a deploy cancelled at `git clean`, or at the `headSHA` behind it, has moved its tree, ends as
  failed and is not rolled back, whatever `rollback_on_failure` says: `InterruptedIsUndone` is
  about pipelines, and for this one `MoveIsReported` says that the way back is known;
- a failed `repo add` can leave a key or a hook at GitHub when an answer was lost, as the retry
  is then refused; a `Save` that fails half-way leaves the file it wrote;
- the loser of two `repo add` at once removes the key files the winner has just saved; a
  removal that read the row before a rotation leaves the new key at GitHub;
- `uninstall --json` exits 0 whatever failed;
- stopping the daemon under a self-update that watches it makes that update roll back and put
  the binary back;
- a push can run `post_deploy` in a fresh clone before `repo install` has run setup there, and
  a kill between the clone and its first deploy means setup never runs by itself;
- a checkout below another checkout, in a pruned directory or outside the roots is found by no
  push, and nobody is told;
- an update that meets the daemon inactive, be it within the `RestartSec` of a
  failure, neither restarts nor watches it, and systemd then starts the new release;
- a supervised update that overlaps another may keep the release the other has just installed.

## Not modelled

- `serveGuard` (`cmd/serve.go`): it asks systemd and probes the port before the start. A second
  daemon that passes it, started by hand on another port beside one that is not
  systemd's, runs the start-up statement over the first one's rows. `Webhook` has one
  daemon at a time; its promises are about that.
- `internal/notify`: sends a message after the fact and its failure is only logged; no state
  the modelled parts read.
- `internal/config`, `cmd/config.go`, `cmd/init.go`: forms over one file, which is read when a
  command starts and again for the notifications of a delivery.
- `internal/ui`, `cmd/inspect.go`, the listings and the other reports: they show rows and trees,
  and their forms are in the models as the operator's free choice.
- `internal/sshkey`'s agent and the pinning of host keys: set up before a command and torn
  down after it; a failure is the failure of the command they serve.
- `internal/privexec`: in `Checkout` as the outcomes of a command; the process group that may
  outlive a killed `repo deploy` is not, so the flock of the model ends with the command.
- `internal/retry`: pure; a call of `RepoAdmin` is all its attempts.
- `continue_on_failure` of a step is reduced to "a step can stop the pipeline"; that a
  pipeline of steps that may all fail passes on a cancelled context is therefore not in
  `Checkout`.
- HTTP parsing and signature checks decide whether a request counts and are folded into
  `Receive`.
