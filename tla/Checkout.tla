------------------------------ MODULE Checkout ------------------------------
(***************************************************************************)
(* The deploy engine: internal/deploy (Run, Rollback, Lock, the git steps, *)
(* the pipeline) over the checkouts of one repository.                     *)
(*                                                                         *)
(* A worker is one run of the engine: a deploy goroutine of the daemon or  *)
(* a `rec-deploy repo deploy | setup | rollback` process.  It scans for    *)
(* checkouts without a lock, then takes them one at a time under a flock:  *)
(* read HEAD, fetch, reset, clean, read HEAD, load the manifest that came  *)
(* with the tree, run its pipeline, and, where the manifest asks for it,   *)
(* put the tree back.  One action is one command, so that another worker,  *)
(* a push to GitHub, a cancellation or a kill can come between any two.    *)
(*                                                                         *)
(* Abstracted: what a command does beyond the commit it leaves HEAD on; a  *)
(* manifest is the four things the engine asks of it.  A checkout stays on *)
(* its branch.  A push appends a commit, so branches do not go back.       *)
(***************************************************************************)
EXTENDS Naturals, Sequences, FiniteSets, FiniteSetsExt

CONSTANTS
    Path,           \* the checkouts of the repository on this server
    Branch,
    BranchOf,       \* the branch each checkout is on
    Manifests,      \* the manifests a push may bring
    InitialCommits, \* what GitHub holds at the start: one commit for each branch
    Worker,
    MaxCommits,     \* bound on commits
    MaxRuns,        \* bound on runs of the engine
    MaxFaults,      \* bound on commands that fail or time out by themselves
    MaxDisturbances,\* bound on cancellations, kills and rollbacks
    NoPath, NoBranch, NoWorker

\* file: the manifest on disk parses, does not parse (or names another repository),
\* or is not there.  setup: it has a setup block.  rollback: rollback_on_failure.
\* lenient: no step of post_deploy can stop it (none, or continue_on_failure).
Manifest == [file : {"ok", "broken", "missing"}, setup : BOOLEAN,
             rollback : BOOLEAN, lenient : BOOLEAN]

ASSUME CheckoutAssumption ==
    /\ BranchOf \in [Path -> Branch]
    /\ Manifests \subseteq Manifest
    /\ InitialCommits \in Seq([branch : Branch, manifest : Manifest])
    /\ Len(InitialCommits) <= MaxCommits
    /\ \A b \in Branch : \E c \in DOMAIN InitialCommits : InitialCommits[c].branch = b
    /\ MaxCommits \in Nat /\ MaxRuns \in Nat /\ MaxFaults \in Nat /\ MaxDisturbances \in Nat
    /\ NoPath \notin Path /\ NoBranch \notin Branch /\ NoWorker \notin Worker

VARIABLES
    commits,      \* GitHub: every commit, with its branch and its manifest
    tracking,     \* refs/remotes/origin/<branch> in each checkout
    tree,         \* HEAD of each checkout
    built,        \* the commit whose pipeline last passed in each checkout
    lock,         \* who holds the flock of each checkout
    worker,       \* the run each worker is in
    recorded,     \* commits the store has recorded each checkout at
    begun,        \* pushed commits whose deploy has begun
    started,      \* runs begun so far
    faults,       \* commands that failed by themselves, so far
    disturbances  \* cancellations, kills and rollbacks, so far

checkouts == <<tracking, tree, built>>
counts    == <<started, faults, disturbances>>
vars      == <<commits, checkouts, lock, worker, recorded, begun, counts>>

-----------------------------------------------------------------------------
(* Commits, jobs and results.  Commit 0 is the empty SHA. *)

Commit == 1 .. MaxCommits

ManifestOf(c) == commits[c].manifest

Tip(b) == Max({c \in DOMAIN commits : commits[c].branch = b})

\* deploy.Options.  branch: Ref, where a push named one.  within: Path, where one
\* was given.  targets: RollbackSHAs.
Job == [kind : {"push", "manual", "setup", "rollback"}, branch : Branch \cup {NoBranch},
        sha : Commit \cup {0}, within : SUBSET Path, targets : [Path -> Commit \cup {0}]]

NoTargets == [p \in Path |-> 0]

PushJob(c) == [kind |-> "push", branch |-> commits[c].branch, sha |-> c,
               within |-> Path, targets |-> NoTargets]

\* No ref: every checkout deploys the branch it is on.
OperatorJob(kind, within) == [kind |-> kind, branch |-> NoBranch, sha |-> 0,
                              within |-> within, targets |-> NoTargets]

RollbackJob(targets) == [OperatorJob("rollback", Path) EXCEPT !.targets = targets]

Verdict == {"none", "success", "failed", "skipped", "rolled_back"}

Result == [status : Verdict, prev : Commit \cup {0}, new : Commit \cup {0}]

NoResult == [status |-> "none", prev |-> 0, new |-> 0]

NoRun == [at |-> "idle", job |-> OperatorJob("manual", Path), cancelled |-> FALSE,
          todo |-> {}, sick |-> {}, path |-> NoPath, base |-> 0, prev |-> 0, new |-> 0,
          verdict |-> "none", done |-> [p \in Path |-> NoResult], status |-> "none"]

\* Where a run is; at each of the last line's, it holds the lock of its path.
Unlocked == {"idle", "scan", "choose", "lock"}
Locked == {"prepared", "fetch", "reset", "clean", "head", "load", "pipeline",
           "undo", "undoClean", "undoLoad", "undoPipeline", "release"}

\* base is the commit the run found at its path when it took the lock.
Run == [at : Unlocked \cup Locked, job : Job, cancelled : BOOLEAN,
        todo : SUBSET Path, sick : SUBSET Path, path : Path \cup {NoPath},
        base : Commit \cup {0}, prev : Commit \cup {0}, new : Commit \cup {0},
        verdict : Verdict, done : [Path -> Result], status : Verdict]

Here(w) == worker[w].path
IsSetup(w) == worker[w].job.kind = "setup"
IsRollback(w) == worker[w].job.kind = "rollback"

Init ==
    /\ commits = InitialCommits
    /\ tree = [p \in Path |-> Tip(BranchOf[p])]
    /\ tracking = tree
    /\ built = tree
    /\ lock = [p \in Path |-> NoWorker]
    /\ worker = [w \in Worker |-> NoRun]
    /\ recorded = [p \in Path |-> {}]
    /\ begun = DOMAIN InitialCommits
    /\ started = 0 /\ faults = 0 /\ disturbances = 0

-----------------------------------------------------------------------------
(* Commands and what ends them. *)

\* Mutant of Interrupted: the rollback runs on the context of the deploy.
Interrupted_RollbackToo(w) == worker[w].cancelled

\* privexec starts nothing on a cancelled context, and kills what runs under one.
\* The rollback of a failed deploy runs on a context of its own.
Interrupted(w) ==
    /\ worker[w].cancelled
    /\ worker[w].at \in {"undo", "undoClean", "undoLoad", "undoPipeline"} => IsRollback(w)

\* A command of w ends badly: its context is over, or by itself.
CommandFails(w) ==
    \/ Interrupted(w) /\ UNCHANGED faults
    \/ faults < MaxFaults /\ faults' = faults + 1

Goto(w, at) == worker' = [worker EXCEPT ![w].at = at]

\* The run is through with its path.
Conclude(w, verdict) ==
    worker' = [worker EXCEPT ![w].at = "release", ![w].verdict = verdict]

At(w, at) == worker[w].at = at

-----------------------------------------------------------------------------
(* A run begins: targets, and the decisions taken without a lock. *)

Begin(w, job) ==
    /\ At(w, "idle")
    /\ started < MaxRuns
    /\ started' = started + 1
    /\ worker' = [worker EXCEPT ![w] = [NoRun EXCEPT !.at = "scan", !.job = job]]
    /\ UNCHANGED <<commits, checkouts, lock, recorded, faults>>

BeginPush(w, c) ==
    /\ c \in DOMAIN commits \ begun
    /\ begun' = begun \cup {c}
    /\ Begin(w, PushJob(c))
    /\ UNCHANGED disturbances

BeginByHand(w, kind, within) ==
    /\ Begin(w, OperatorJob(kind, within))
    /\ UNCHANGED <<begun, disturbances>>

\* Each checkout goes back to a commit the store has recorded it at; 0 is no entry.
BeginRollback(w, targets) ==
    /\ disturbances < MaxDisturbances
    /\ disturbances' = disturbances + 1
    /\ targets # NoTargets
    /\ \A p \in Path : targets[p] \in recorded[p] \cup {0}
    /\ Begin(w, RollbackJob(targets))
    /\ UNCHANGED begun

\* discover.Scan and Filter: a checkout without a manifest is not seen, one whose
\* manifest does not load is returned with Err.  None at all is an error.
Scan(w) ==
    LET found == {p \in worker[w].job.within : ManifestOf(tree[p]).file # "missing"}
        sick  == {p \in found : ManifestOf(tree[p]).file = "broken"}
    IN /\ At(w, "scan")
       /\ worker' = IF found = {} \/ worker[w].cancelled
                    THEN [worker EXCEPT ![w].at = "idle", ![w].status = "failed"]
                    ELSE [worker EXCEPT ![w].at = "choose", ![w].todo = found,
                                        ![w].sick = sick]
       /\ UNCHANGED <<commits, checkouts, lock, recorded, begun, counts>>

\* Mutant of NotThisOne: the branch of the push is not looked at.
NotThisOne_AnyBranch(w, p) == IsRollback(w) /\ worker[w].job.targets[p] = 0

\* The push was to another branch, or the rollback has no commit for p.
NotThisOne(w, p) ==
    \/ worker[w].job.branch \notin {NoBranch, BranchOf[p]}
    \/ IsRollback(w) /\ worker[w].job.targets[p] = 0

\* The next checkout of the loop in Run or Rollback.
Choose(w, p) ==
    /\ At(w, "choose")
    /\ p \in worker[w].todo
    /\ LET run == [worker[w] EXCEPT !.todo = @ \ {p}]
       IN worker' = [worker EXCEPT ![w] =
            IF p \in worker[w].sick
            THEN [run EXCEPT !.done[p] = [NoResult EXCEPT !.status = "failed"]]
            ELSE IF NotThisOne(w, p)
            THEN [run EXCEPT !.done[p] = [NoResult EXCEPT !.status = "skipped"]]
            ELSE [run EXCEPT !.at = "lock", !.path = p]]
    /\ UNCHANGED <<commits, checkouts, lock, recorded, begun, counts>>

\* Mutant of Summarize: a path that was rolled back does not fail the run.
Summarize_RolledBackPasses(statuses) ==
    IF "failed" \in statuses THEN "failed"
    ELSE IF "success" \in statuses THEN "success" ELSE "skipped"

Summarize(statuses) ==
    IF statuses \cap {"failed", "rolled_back"} # {} THEN "failed"
    ELSE IF "success" \in statuses THEN "success" ELSE "skipped"

\* Mutant of ShasOf: a path that was never touched is recorded with its empty SHAs.
ShasOf_WithEmpty(result) == {result.prev, result.new}

\* The commits a path row has to offer; an empty SHA is none.
ShasOf(result) == {result.prev, result.new} \ {0}

\* The run is over and its caller records every path.
End(w) ==
    LET done == worker[w].done
    IN /\ At(w, "choose")
       /\ worker[w].todo = {}
       /\ worker' = [worker EXCEPT ![w].at = "idle",
                       ![w].status = Summarize({done[p].status : p \in Path})]
       /\ recorded' = [p \in Path |-> recorded[p] \cup ShasOf(done[p])]
       /\ UNCHANGED <<commits, checkouts, lock, begun, counts>>

-----------------------------------------------------------------------------
(* Lock. *)

Free(p) == lock[p] = NoWorker

Acquire(w) ==
    /\ At(w, "lock")
    /\ Free(Here(w))
    /\ lock' = [lock EXCEPT ![Here(w)] = w]
    /\ worker' = [worker EXCEPT ![w].at = "prepared", ![w].base = tree[Here(w)],
                                ![w].prev = 0, ![w].new = 0, ![w].verdict = "none"]
    /\ UNCHANGED <<commits, checkouts, recorded, begun, counts>>

\* Mutant of GiveUp: the wait is a blocking flock, which no cancellation reaches.
GiveUp_Never(w) == FALSE /\ UNCHANGED vars

\* The context is over while somebody else still holds the lock, or the lock file
\* cannot be used.
GiveUp(w) ==
    /\ At(w, "lock")
    /\ \/ ~ Free(Here(w)) /\ worker[w].cancelled /\ UNCHANGED faults
       \/ faults < MaxFaults /\ faults' = faults + 1
    /\ worker' = [worker EXCEPT ![w].at = "choose", ![w].path = NoPath,
                    ![w].done[Here(w)] = [NoResult EXCEPT !.status = "failed"]]
    /\ UNCHANGED <<commits, checkouts, lock, recorded, begun, started, disturbances>>

\* Mutant of Release: one way out of deployPath forgets the cleanup.
Release_Kept(w) ==
    /\ At(w, "release")
    /\ worker' = [worker EXCEPT
         ![w].at = "choose", ![w].path = NoPath,
         ![w].done[Here(w)] = [status |-> worker[w].verdict, prev |-> worker[w].prev,
                               new |-> worker[w].new]]
    /\ UNCHANGED <<commits, checkouts, lock, recorded, begun, counts>>

\* deployPath or rollbackPath returns; its deferred cleanup unlocks.
Release(w) ==
    /\ At(w, "release")
    /\ lock' = [lock EXCEPT ![Here(w)] = NoWorker]
    /\ worker' = [worker EXCEPT
         ![w].at = "choose", ![w].path = NoPath,
         ![w].done[Here(w)] = [status |-> worker[w].verdict, prev |-> worker[w].prev,
                               new |-> worker[w].new]]
    /\ UNCHANGED <<commits, checkouts, recorded, begun, counts>>

-----------------------------------------------------------------------------
(* deployPath and rollbackPath, under the lock. *)

\* A command that moves nothing ends badly: prepare, rev-parse, clean.
StepFails(w) ==
    /\ worker[w].at \in {"prepared", "clean", "head", "undoClean"}
    /\ CommandFails(w)
    /\ Conclude(w, "failed")
    /\ UNCHANGED <<commits, checkouts, lock, recorded, begun, started, disturbances>>

\* A setup run on a checkout whose manifest loads and has no setup block.
NoSetupBlock(w) ==
    LET m == ManifestOf(tree[Here(w)])
    IN IsSetup(w) /\ m.file = "ok" /\ ~ m.setup

Refuse(w) ==
    /\ At(w, "prepared")
    /\ NoSetupBlock(w)
    /\ Conclude(w, "failed")
    /\ UNCHANGED <<commits, checkouts, lock, recorded, begun, counts>>

\* Where a run that has read HEAD goes next.  A rollback that has nothing to undo
\* stops here.
Prepared(w, prev) ==
    LET target == worker[w].job.targets[Here(w)]
    IN worker' = [worker EXCEPT ![w] =
         IF ~ IsRollback(w) THEN [@ EXCEPT !.prev = prev, !.at = "fetch"]
         ELSE IF target = prev
         THEN [@ EXCEPT !.prev = prev, !.at = "release", !.verdict = "skipped"]
         ELSE [@ EXCEPT !.prev = prev, !.at = "undo"]]

\* Mutant of ReadPrevious: the rollback point is the remote's commit.
ReadPrevious_Remote(w) ==
    /\ At(w, "prepared")
    /\ ~ NoSetupBlock(w)
    /\ ~ Interrupted(w)
    /\ Prepared(w, tracking[Here(w)])
    /\ UNCHANGED <<commits, checkouts, lock, recorded, begun, counts>>

\* headSHA, before anything moves: the rollback point.
ReadPrevious(w) ==
    /\ At(w, "prepared")
    /\ ~ NoSetupBlock(w)
    /\ ~ Interrupted(w)
    /\ Prepared(w, tree[Here(w)])
    /\ UNCHANGED <<commits, checkouts, lock, recorded, begun, counts>>

FetchesTip(w) == tracking' = [tracking EXCEPT ![Here(w)] = Tip(BranchOf[Here(w)])]

\* git fetch --all --prune.
Fetch(w) ==
    /\ At(w, "fetch")
    /\ ~ Interrupted(w)
    /\ FetchesTip(w)
    /\ Goto(w, "reset")
    /\ UNCHANGED <<commits, tree, built, lock, recorded, begun, counts>>

\* The fetch is cut short, or another remote fails, with origin's ref moved or not.
FetchFails(w) ==
    /\ At(w, "fetch")
    /\ CommandFails(w)
    /\ FetchesTip(w) \/ UNCHANGED tracking
    /\ Conclude(w, "failed")
    /\ UNCHANGED <<commits, tree, built, lock, recorded, begun, started, disturbances>>

\* Mutant of Upstream: the commit of the push, not the head of its branch.
Upstream_Pushed(w) ==
    IF worker[w].job.sha # 0 THEN worker[w].job.sha ELSE tracking[Here(w)]

Upstream(w) == tracking[Here(w)]

\* git reset --hard origin/<branch>.
Reset(w) ==
    /\ At(w, "reset")
    /\ ~ Interrupted(w)
    /\ tree' = [tree EXCEPT ![Here(w)] = Upstream(w)]
    /\ Goto(w, "clean")
    /\ UNCHANGED <<commits, tracking, built, lock, recorded, begun, counts>>

\* The reset is cut short, with HEAD moved or not.
ResetFails(w) ==
    /\ At(w, "reset")
    /\ CommandFails(w)
    /\ \E c \in {tree[Here(w)], Upstream(w)} : tree' = [tree EXCEPT ![Here(w)] = c]
    /\ Conclude(w, "failed")
    /\ UNCHANGED <<commits, tracking, built, lock, recorded, begun, started, disturbances>>

\* git clean -fd.
Clean(w) ==
    /\ At(w, "clean")
    /\ ~ Interrupted(w)
    /\ Goto(w, "head")
    /\ UNCHANGED <<commits, checkouts, lock, recorded, begun, counts>>

\* headSHA again: NewSHA.
ReadNew(w) ==
    /\ At(w, "head")
    /\ ~ Interrupted(w)
    /\ worker' = [worker EXCEPT ![w].at = "load", ![w].new = tree[Here(w)]]
    /\ UNCHANGED <<commits, checkouts, lock, recorded, begun, counts>>

\* manifest.Load on the pulled tree: missing or invalid is a failure.
Load(w) ==
    /\ At(w, "load")
    /\ IF ManifestOf(tree[Here(w)]).file = "ok"
       THEN Goto(w, "pipeline")
       ELSE Conclude(w, "failed")
    /\ UNCHANGED <<commits, checkouts, lock, recorded, begun, counts>>

\* The pipeline of the manifest on disk can run to its end, or be stopped.
PipelineCanPass(w) == Interrupted(w) => ManifestOf(tree[Here(w)]).lenient

PipelineFails(w) ==
    /\ ~ ManifestOf(tree[Here(w)]).lenient
    /\ CommandFails(w)

\* Setup was asked for and is not in the code that arrived: post_deploy ran, and
\* the path fails.
SetupIsMissing(w) == IsSetup(w) /\ ~ ManifestOf(tree[Here(w)]).setup

Pipeline(w) ==
    /\ At(w, "pipeline")
    /\ PipelineCanPass(w)
    /\ built' = [built EXCEPT ![Here(w)] = tree[Here(w)]]
    /\ Conclude(w, IF SetupIsMissing(w) THEN "failed" ELSE "success")
    /\ UNCHANGED <<commits, tracking, tree, lock, recorded, begun, counts>>

\* The pipeline stops: put the tree back where the manifest says so and the run is
\* no setup run, leave it otherwise.
PipelineStops(w) ==
    /\ At(w, "pipeline")
    /\ PipelineFails(w)
    /\ IF IsSetup(w) \/ ~ ManifestOf(tree[Here(w)]).rollback
       THEN Conclude(w, "failed")
       ELSE Goto(w, "undo")
    /\ UNCHANGED <<commits, checkouts, lock, recorded, begun, started, disturbances>>

-----------------------------------------------------------------------------
(* rollbackTo: of a failed deploy to its rollback point, of a rollback to its *)
(* target.                                                                   *)

Target(w) == IF IsRollback(w) THEN worker[w].job.targets[Here(w)] ELSE worker[w].prev

Undo(w) ==
    /\ At(w, "undo")
    /\ ~ Interrupted(w)
    /\ tree' = [tree EXCEPT ![Here(w)] = Target(w)]
    /\ Goto(w, "undoClean")
    /\ UNCHANGED <<commits, tracking, built, lock, recorded, begun, counts>>

UndoFails(w) ==
    /\ At(w, "undo")
    /\ CommandFails(w)
    /\ \E c \in {tree[Here(w)], Target(w)} : tree' = [tree EXCEPT ![Here(w)] = c]
    /\ Conclude(w, "failed")
    /\ UNCHANGED <<commits, tracking, built, lock, recorded, begun, started, disturbances>>

UndoClean(w) ==
    /\ At(w, "undoClean")
    /\ ~ Interrupted(w)
    /\ worker' = [worker EXCEPT ![w].at = "undoLoad", ![w].new = Target(w)]
    /\ UNCHANGED <<commits, checkouts, lock, recorded, begun, counts>>

UndoLoad(w) ==
    /\ At(w, "undoLoad")
    /\ IF ManifestOf(tree[Here(w)]).file = "ok"
       THEN Goto(w, "undoPipeline")
       ELSE Conclude(w, "failed")
    /\ UNCHANGED <<commits, checkouts, lock, recorded, begun, counts>>

\* Mutant of UndoPipeline: the restored tree is reported without its pipeline.
UndoPipeline_Skipped(w) ==
    /\ At(w, "undoPipeline")
    /\ Conclude(w, IF IsRollback(w) THEN "success" ELSE "rolled_back")
    /\ UNCHANGED <<commits, checkouts, lock, recorded, begun, counts>>

UndoPipeline(w) ==
    /\ At(w, "undoPipeline")
    /\ PipelineCanPass(w)
    /\ built' = [built EXCEPT ![Here(w)] = tree[Here(w)]]
    /\ Conclude(w, IF IsRollback(w) THEN "success" ELSE "rolled_back")
    /\ UNCHANGED <<commits, tracking, tree, lock, recorded, begun, counts>>

UndoPipelineStops(w) ==
    /\ At(w, "undoPipeline")
    /\ PipelineFails(w)
    /\ Conclude(w, "failed")
    /\ UNCHANGED <<commits, checkouts, lock, recorded, begun, started, disturbances>>

-----------------------------------------------------------------------------
(* What comes from outside. *)

\* A commit reaches GitHub.
Push(b, m) ==
    /\ Len(commits) < MaxCommits
    /\ commits' = Append(commits, [branch |-> b, manifest |-> m])
    /\ UNCHANGED <<checkouts, lock, worker, recorded, begun, counts>>

\* Ctrl+C, the deploy timeout, or a drain past its budget.
Cancel(w) ==
    /\ ~ At(w, "idle")
    /\ ~ worker[w].cancelled
    /\ disturbances < MaxDisturbances
    /\ disturbances' = disturbances + 1
    /\ worker' = [worker EXCEPT ![w].cancelled = TRUE]
    /\ UNCHANGED <<commits, checkouts, lock, recorded, begun, started, faults>>

\* The process of w is killed.  The kernel drops its lock, nothing is recorded, and
\* the command that was running has done its work or not.
Kill(w) ==
    /\ ~ At(w, "idle")
    /\ disturbances < MaxDisturbances
    /\ disturbances' = disturbances + 1
    /\ \/ UNCHANGED <<tracking, tree>>
       \/ At(w, "fetch") /\ FetchesTip(w) /\ UNCHANGED tree
       \/ At(w, "reset") /\ tree' = [tree EXCEPT ![Here(w)] = Upstream(w)] /\ UNCHANGED tracking
       \/ At(w, "undo") /\ tree' = [tree EXCEPT ![Here(w)] = Target(w)] /\ UNCHANGED tracking
    /\ lock' = [p \in Path |-> IF lock[p] = w THEN NoWorker ELSE lock[p]]
    /\ worker' = [worker EXCEPT ![w] = NoRun]
    /\ UNCHANGED <<commits, built, recorded, begun, started, faults>>

-----------------------------------------------------------------------------

Engine(w) ==
    \/ Scan(w) \/ End(w) \/ Acquire(w) \/ GiveUp(w) \/ Release(w)
    \/ \E p \in Path : Choose(w, p)
    \/ StepFails(w) \/ Refuse(w) \/ ReadPrevious(w)
    \/ Fetch(w) \/ FetchFails(w) \/ Reset(w) \/ ResetFails(w)
    \/ Clean(w) \/ ReadNew(w) \/ Load(w)
    \/ Pipeline(w) \/ PipelineStops(w)
    \/ Undo(w) \/ UndoFails(w) \/ UndoClean(w) \/ UndoLoad(w)
    \/ UndoPipeline(w) \/ UndoPipelineStops(w)

Scope == {Path} \cup {{p} : p \in Path}

Arrival(w) ==
    \/ \E c \in Commit : BeginPush(w, c)
    \/ \E kind \in {"manual", "setup"}, within \in Scope : BeginByHand(w, kind, within)
    \/ \E targets \in [Path -> Commit \cup {0}] : BeginRollback(w, targets)

Next ==
    \/ \E w \in Worker : Engine(w) \/ Arrival(w) \/ Cancel(w) \/ Kill(w)
    \/ \E b \in Branch, m \in Manifests : Push(b, m)

Spec == Init /\ [][Next]_vars

-----------------------------------------------------------------------------
(* Properties. *)

TypeOK ==
    /\ Len(commits) <= MaxCommits
    /\ \A c \in DOMAIN commits : commits[c] \in [branch : Branch, manifest : Manifest]
    /\ {tree, tracking, built} \subseteq [Path -> DOMAIN commits]
    /\ lock \in [Path -> Worker \cup {NoWorker}]
    /\ worker \in [Worker -> Run]
    /\ recorded \in [Path -> SUBSET Commit]
    /\ begun \subseteq DOMAIN commits
    /\ started \in 0 .. MaxRuns
    /\ faults \in 0 .. MaxFaults
    /\ disturbances \in 0 .. MaxDisturbances

\* A verdict is true of the tree as the lock is given back: success and rolled_back
\* mean that HEAD is the commit reported and that this commit's own pipeline is the
\* last that passed there, whatever other runs were doing.
VerdictIsTrue ==
    \A w \in Worker :
        At(w, "release") /\ worker[w].verdict \in {"success", "rolled_back"} =>
            /\ tree[Here(w)] = worker[w].new
            /\ built[Here(w)] = worker[w].new
            /\ worker[w].verdict = "rolled_back" => tree[Here(w)] = worker[w].base

\* A run that gives the lock back on another commit than it found reports the commit
\* it found, even when it failed half-way: there is always a rollback point.
MoveIsReported ==
    \A w \in Worker :
        At(w, "release") /\ tree[Here(w)] # worker[w].base =>
            worker[w].prev = worker[w].base

\* A tree is moved by the run that holds its lock, to the tip its checkout has
\* fetched, to the rollback point, or to the commit the rollback named for it; a push
\* moves no checkout of another branch.
MovesInScope ==
    [][\A p \in Path : tree'[p] # tree[p] =>
         \E w \in Worker :
            /\ lock[p] = w
            /\ p \in worker[w].job.within
            /\ worker[w].job.branch \in {NoBranch, BranchOf[p]}
            /\ tree'[p] \in {tracking[p], worker[w].base, worker[w].job.targets[p]}]_vars

\* rollback_on_failure holds for an interrupted pipeline as for a failing one: unless a
\* command fails by itself, a deploy that has got to its pipeline (new is read) passes it or
\* ends on the commit it began from, cancelled there or not.  It says nothing of a deploy
\* cancelled earlier: one that is cut short at git clean or at the second headSHA, behind
\* the reset, ends as failed on the new commit without a rollback (deploy.go:319-327).
InterruptedIsUndone ==
    \A w \in Worker :
        At(w, "release") /\ worker[w].job.kind \in {"push", "manual"}
        /\ worker[w].new # 0 /\ ManifestOf(worker[w].base).file = "ok"
        /\ ManifestOf(worker[w].new).file = "ok" /\ ManifestOf(worker[w].new).rollback =>
            worker[w].verdict \in {"success", "rolled_back"} \/ faults > 0

\* A run that reports success for a push has left every checkout of that branch it
\* found on the pushed commit or a later one.
PushIsDelivered ==
    [][\A w \in Worker :
         End(w) /\ worker'[w].status = "success" /\ worker[w].job.kind = "push" =>
            \A p \in Path :
                worker[w].done[p].status # "none" /\ BranchOf[p] = worker[w].job.branch =>
                    /\ worker[w].done[p].status = "success"
                    /\ worker[w].done[p].new >= worker[w].job.sha]_vars

\* Deploys of pushes that overtake one another still converge: when every push has
\* been deployed and nothing failed, was cancelled, killed or rolled back, every
\* checkout is on the tip of its branch, built.
Converges ==
    LET settled == /\ \A w \in Worker : At(w, "idle")
                   /\ begun = DOMAIN commits
                   /\ faults = 0 /\ disturbances = 0
                   /\ \A c \in DOMAIN commits : ManifestOf(c).file = "ok"
    IN settled => \A p \in Path : tree[p] = Tip(BranchOf[p]) /\ built[p] = tree[p]

\* Every command ends, by itself or by its timeout, and a run goes on as long as it can.
EngineFairness == \A w \in Worker : WF_vars(Engine(w))

\* Every run comes to an end, however runs contend for the locks: nobody keeps one,
\* and nobody waits for one for ever.
RunsEnd == EngineFairness => \A w \in Worker : ~ At(w, "idle") ~> At(w, "idle")

\* Ctrl+C always ends the wait for a lock, even if the run that holds it never goes
\* on: only the waiter itself is assumed to be scheduled.
CancelEndsTheWait ==
    (\A w \in Worker : WF_vars(Acquire(w) \/ GiveUp(w))) =>
        \A w \in Worker : (At(w, "lock") /\ worker[w].cancelled) ~> ~ At(w, "lock")

=============================================================================
