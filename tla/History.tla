------------------------------ MODULE History ------------------------------
(***************************************************************************)
(* What the deploys of one repository leave in the store, and what `repo   *)
(* rollback` makes of it: the tables deploys and deploy_paths, recordResult *)
(* (cmd/serve.go), runDeploy, runRollback and rollbackTargets              *)
(* (cmd/deploy.go).                                                        *)
(*                                                                         *)
(* The engine is coarse here (Checkout has it in detail): a visit of a     *)
(* path under its lock is one step, from which come a tree and a row.  The *)
(* row is written only after all visits of the run.                        *)
(*                                                                         *)
(* A failing command, an interrupted run and a failing write are faults; a *)
(* failing pipeline is not.                                                *)
(***************************************************************************)
EXTENDS Naturals, Sequences, FiniteSets, FiniteSetsExt

CONSTANTS
    Path,           \* the checkouts, numbered in the order discovery finds them
    Branch,         \* the branches, numbered
    BranchOf,       \* the branch a checkout is on
    Selections,     \* values --path may have, None among them
    Worker,         \* goroutines of the daemon and commands of operators
    MaxCommits,     \* bound on commits
    MaxDeploys,     \* bound on rows of deploys
    MaxTrouble      \* bound on faults and kills

ASSUME HistoryAssumption ==
    /\ Path \subseteq Nat \ {0} /\ Path # {}
    /\ MaxCommits \in Nat /\ Branch \subseteq 1 .. MaxCommits
    /\ BranchOf \in [Path -> Branch]
    /\ Selections \subseteq Path \cup {0}
    /\ MaxDeploys \in Nat /\ MaxTrouble \in Nat

Commit == 1 .. MaxCommits

None == 0           \* the empty SHA; no ref; no --path

VARIABLES
    tip,            \* GitHub: the head of each branch
    pushed,         \* commits so far
    broken,         \* those whose manifest does not load
    head,           \* HEAD of each checkout
    deploys,        \* the table deploys, in the order of id
    rows,           \* the table deploy_paths, in the order of id
    daemon,         \* the daemon runs
    run,            \* what each worker is doing
    faults, kills,
    was,            \* history: the commits each checkout has been on
    last,           \* history: how the newest row came about
    overlapped      \* history: two runs were under way at once

vars == <<tip, pushed, broken, head, deploys, rows, daemon, run, faults, kills,
          was, last, overlapped>>

github == <<tip, pushed, broken>>
tables == <<deploys, rows>>
trees  == <<head, was>>
counts == <<faults, kills>>

Kind == {"push", "deploy", "rollback"}
Step == {"idle", "list", "rows", "prior", "start", "scan", "visit", "record"}

\* id: the deploy it reads, then its own.  left: that deploy was left running or
\* interrupted.  promise, before: history, what a rollback that nobody overtakes has
\* to bring back.
NoRun == [at |-> "idle", kind |-> "push", id |-> 0, ref |-> None, only |-> None,
          left |-> FALSE, targets |-> [p \in Path |-> None],
          todo |-> {}, errs |-> {}, results |-> <<>>, failed |-> {},
          promise |-> "none", before |-> [p \in Path |-> None]]

Init ==
    /\ tip = [b \in Branch |-> b] /\ pushed = Max(Branch) /\ broken = {}
    /\ head = [p \in Path |-> BranchOf[p]]
    /\ deploys = <<>> /\ rows = <<>> /\ daemon = TRUE
    /\ run = [w \in Worker |-> NoRun]
    /\ faults = 0 /\ kills = 0
    /\ was = [p \in Path |-> {BranchOf[p]}]
    /\ last = [fate |-> "murky", before |-> head]
    /\ overlapped = FALSE

At(w, at) == run[w].at = at

IsRollback(w) == run[w].kind = "rollback"

\* It has a row, and may move trees.
Busy(w) == run[w].at \in {"scan", "visit", "record"}

Scope(w) == IF run[w].only = None THEN Path ELSE {run[w].only}

Fault == faults + kills < MaxTrouble /\ faults' = faults + 1 /\ UNCHANGED kills

Newest(w) == run[w].id = Len(deploys)

Murky(w) == last' = IF Newest(w) THEN [last EXCEPT !.fate = "murky"] ELSE last

-----------------------------------------------------------------------------
(* A run begins. *)

\* DeployStart: w gets a row; whoever is choosing targets has been overtaken.
DeployStart(w, by, job) ==
    /\ Len(deploys) < MaxDeploys
    /\ deploys' = Append(deploys, [by |-> by, status |-> "running"])
    /\ run' = [v \in Worker |->
                 IF v = w THEN [job EXCEPT !.at = "scan", !.id = Len(deploys) + 1]
                 ELSE [run[v] EXCEPT !.promise = "none"]]
    /\ LET alone == \A v \in Worker \ {w} : ~ Busy(v)
       IN /\ overlapped' = (overlapped \/ ~ alone)
          /\ last' = [fate |-> IF alone THEN "clean" ELSE "murky", before |-> head]
    /\ UNCHANGED <<github, trees, rows, daemon, counts>>

\* hook has accepted a push to branch b.
BeginPush(w, b) ==
    /\ At(w, "idle")
    /\ daemon
    /\ DeployStart(w, "push", [NoRun EXCEPT !.ref = b])

\* runDeploy, all checkouts or --path.
BeginDeploy(w, only) ==
    /\ At(w, "idle")
    /\ DeployStart(w, "hand", [NoRun EXCEPT !.kind = "deploy", !.only = only])

\* What the store can promise a rollback that begins now, if nobody comes in between.
Promise ==
    IF \E v \in Worker : Busy(v) THEN "none"
    ELSE CASE last.fate = "clean" -> "recorded"
           [] last.fate = "killed" /\ faults = 0 /\ kills = 1 /\ ~ overlapped -> "killed"
           [] OTHER -> "none"

BeginRollback(w, only) ==
    /\ At(w, "idle")
    /\ run' = [run EXCEPT ![w] =
         [NoRun EXCEPT !.at = "list", !.kind = "rollback", !.only = only,
                       !.promise = Promise, !.before = last.before]]
    /\ UNCHANGED <<github, trees, tables, daemon, counts, last, overlapped>>

-----------------------------------------------------------------------------
(* rollbackTargets: three statements, nothing held between them. *)

\* The rollback goes on at `at` with these targets, or has nothing to undo and ends.
Resolve(w, targets) ==
    LET wanted == [p \in Path |-> IF p \in Scope(w) THEN targets[p] ELSE None]
    IN run' = [run EXCEPT ![w] =
         IF \A p \in Path : wanted[p] = None THEN NoRun
         ELSE [@ EXCEPT !.at = "start", !.targets = wanted]]

\* Mutant of NeverDeployed: the empty list is not asked about.
NeverDeployed_Unasked == FALSE
NeverDeployed == deploys = <<>>

\* Deploys, limit 1.
List(w) ==
    /\ At(w, "list")
    /\ run' = [run EXCEPT ![w] =
         IF NeverDeployed THEN NoRun
         ELSE [@ EXCEPT !.at = "rows", !.id = Len(deploys),
                        !.left = deploys # <<>>
                          /\ deploys[Len(deploys)].status \in {"running", "interrupted"}]]
    /\ UNCHANGED <<github, trees, tables, daemon, counts, last, overlapped>>

RowsOf(id) == {i \in DOMAIN rows : rows[i].deploy = id}

\* Mutant of FoundBy: only rows that reached a new commit count.
FoundBy_Moved(id) ==
    [p \in Path |-> IF \E i \in RowsOf(id) : rows[i].path = p /\ rows[i].new # None
                    THEN rows[CHOOSE i \in RowsOf(id) : rows[i].path = p].prev
                    ELSE None]

\* The commit that a deploy found at p, None if it has no row of p or did not look.
FoundBy(id) ==
    [p \in Path |-> IF \E i \in RowsOf(id) : rows[i].path = p
                    THEN rows[CHOOSE i \in RowsOf(id) : rows[i].path = p].prev
                    ELSE None]

\* DeployPaths.
Rows(w) ==
    /\ At(w, "rows")
    /\ IF RowsOf(run[w].id) # {} THEN Resolve(w, FoundBy(run[w].id))
       ELSE run' = [run EXCEPT ![w] = IF @.left THEN [@ EXCEPT !.at = "prior"] ELSE NoRun]
    /\ UNCHANGED <<github, trees, tables, daemon, counts, last, overlapped>>

\* Mutant of LastSeen: where the last deploy found the tree, not where it left it.
LastSeen_Found ==
    [p \in Path |->
       LET known == {i \in DOMAIN rows : rows[i].path = p /\ rows[i].new # None}
       IN IF known = {} THEN None ELSE rows[Max(known)].prev]

\* Mutant of LastSeen: the newest row of the repository stands for every path.
LastSeen_AnyPath ==
    [p \in Path |->
       LET known == {i \in DOMAIN rows : rows[i].new # None}
       IN IF known = {} THEN None ELSE rows[Max(known)].new]

\* LastDeployPerPathIn: the newest row of each path with a new_sha.
LastSeen ==
    [p \in Path |->
       LET known == {i \in DOMAIN rows : rows[i].path = p /\ rows[i].new # None}
       IN IF known = {} THEN None ELSE rows[Max(known)].new]

Prior(w) ==
    /\ At(w, "prior")
    /\ Resolve(w, LastSeen)
    /\ UNCHANGED <<github, trees, tables, daemon, counts, last, overlapped>>

\* The operator confirms, after any time, or declines.
StartRollback(w) ==
    /\ At(w, "start")
    /\ DeployStart(w, "hand", run[w])

Decline(w) ==
    /\ At(w, "start")
    /\ run' = [run EXCEPT ![w] = NoRun]
    /\ UNCHANGED <<github, trees, tables, daemon, counts, last, overlapped>>

-----------------------------------------------------------------------------
(* The engine. *)

\* targets: the scan reads the manifests on disk.
Scan(w) ==
    /\ At(w, "scan")
    /\ run' = [run EXCEPT ![w].at = "visit", ![w].todo = Scope(w),
                          ![w].errs = {p \in Scope(w) : head[p] \in broken}]
    /\ UNCHANGED <<github, trees, tables, daemon, counts, last, overlapped>>

\* The scan fails or finds nothing: the run failed, and has no path to record.
ScanFails(w) ==
    /\ At(w, "scan")
    /\ Fault
    /\ run' = [run EXCEPT ![w].at = "record", ![w].promise = "none"]
    /\ Murky(w)
    /\ UNCHANGED <<github, trees, tables, daemon, overlapped>>

Here(w) == Min(run[w].todo)

\* The run has any business at p.
Touches(w, p) ==
    /\ p \notin run[w].errs
    /\ IF IsRollback(w) THEN run[w].targets[p] # None
       ELSE run[w].ref \in {None, BranchOf[p]}

\* The commit it would bring p to.
Aim(w, p) == IF IsRollback(w) THEN run[w].targets[p] ELSE tip[BranchOf[p]]

\* The visit is over: the tree is on `sha` and has been on those of `via`.
Visited(w, sha, via, prev, new, failed) ==
    LET p == Here(w)
        result == [deploy |-> run[w].id, path |-> p, prev |-> prev, new |-> new]
        onward == [run[w] EXCEPT
            !.todo = @ \ {p}, !.at = IF run[w].todo = {p} THEN "record" ELSE "visit",
            !.results = Append(@, result), !.failed = IF failed THEN @ \cup {p} ELSE @]
    IN /\ At(w, "visit")
       /\ head' = [head EXCEPT ![p] = sha]
       /\ was' = [was EXCEPT ![p] = @ \cup {sha} \cup via]
       /\ run' = [run EXCEPT ![w] = onward]
       /\ UNCHANGED <<github, tables, daemon, last, overlapped>>

\* A manifest that does not load fails the path; another branch, no target or a tree that
\* is where it should go back to is skipped.
LeaveAlone(w) ==
    /\ At(w, "visit")
    /\ LET p == Here(w)
       IN \/ ~ Touches(w, p) /\ Visited(w, head[p], {}, None, None, p \in run[w].errs)
          \/ /\ Touches(w, p) /\ IsRollback(w) /\ Aim(w, p) = head[p]
             /\ Visited(w, head[p], {}, head[p], None, FALSE)
    /\ UNCHANGED counts

\* prepare or headSHA fails.
FailsEarly(w) ==
    /\ At(w, "visit")
    /\ Touches(w, Here(w))
    /\ \E prev \in {None, head[Here(w)]} : Visited(w, head[Here(w)], {}, prev, None, TRUE)
    /\ Fault

\* sync or resetTo fails, at its first command or later.
MoveFails(w) ==
    /\ At(w, "visit")
    /\ LET p == Here(w)
       IN /\ Touches(w, p)
          /\ \E sha \in {head[p], Aim(w, p)} : Visited(w, sha, {}, head[p], None, TRUE)
    /\ Fault

\* The tree has moved, or was there; then manifest and pipeline decide.
Moves(w) ==
    /\ At(w, "visit")
    /\ LET p == Here(w)
       IN /\ Touches(w, p)
          /\ IsRollback(w) => Aim(w, p) # head[p]
          /\ \E failed \in BOOLEAN :
               /\ Aim(w, p) \in broken => failed
               /\ Visited(w, Aim(w, p), {}, head[p], Aim(w, p), failed)
    /\ UNCHANGED counts

UndoneAt(w, p) == head[p]

\* The pipeline fails and rollback_on_failure puts the tree back, with or without success.
Undone(w) ==
    /\ At(w, "visit")
    /\ LET p == Here(w)
       IN /\ Touches(w, p) /\ ~ IsRollback(w) /\ Aim(w, p) \notin broken
          /\ Visited(w, head[p], {Aim(w, p)}, head[p], UndoneAt(w, p), TRUE)
    /\ UNCHANGED counts

\* Its reset fails.
UndoFails(w) ==
    /\ At(w, "visit")
    /\ LET p == Here(w)
       IN /\ Touches(w, p) /\ ~ IsRollback(w) /\ Aim(w, p) \notin broken
          /\ \E sha \in {head[p], Aim(w, p)} :
               Visited(w, sha, {Aim(w, p)}, head[p], Aim(w, p), TRUE)
    /\ Fault

-----------------------------------------------------------------------------
(* recordResult. *)

Recorded(w) == At(w, "record") /\ run[w].results = <<>>

DeployPathInsert(w) ==
    /\ At(w, "record") /\ ~ Recorded(w)
    /\ rows' = Append(rows, Head(run[w].results))
    /\ run' = [run EXCEPT ![w].results = Tail(@)]
    /\ UNCHANGED <<github, trees, deploys, daemon, counts, last, overlapped>>

\* Logged, and the path has no row.
InsertFails(w) ==
    /\ At(w, "record") /\ ~ Recorded(w)
    /\ Fault
    /\ run' = [run EXCEPT ![w].results = Tail(@)]
    /\ Murky(w)
    /\ UNCHANGED <<github, trees, tables, daemon, overlapped>>

DeployFinish(w) ==
    /\ Recorded(w)
    /\ deploys' = [deploys EXCEPT ![run[w].id].status = "done"]
    /\ run' = [run EXCEPT ![w] = NoRun]
    /\ UNCHANGED <<github, trees, rows, daemon, counts, last, overlapped>>

FinishFails(w) ==
    /\ Recorded(w)
    /\ Fault
    /\ run' = [run EXCEPT ![w] = NoRun]
    /\ UNCHANGED <<github, trees, tables, daemon, last, overlapped>>

-----------------------------------------------------------------------------
(* Processes and GitHub. *)

\* Where the trees may be when these runs die under way.
LeftBy(ws, p) ==
    {head[p]} \cup {Aim(w, p) : w \in {v \in ws : At(v, "visit") /\ Here(v) = p /\ Touches(v, p)}}

Die(ws) ==
    /\ faults + kills < MaxTrouble
    /\ kills' = kills + 1
    /\ \E h \in [Path -> Commit] :
         /\ \A p \in Path : h[p] \in LeftBy(ws, p)
         /\ head' = h
    /\ was' = [p \in Path |-> was[p] \cup {head'[p]}]
    /\ run' = [w \in Worker |-> IF w \in ws THEN NoRun ELSE run[w]]
    /\ last' = IF last.fate = "clean" /\ \E w \in ws : Newest(w)
               THEN [last EXCEPT !.fate = "killed"] ELSE last
    /\ UNCHANGED <<github, tables, faults, overlapped>>

KillCommand(w) ==
    /\ Busy(w) /\ run[w].kind # "push"
    /\ Die({w})
    /\ UNCHANGED daemon

KillDaemon ==
    /\ daemon
    /\ Die({w \in Worker : Busy(w) /\ run[w].kind = "push"})
    /\ daemon' = FALSE

\* serve starts: ReconcileInterrupted.
StartDaemon ==
    /\ ~ daemon
    /\ daemon' = TRUE
    /\ deploys' = [i \in DOMAIN deploys |->
                     IF deploys[i] = [by |-> "push", status |-> "running"]
                     THEN [deploys[i] EXCEPT !.status = "interrupted"] ELSE deploys[i]]
    /\ UNCHANGED <<github, trees, rows, run, counts, last, overlapped>>

Push(b) ==
    /\ pushed < MaxCommits
    /\ pushed' = pushed + 1
    /\ tip' = [tip EXCEPT ![b] = pushed + 1]
    /\ broken' \in {broken, broken \cup {pushed + 1}}
    /\ UNCHANGED <<trees, tables, daemon, run, counts, last, overlapped>>

-----------------------------------------------------------------------------

Engine(w) ==
    \/ Scan(w) \/ ScanFails(w) \/ LeaveAlone(w) \/ FailsEarly(w) \/ MoveFails(w)
    \/ Moves(w) \/ Undone(w) \/ UndoFails(w)

Recording(w) == DeployPathInsert(w) \/ InsertFails(w) \/ DeployFinish(w) \/ FinishFails(w)

Choosing(w) == List(w) \/ Rows(w) \/ Prior(w) \/ StartRollback(w) \/ Decline(w)

Next ==
    \/ \E w \in Worker :
         \/ Choosing(w) \/ Engine(w) \/ Recording(w) \/ KillCommand(w)
         \/ \E b \in Branch : BeginPush(w, b)
         \/ \E only \in Selections : BeginDeploy(w, only) \/ BeginRollback(w, only)
    \/ KillDaemon \/ StartDaemon
    \/ \E b \in Branch : Push(b)

Spec == Init /\ [][Next]_vars

-----------------------------------------------------------------------------
(* Properties. *)

Row == [deploy : 1 .. MaxDeploys, path : Path,
        prev : Commit \cup {None}, new : Commit \cup {None}]

Run == [at : Step, kind : Kind, id : 0 .. MaxDeploys, ref : Branch \cup {None},
        only : Path \cup {None}, left : BOOLEAN, targets : [Path -> Commit \cup {None}],
        todo : SUBSET Path, errs : SUBSET Path, results : Seq(Row), failed : SUBSET Path,
        promise : {"none", "recorded", "killed"},
        before : [Path -> Commit \cup {None}]]

TypeOK ==
    /\ tip \in [Branch -> Commit] /\ pushed \in Commit /\ broken \subseteq Commit
    /\ head \in [Path -> Commit] /\ was \in [Path -> SUBSET Commit]
    /\ deploys \in Seq([by : {"push", "hand"}, status : {"running", "interrupted", "done"}])
    /\ Len(deploys) <= MaxDeploys
    /\ rows \in Seq(Row)
    /\ daemon \in BOOLEAN
    /\ run \in [Worker -> Run]
    /\ \A w \in Worker : run[w].at \notin {"idle", "list"} => run[w].id \in 1 .. Len(deploys)
    /\ {faults, kills} \subseteq 0 .. MaxTrouble
    /\ last \in [fate : {"clean", "killed", "murky"}, before : [Path -> Commit]]
    /\ overlapped \in BOOLEAN

\* A rollback needs no network (runRollback): a checkout's target is a commit that checkout
\* was on, never a sibling's, whatever was killed, lost or recorded out of order.
TargetsWereHere ==
    \A w \in Worker : \A p \in Path : run[w].targets[p] \in was[p] \cup {None}

\* The visits of a rollback are over.
RolledBack(w) == IsRollback(w) /\ At(w, "record")

\* After a deploy or rollback that recorded its paths, whatever became of them, a rollback
\* that nobody overtakes puts every checkout it was asked for, and did not report as
\* failed, where that run found it.
RecordedIsUndone ==
    \A w \in Worker : RolledBack(w) /\ run[w].promise = "recorded" =>
        \A p \in Scope(w) \ run[w].failed : head[p] = run[w].before[p]

\* The same for a deploy that was killed before it recorded, where everything before it was
\* recorded and in order: each checkout with a target is back where the killed deploy
\* found it (rollbackTargets, LastDeployPerPathIn).
KilledIsUndone ==
    \A w \in Worker : RolledBack(w) /\ run[w].promise = "killed" =>
        \A p \in Scope(w) \ run[w].failed :
            run[w].targets[p] # None => head[p] = run[w].before[p]

=============================================================================
