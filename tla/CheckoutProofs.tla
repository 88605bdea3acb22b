--------------------------- MODULE CheckoutProofs ---------------------------
(***************************************************************************)
(* Proofs about Checkout.tla, for any checkouts, branches, manifests and   *)
(* workers and every bound: what a run reports is true of the tree, a move *)
(* always has a rollback point, trees are moved in scope only, a deploy    *)
(* interrupted in its pipeline is undone, a success for a push delivered   *)
(* it, and deploys that overtake one another converge.                     *)
(***************************************************************************)
EXTENDS Checkout, WellFoundedInduction, TLAPS

-----------------------------------------------------------------------------
(* The head of a branch. *)

\* A nonempty set of naturals with a bound has a maximum.
LEMMA MaxExists ==
  ASSUME NEW n \in Nat, NEW S \in SUBSET (1 .. n), S # {}
  PROVE  Max(S) \in S /\ \A x \in S : x <= Max(S)
  <1> DEFINE T == {n - x : x \in S}
  <1>0. \A x \in S : x \in Nat /\ n - x \in Nat
    OBVIOUS
  <1>1. T \subseteq Nat /\ T # {}
    BY <1>0
  <1>2. IsWellFoundedOn({ss \in Nat \X Nat : ss[1] < ss[2]}, Nat)
    BY NatLessThanWellFounded DEF OpToRel
  <1>3. PICK m \in T : \A y \in T : m <= y
    <2>1. PICK m \in T : \A y \in T : ~ (<<y, m>> \in {ss \in Nat \X Nat : ss[1] < ss[2]})
      BY <1>1, <1>2, WFMin
    <2>2. ASSUME NEW y \in T PROVE m <= y
      <3> HIDE DEF T
      <3>1. y \in Nat /\ m \in Nat
        BY <1>1
      <3>2. ~ (y < m)
        BY <2>1, <3>1
      <3>3. QED
        BY <3>1, <3>2
    <2>3. QED
      BY <2>2
  <1>4. PICK x \in S : m = n - x
    OBVIOUS
  <1>5. \A y \in S : x >= y
    BY <1>0, <1>3, <1>4
  <1>6. QED
    BY <1>5 DEF Max

-----------------------------------------------------------------------------
(* Types.  What a run, a row or a tree names is a commit GitHub holds. *)

Pushed == [branch : Branch, manifest : Manifest]

KnownSHA == DOMAIN commits \cup {0}

KnownJob == [kind : {"push", "manual", "setup", "rollback"}, branch : Branch \cup {NoBranch},
             sha : KnownSHA, within : SUBSET Path, targets : [Path -> KnownSHA]]

KnownResult == [status : Verdict, prev : KnownSHA, new : KnownSHA]

KnownRun == [at : Unlocked \cup Locked, job : KnownJob, cancelled : BOOLEAN,
             todo : SUBSET Path, sick : SUBSET Path, path : Path \cup {NoPath},
             base : KnownSHA, prev : KnownSHA, new : KnownSHA,
             verdict : Verdict, done : [Path -> KnownResult], status : Verdict]

\* GitHub's side, the trees and the rows.
WorldInv ==
    /\ commits \in Seq(Pushed)
    /\ Len(commits) <= MaxCommits
    /\ \A b \in Branch : \E c \in DOMAIN commits : commits[c].branch = b
    /\ tree \in [Path -> DOMAIN commits]
    /\ tracking \in [Path -> DOMAIN commits]
    /\ built \in [Path -> DOMAIN commits]
    /\ recorded \in [Path -> SUBSET DOMAIN commits]
    /\ begun \subseteq DOMAIN commits

CountsInv ==
    /\ started \in 0 .. MaxRuns
    /\ faults \in 0 .. MaxFaults
    /\ disturbances \in 0 .. MaxDisturbances

KnownInv ==
    /\ WorldInv
    /\ CountsInv
    /\ lock \in [Path -> Worker \cup {NoWorker}]
    /\ worker \in [Worker -> KnownRun]

\* The head of a branch is a commit: every branch has one.
LEMMA TipIsKnown ==
  ASSUME commits \in Seq(Pushed), NEW b \in Branch,
         \E c \in DOMAIN commits : commits[c].branch = b
  PROVE  Tip(b) \in DOMAIN commits
  <1> DEFINE S == {c \in DOMAIN commits : commits[c].branch = b}
  <1>1. S \in SUBSET (1 .. Len(commits)) /\ Len(commits) \in Nat /\ S # {}
    OBVIOUS
  <1>2. Max(S) \in S
    BY <1>1, MaxExists
  <1>3. QED
    BY <1>2 DEF Tip

\* A run that has not begun is a run.
LEMMA NoRunIsARun == NoRun \in KnownRun
  BY DEF NoRun, KnownRun, KnownJob, KnownResult, KnownSHA, OperatorJob, NoTargets, NoResult,
         Unlocked, Locked, Verdict

\* What the commits known to a run are, TypeOK's bound included.
LEMMA KnownIsTyped == KnownInv => TypeOK
  <1> SUFFICES ASSUME KnownInv PROVE TypeOK
    OBVIOUS
  <1>1. DOMAIN commits \subseteq Commit
    BY CheckoutAssumption DEF KnownInv, WorldInv, Commit
  <1>2. \A c \in DOMAIN commits : commits[c] \in Pushed
    BY DEF KnownInv, WorldInv
  <1>3. KnownSHA \subseteq Commit \cup {0}
    BY <1>1 DEF KnownSHA
  <1>4. KnownJob \subseteq Job
    BY <1>3 DEF KnownJob, Job
  <1>5. [Path -> KnownResult] \subseteq [Path -> Result]
    BY <1>3 DEF KnownResult, Result
  <1>6. KnownRun \subseteq Run
    BY <1>3, <1>4, <1>5 DEF KnownRun, Run
  <1>7. worker \in [Worker -> Run] /\ recorded \in [Path -> SUBSET Commit]
    BY <1>1, <1>6 DEF KnownInv, WorldInv
  <1>8. QED
    BY <1>2, <1>7 DEF KnownInv, WorldInv, CountsInv, TypeOK, Pushed

\* At the start every checkout is on the head of its branch.
LEMMA KnownInit == Init => KnownInv
  <1> SUFFICES ASSUME Init PROVE KnownInv
    OBVIOUS
  <1>1. /\ commits \in Seq(Pushed) /\ Len(commits) <= MaxCommits
        /\ \A b \in Branch : \E c \in DOMAIN commits : commits[c].branch = b
    BY CheckoutAssumption DEF Init, Pushed
  <1>2. \A p \in Path : Tip(BranchOf[p]) \in DOMAIN commits
    BY <1>1, TipIsKnown, CheckoutAssumption
  <1>3. WorldInv
    BY <1>1, <1>2 DEF Init, WorldInv
  <1>4. QED
    BY <1>3, NoRunIsARun, CheckoutAssumption DEF Init, KnownInv, CountsInv

-----------------------------------------------------------------------------
(* Where a run is, and what it may rely on there. *)

\* The path a run has chosen is one it was asked for, of the branch that was pushed;
\* a rollback has a commit for it.
ChoseInScope(w) ==
    /\ Here(w) \in worker[w].job.within
    /\ worker[w].job.branch \in {NoBranch, BranchOf[Here(w)]}
    /\ IsRollback(w) => worker[w].job.targets[Here(w)] # 0

ScopeInv ==
    \A w \in Worker :
        /\ worker[w].at \notin {"idle", "scan"} => worker[w].todo \subseteq worker[w].job.within
        /\ worker[w].at \in Locked \cup {"lock"} => ChoseInScope(w)

\* The lock is held from Acquire to Release, and base is a commit.
HoldsLock(w) == lock[Here(w)] = w /\ worker[w].base \in DOMAIN commits

\* Until the run has read HEAD nothing has moved; from then on it remembers where the
\* tree was.
RemembersBase(w) ==
    CASE worker[w].at = "prepared" -> tree[Here(w)] = worker[w].base
      [] worker[w].at = "release"  -> worker[w].base \in {tree[Here(w)], worker[w].prev}
      [] OTHER                     -> worker[w].prev = worker[w].base

\* What the run has read or reset since is still so.
KnowsTree(w) ==
    /\ worker[w].at \in {"load", "pipeline"} => worker[w].new = tree[Here(w)]
    /\ worker[w].at \in {"undoClean", "undoLoad", "undoPipeline"} => tree[Here(w)] = Target(w)
    /\ worker[w].at \in {"undoLoad", "undoPipeline"} => worker[w].new = Target(w)

ReportsTrue(w) ==
    worker[w].at = "release" /\ worker[w].verdict \in {"success", "rolled_back"} =>
        /\ tree[Here(w)] = worker[w].new
        /\ built[Here(w)] = worker[w].new
        /\ worker[w].verdict = "rolled_back" => tree[Here(w)] = worker[w].base

UnderLock(w) == HoldsLock(w) /\ RemembersBase(w) /\ KnowsTree(w) /\ ReportsTrue(w)

LockInv == \A w \in Worker : worker[w].at \in Locked => UnderLock(w)

EngineInv == KnownInv /\ ScopeInv /\ LockInv

-----------------------------------------------------------------------------
(* Types, step by step. *)

\* A step that gives one run a new state keeps the types of the others.
LEMMA KnownFrame ==
  ASSUME KnownInv, NEW w \in Worker, NEW s \in KnownRun, worker' = [worker EXCEPT ![w] = s],
         UNCHANGED commits, WorldInv', CountsInv', lock' \in [Path -> Worker \cup {NoWorker}]
  PROVE  KnownInv'
  <1>1. KnownRun' = KnownRun
    BY DEF KnownRun, KnownJob, KnownResult, KnownSHA
  <1>2. worker' \in [Worker -> KnownRun]
    BY DEF KnownInv
  <1>3. QED
    BY <1>1, <1>2 DEF KnownInv

\* The world is where it was.
LEMMA WorldStays ==
  ASSUME KnownInv, UNCHANGED <<commits, checkouts, recorded, begun>>
  PROVE  WorldInv'
  BY DEF KnownInv, WorldInv, checkouts

\* A command that ends badly counts as a fault at most once.
LEMMA CommandFailsCounts ==
  ASSUME KnownInv, NEW w \in Worker, CommandFails(w), UNCHANGED <<started, disturbances>>
  PROVE  CountsInv'
  BY CheckoutAssumption DEF KnownInv, CountsInv, CommandFails

\* Goto and Conclude give a run a place and a verdict, no more.
LEMMA Moves ==
  ASSUME KnownInv, NEW w \in Worker
  PROVE  /\ \A at \in Unlocked \cup Locked : [worker[w] EXCEPT !.at = at] \in KnownRun
         /\ \A v \in Verdict : [worker[w] EXCEPT !.at = "release", !.verdict = v] \in KnownRun
         /\ \A at : Goto(w, at) => worker' = [worker EXCEPT ![w] = [worker[w] EXCEPT !.at = at]]
         /\ \A v : Conclude(w, v) =>
              worker' = [worker EXCEPT ![w] = [worker[w] EXCEPT !.at = "release", !.verdict = v]]
  <1>1. worker[w] \in KnownRun /\ worker \in [Worker -> KnownRun]
    BY DEF KnownInv
  <1>2. QED
    BY <1>1 DEF KnownRun, Locked, Goto, Conclude

\* So the run is one of the known runs again.
LEMMA MovesToARun ==
  ASSUME KnownInv, NEW w \in Worker,
         \/ \E at \in Locked : Goto(w, at)
         \/ \E v \in Verdict : Conclude(w, v)
  PROVE  \E s \in KnownRun : worker' = [worker EXCEPT ![w] = s]
  <1>1. ASSUME NEW at \in Locked, Goto(w, at)
        PROVE  \E s \in KnownRun : worker' = [worker EXCEPT ![w] = s]
    <2> DEFINE s == [worker[w] EXCEPT !.at = at]
    <2>1. s \in KnownRun /\ worker' = [worker EXCEPT ![w] = s]
      BY <1>1, Moves
    <2> HIDE DEF s
    <2>2. QED
      BY <2>1
  <1>2. ASSUME NEW v \in Verdict, Conclude(w, v)
        PROVE  \E s \in KnownRun : worker' = [worker EXCEPT ![w] = s]
    <2> DEFINE s == [worker[w] EXCEPT !.at = "release", !.verdict = v]
    <2>1. s \in KnownRun /\ worker' = [worker EXCEPT ![w] = s]
      BY <1>2, Moves
    <2> HIDE DEF s
    <2>2. QED
      BY <2>1
  <1>3. QED
    BY <1>1, <1>2

\* The scan, the loop over the paths and the end of a run keep the types.
LEMMA KnownLoop ==
  ASSUME KnownInv, NEW w \in Worker, Scan(w) \/ End(w) \/ \E p \in Path : Choose(w, p)
  PROVE  KnownInv'
  <1>1. worker[w] \in KnownRun /\ worker \in [Worker -> KnownRun] /\ UNCHANGED <<commits, lock>>
    BY DEF KnownInv, Scan, End, Choose
  <1>2. CountsInv'
    BY DEF KnownInv, CountsInv, Scan, End, Choose, counts
  <1>3. ASSUME NEW s \in KnownRun, worker' = [worker EXCEPT ![w] = s], WorldInv' PROVE KnownInv'
    BY <1>1, <1>2, <1>3, KnownFrame DEF KnownInv
  <1>4. CASE Scan(w)
    <2>1. WorldInv'
      BY <1>4, WorldStays DEF Scan
    <2>2. [worker[w] EXCEPT !.at = "idle", !.status = "failed"] \in KnownRun
      BY <1>1 DEF KnownRun, Unlocked, Verdict
    <2>3. \A found \in SUBSET Path, sick \in SUBSET Path :
            [worker[w] EXCEPT !.at = "choose", !.todo = found, !.sick = sick] \in KnownRun
      BY <1>1 DEF KnownRun, Unlocked
    <2>4. worker[w].job.within \in SUBSET Path
      BY <1>1 DEF KnownRun, KnownJob
    <2>5. \E s \in KnownRun : worker' = [worker EXCEPT ![w] = s]
      BY <1>4, <2>2, <2>3, <2>4 DEF Scan
    <2>6. QED
      BY <1>3, <2>1, <2>5
  <1>5. CASE End(w)
    <2>1. worker[w].done \in [Path -> KnownResult]
      BY <1>1 DEF KnownRun
    <2>2. \A p \in Path : ShasOf(worker[w].done[p]) \subseteq DOMAIN commits
      BY <2>1 DEF ShasOf, KnownResult, KnownSHA
    <2>3. WorldInv'
      BY <1>1, <1>5, <2>2 DEF End, KnownInv, WorldInv, checkouts
    <2>4. \A v \in Verdict : [worker[w] EXCEPT !.at = "idle", !.status = v] \in KnownRun
      BY <1>1 DEF KnownRun, Unlocked
    <2>5. \A S : Summarize(S) \in Verdict
      BY DEF Summarize, Verdict
    <2>6. \E s \in KnownRun : worker' = [worker EXCEPT ![w] = s]
      BY <1>5, <2>4, <2>5 DEF End
    <2>7. QED
      BY <1>3, <2>3, <2>6
  <1>6. ASSUME NEW p \in Path, Choose(w, p) PROVE KnownInv'
    <2> DEFINE run == [worker[w] EXCEPT !.todo = @ \ {p}]
    <2>1. WorldInv'
      BY <1>6, WorldStays DEF Choose
    <2>2. run \in KnownRun
      BY <1>1 DEF KnownRun
    <2>3. \A v \in Verdict : [NoResult EXCEPT !.status = v] \in KnownResult
      BY DEF NoResult, KnownResult, KnownSHA
    <2>4. \A r \in KnownResult : [run EXCEPT !.done[p] = r] \in KnownRun
      BY <2>2 DEF KnownRun
    <2>5. [run EXCEPT !.at = "lock", !.path = p] \in KnownRun
      BY <2>2 DEF KnownRun, Unlocked
    <2>6. \E s \in KnownRun : worker' = [worker EXCEPT ![w] = s]
      <3>1. {"failed", "skipped"} \subseteq Verdict
        BY DEF Verdict
      <3> HIDE DEF run
      <3>2. worker' = [worker EXCEPT ![w] =
              IF p \in worker[w].sick
              THEN [run EXCEPT !.done[p] = [NoResult EXCEPT !.status = "failed"]]
              ELSE IF NotThisOne(w, p)
              THEN [run EXCEPT !.done[p] = [NoResult EXCEPT !.status = "skipped"]]
              ELSE [run EXCEPT !.at = "lock", !.path = p]]
        BY <1>6 DEF Choose, run
      <3>3. QED
        BY <2>3, <2>4, <2>5, <3>1, <3>2
    <2>7. QED
      BY <1>3, <2>1, <2>6
  <1>7. QED
    BY <1>4, <1>5, <1>6

\* Taking, missing and giving back the lock keep the types.
LEMMA KnownLock ==
  ASSUME KnownInv, ScopeInv, NEW w \in Worker, Acquire(w) \/ GiveUp(w) \/ Release(w)
  PROVE  KnownInv'
  <1>1. worker[w] \in KnownRun /\ worker \in [Worker -> KnownRun] /\ UNCHANGED commits
    BY DEF KnownInv, Acquire, GiveUp, Release
  <1>2. WorldInv'
    BY WorldStays DEF Acquire, GiveUp, Release
  <1>3. CountsInv'
    BY CheckoutAssumption DEF KnownInv, CountsInv, Acquire, GiveUp, Release, counts
  <1>4. lock' \in [Path -> Worker \cup {NoWorker}]
    BY DEF KnownInv, Acquire, GiveUp, Release
  <1>5. CASE Acquire(w)
    <2>1. Here(w) \in Path
      BY <1>1, <1>5 DEF Acquire, At, ScopeInv, ChoseInScope, KnownRun, KnownJob
    <2>2. tree[Here(w)] \in KnownSHA /\ 0 \in KnownSHA
      BY <2>1 DEF KnownInv, WorldInv, KnownSHA
    <2> DEFINE s == [worker[w] EXCEPT !.at = "prepared", !.base = tree[Here(w)],
                                      !.prev = 0, !.new = 0, !.verdict = "none"]
    <2>3. s \in KnownRun
      BY <1>1, <2>2 DEF KnownRun, Locked, Verdict
    <2>4. worker' = [worker EXCEPT ![w] = s]
      BY <1>1, <1>5 DEF Acquire
    <2>5. QED
      BY <1>1, <1>2, <1>3, <1>4, <2>3, <2>4, KnownFrame
  <1>6. CASE GiveUp(w) \/ Release(w)
    <2>1. worker[w].verdict \in Verdict /\ worker[w].prev \in KnownSHA /\ worker[w].new \in KnownSHA
      BY <1>1 DEF KnownRun
    <2>2. PICK r \in KnownResult :
            worker' = [worker EXCEPT ![w] = [worker[w] EXCEPT
              !.at = "choose", !.path = NoPath, !.done[Here(w)] = r]]
      <3>1. [NoResult EXCEPT !.status = "failed"] \in KnownResult
        BY DEF NoResult, KnownResult, KnownSHA, Verdict
      <3>2. [status |-> worker[w].verdict, prev |-> worker[w].prev, new |-> worker[w].new]
              \in KnownResult
        BY <2>1 DEF KnownResult
      <3>3. ASSUME NEW r, worker' = [worker EXCEPT ![w].at = "choose", ![w].path = NoPath,
                                                   ![w].done[Here(w)] = r]
            PROVE  worker' = [worker EXCEPT ![w] = [worker[w] EXCEPT
                     !.at = "choose", !.path = NoPath, !.done[Here(w)] = r]]
        BY <1>1, <3>3 DEF KnownRun
      <3>4. CASE GiveUp(w)
        BY <3>1, <3>3, <3>4 DEF GiveUp
      <3>5. CASE Release(w)
        BY <3>2, <3>3, <3>5 DEF Release
      <3>6. QED
        BY <1>6, <3>4, <3>5
    <2>3. [worker[w] EXCEPT !.at = "choose", !.path = NoPath, !.done[Here(w)] = r] \in KnownRun
      BY <1>1 DEF KnownRun, Unlocked
    <2>4. QED
      BY <1>1, <1>2, <1>3, <1>4, <2>2, <2>3, KnownFrame
  <1>7. QED
    BY <1>5, <1>6

\* What a run that holds a lock works on: a checkout, and commits GitHub holds.
LEMMA LockedTyped ==
  ASSUME EngineInv, NEW w \in Worker, worker[w].at \in Locked
  PROVE  /\ Here(w) \in Path /\ BranchOf[Here(w)] \in Branch
         /\ tree[Here(w)] \in DOMAIN commits /\ tracking[Here(w)] \in DOMAIN commits
         /\ worker[w].at \notin {"prepared", "release"} => Target(w) \in DOMAIN commits
         /\ Tip(BranchOf[Here(w)]) \in DOMAIN commits
  <1>1. worker[w] \in KnownRun
    BY DEF EngineInv, KnownInv
  <1>2. ChoseInScope(w)
    BY DEF EngineInv, ScopeInv
  <1>3. Here(w) \in Path /\ worker[w].job.targets \in [Path -> KnownSHA]
    BY <1>1, <1>2 DEF ChoseInScope, KnownRun, KnownJob
  <1>4. BranchOf[Here(w)] \in Branch
    BY <1>3, CheckoutAssumption
  <1>5. worker[w].at \notin {"prepared", "release"} => Target(w) \in DOMAIN commits
    BY <1>2, <1>3 DEF EngineInv, LockInv, UnderLock, HoldsLock, RemembersBase, Target,
                      ChoseInScope, KnownSHA
  <1>6. QED
    BY <1>3, <1>4, <1>5, TipIsKnown DEF EngineInv, KnownInv, WorldInv

\* Commands that leave the trees alone, and decisions, keep the types.
LEMMA KnownStill ==
  ASSUME EngineInv, NEW w \in Worker,
         \/ StepFails(w) \/ Refuse(w) \/ ReadPrevious(w) \/ Clean(w) \/ ReadNew(w) \/ Load(w)
         \/ PipelineStops(w) \/ UndoClean(w) \/ UndoLoad(w) \/ UndoPipelineStops(w)
  PROVE  KnownInv'
  <1> USE DEF EngineInv
  <1>1. worker[w] \in KnownRun /\ worker \in [Worker -> KnownRun] /\ worker[w].at \in Locked
    BY DEF KnownInv, StepFails, Refuse, ReadPrevious, Clean, ReadNew, Load, PipelineStops,
           UndoClean, UndoLoad, UndoPipelineStops, At, Locked
  <1>2. UNCHANGED <<commits, checkouts, lock, recorded, begun>>
    BY DEF StepFails, Refuse, ReadPrevious, Clean, ReadNew, Load, PipelineStops, UndoClean,
           UndoLoad, UndoPipelineStops
  <1>3. WorldInv'
    BY <1>2, WorldStays
  <1>4. CountsInv'
    <2>1. CASE StepFails(w) \/ PipelineStops(w) \/ UndoPipelineStops(w)
      BY <2>1, CommandFailsCounts
         DEF StepFails, PipelineStops, UndoPipelineStops, PipelineFails
    <2>2. CASE UNCHANGED counts
      BY <2>2 DEF KnownInv, CountsInv, counts
    <2>3. QED
      BY <2>1, <2>2 DEF Refuse, ReadPrevious, Clean, ReadNew, Load, UndoClean, UndoLoad
  <1>5. ASSUME NEW s \in KnownRun, worker' = [worker EXCEPT ![w] = s] PROVE KnownInv'
    BY <1>2, <1>3, <1>4, <1>5, KnownFrame DEF KnownInv
  <1>6. CASE ReadPrevious(w)
    <2>1. tree[Here(w)] \in KnownSHA
      BY <1>1, LockedTyped DEF KnownSHA
    <2>2. \A a \in {"fetch", "undo"} :
            [worker[w] EXCEPT !.prev = tree[Here(w)], !.at = a] \in KnownRun
      BY <1>1, <2>1 DEF KnownRun, Locked
    <2>3. [worker[w] EXCEPT !.prev = tree[Here(w)], !.at = "release", !.verdict = "skipped"]
            \in KnownRun
      BY <1>1, <2>1 DEF KnownRun, Locked, Verdict
    <2>4. \E s \in KnownRun : worker' = [worker EXCEPT ![w] = s]
      BY <1>1, <1>6, <2>2, <2>3 DEF ReadPrevious, Prepared
    <2>5. QED
      BY <1>5, <2>4
  <1>7. CASE ReadNew(w) \/ UndoClean(w)
    <2>1. tree[Here(w)] \in KnownSHA /\ (UndoClean(w) => Target(w) \in KnownSHA)
      BY <1>1, LockedTyped DEF KnownSHA, UndoClean, At
    <2>2. \A a \in {"load", "undoLoad"}, c \in KnownSHA :
            [worker[w] EXCEPT !.at = a, !.new = c] \in KnownRun
      BY <1>1 DEF KnownRun, Locked
    <2>3. \E s \in KnownRun : worker' = [worker EXCEPT ![w] = s]
      BY <1>1, <1>7, <2>1, <2>2 DEF ReadNew, UndoClean
    <2>4. QED
      BY <1>5, <2>3
  <1>8. CASE \/ StepFails(w) \/ Refuse(w) \/ Clean(w) \/ Load(w)
             \/ PipelineStops(w) \/ UndoLoad(w) \/ UndoPipelineStops(w)
    <2>1. \/ \E a \in Locked : Goto(w, a)
          \/ \E v \in Verdict : Conclude(w, v)
      BY <1>8 DEF StepFails, Refuse, Clean, Load, PipelineStops, UndoLoad, UndoPipelineStops,
                  Locked, Verdict
    <2>2. \E s \in KnownRun : worker' = [worker EXCEPT ![w] = s]
      BY <2>1, MovesToARun
    <2>3. QED
      BY <1>5, <2>2
  <1>9. QED
    BY <1>6, <1>7, <1>8

\* Commands that move a tree, a tracking ref or what was built there keep the types.
LEMMA KnownMoving ==
  ASSUME EngineInv, NEW w \in Worker,
         \/ Fetch(w) \/ FetchFails(w) \/ Reset(w) \/ ResetFails(w) \/ Pipeline(w)
         \/ Undo(w) \/ UndoFails(w) \/ UndoPipeline(w)
  PROVE  KnownInv'
  <1> USE DEF EngineInv
  <1>1. worker[w].at \in Locked /\ worker[w].at # "prepared" /\ worker[w].at # "release"
    BY DEF Fetch, FetchFails, Reset, ResetFails, Pipeline, Undo, UndoFails, UndoPipeline,
           At, Locked
  <1>2. UNCHANGED <<commits, lock, recorded, begun>>
    BY DEF Fetch, FetchFails, Reset, ResetFails, Pipeline, Undo, UndoFails, UndoPipeline
  <1>3. CountsInv'
    <2>1. CASE FetchFails(w) \/ ResetFails(w) \/ UndoFails(w)
      BY <2>1, CommandFailsCounts DEF FetchFails, ResetFails, UndoFails
    <2>2. CASE UNCHANGED counts
      BY <2>2 DEF KnownInv, CountsInv, counts
    <2>3. QED
      BY <2>1, <2>2 DEF Fetch, Reset, Pipeline, Undo, UndoPipeline
  <1>4. WorldInv'
    <2>1. tree' \in [Path -> DOMAIN commits]
      BY <1>1, LockedTyped
         DEF KnownInv, WorldInv, Fetch, FetchFails, Reset, ResetFails, Pipeline, Undo,
             UndoFails, UndoPipeline, Upstream
    <2>2. tracking' \in [Path -> DOMAIN commits] /\ built' \in [Path -> DOMAIN commits]
      BY <1>1, LockedTyped
         DEF KnownInv, WorldInv, Fetch, FetchFails, Reset, ResetFails, Pipeline, Undo,
             UndoFails, UndoPipeline, FetchesTip
    <2>3. QED
      BY <1>2, <2>1, <2>2 DEF KnownInv, WorldInv
  <1>5. \/ \E a \in Locked : Goto(w, a)
        \/ \E v \in Verdict : Conclude(w, v)
    BY DEF Fetch, FetchFails, Reset, ResetFails, Pipeline, Undo, UndoFails, UndoPipeline,
           Locked, Verdict
  <1>6. PICK s \in KnownRun : worker' = [worker EXCEPT ![w] = s]
    BY <1>5, MovesToARun
  <1>7. QED
    BY <1>2, <1>3, <1>4, <1>6, KnownFrame DEF KnownInv

\* A run that begins has a job about commits and checkouts that are there.
LEMMA KnownArrival ==
  ASSUME KnownInv, NEW w \in Worker, Arrival(w)
  PROVE  /\ KnownInv'
         /\ \E job \in KnownJob :
              worker' = [worker EXCEPT ![w] = [NoRun EXCEPT !.at = "scan", !.job = job]]
         /\ UNCHANGED <<commits, checkouts, lock>>
  <1>1. PICK job \in KnownJob : Begin(w, job)
    <2>1. ASSUME NEW c \in Commit, BeginPush(w, c) PROVE PushJob(c) \in KnownJob
      <3>1. c \in DOMAIN commits
        BY <2>1 DEF BeginPush
      <3>2. commits[c] \in Pushed
        BY <3>1 DEF KnownInv, WorldInv
      <3>3. commits[c].branch \in Branch
        BY <3>2 DEF Pushed
      <3>4. QED
        BY <3>1, <3>3 DEF PushJob, KnownJob, KnownSHA, NoTargets
    <2>2. ASSUME NEW kind \in {"manual", "setup"}, NEW within \in Scope
          PROVE  OperatorJob(kind, within) \in KnownJob
      BY DEF OperatorJob, KnownJob, KnownSHA, NoTargets, Scope
    <2>3. ASSUME NEW targets \in [Path -> Commit \cup {0}], BeginRollback(w, targets)
          PROVE  RollbackJob(targets) \in KnownJob
      <3>1. \A p \in Path : targets[p] \in KnownSHA
        BY <2>3 DEF BeginRollback, KnownInv, WorldInv, KnownSHA
      <3>2. targets \in [Path -> KnownSHA]
        BY <3>1
      <3>3. QED
        BY <3>2 DEF RollbackJob, OperatorJob, KnownJob, KnownSHA, NoTargets
    <2>4. QED
      BY <2>1, <2>2, <2>3 DEF Arrival, BeginPush, BeginByHand, BeginRollback
  <1>2. /\ UNCHANGED <<commits, checkouts, lock, recorded, faults>>
        /\ worker' = [worker EXCEPT ![w] = [NoRun EXCEPT !.at = "scan", !.job = job]]
        /\ started < MaxRuns /\ started' = started + 1
    BY <1>1 DEF Begin
  <1>3. CountsInv'
    <2>1. \/ UNCHANGED disturbances
          \/ disturbances < MaxDisturbances /\ disturbances' = disturbances + 1
      BY DEF Arrival, BeginPush, BeginByHand, BeginRollback
    <2>2. QED
      BY <1>2, <2>1, CheckoutAssumption DEF KnownInv, CountsInv
  <1>4. WorldInv'
    <2>1. begun' \subseteq DOMAIN commits
      BY DEF Arrival, BeginPush, BeginByHand, BeginRollback, KnownInv, WorldInv
    <2>2. QED
      BY <1>2, <2>1 DEF KnownInv, WorldInv, checkouts
  <1>5. [NoRun EXCEPT !.at = "scan", !.job = job] \in KnownRun
    BY NoRunIsARun DEF KnownRun, Unlocked
  <1>6. KnownInv'
    BY <1>2, <1>3, <1>4, <1>5, KnownFrame DEF KnownInv
  <1>7. QED
    BY <1>2, <1>6

\* A push adds a commit and takes none away.
LEMMA KnownPush ==
  ASSUME KnownInv, NEW b \in Branch, NEW m \in Manifests, Push(b, m)
  PROVE  /\ KnownInv'
         /\ DOMAIN commits \subseteq DOMAIN commits'
         /\ \A c \in DOMAIN commits : commits'[c] = commits[c]
  <1> DEFINE n == [branch |-> b, manifest |-> m]
  <1>1. n \in Pushed /\ commits \in Seq(Pushed)
    BY CheckoutAssumption DEF Pushed, KnownInv, WorldInv
  <1>2. commits' = Append(commits, n) /\ Len(commits) < MaxCommits
    BY DEF Push
  <1>3. /\ commits' \in Seq(Pushed) /\ Len(commits') = Len(commits) + 1
        /\ \A c \in DOMAIN commits : commits'[c] = commits[c]
        /\ DOMAIN commits \subseteq DOMAIN commits'
    BY <1>1, <1>2
  <1>4. WorldInv'
    <2>1. Len(commits') <= MaxCommits
      BY <1>1, <1>2, <1>3, CheckoutAssumption
    <2>2. \A a \in Branch : \E c \in DOMAIN commits' : commits'[c].branch = a
      BY <1>3 DEF KnownInv, WorldInv
    <2>3. [Path -> DOMAIN commits] \subseteq [Path -> DOMAIN commits']
      BY <1>3
    <2>4. [Path -> SUBSET DOMAIN commits] \subseteq [Path -> SUBSET DOMAIN commits']
      BY <1>3
    <2>5. QED
      BY <1>3, <2>1, <2>2, <2>3, <2>4 DEF Push, checkouts, KnownInv, WorldInv
  <1>5. worker' \in [Worker -> KnownRun']
    <2>1. KnownSHA \subseteq KnownSHA'
      BY <1>3 DEF KnownSHA
    <2>2. KnownJob \subseteq KnownJob' /\ KnownResult \subseteq KnownResult'
      BY <2>1 DEF KnownJob, KnownResult
    <2>3. [Path -> KnownResult] \subseteq [Path -> KnownResult']
      BY <2>2
    <2>4. KnownRun \subseteq KnownRun'
      BY <2>1, <2>2, <2>3 DEF KnownRun
    <2>5. QED
      BY <2>4 DEF Push, KnownInv
  <1>6. QED
    BY <1>3, <1>4, <1>5 DEF Push, counts, KnownInv, CountsInv

\* A cancellation and a kill keep the types.
LEMMA KnownDisturbed ==
  ASSUME EngineInv, NEW w \in Worker, Cancel(w) \/ Kill(w)
  PROVE  KnownInv'
  <1> USE DEF EngineInv
  <1>1. worker[w] \in KnownRun /\ worker \in [Worker -> KnownRun]
    BY DEF KnownInv
  <1>2. CountsInv'
    BY CheckoutAssumption DEF KnownInv, CountsInv, Cancel, Kill
  <1>3. PICK s \in KnownRun : worker' = [worker EXCEPT ![w] = s]
    <2>1. [worker[w] EXCEPT !.cancelled = TRUE] \in KnownRun
      BY <1>1 DEF KnownRun
    <2>2. QED
      BY <1>1, <2>1, NoRunIsARun DEF Cancel, Kill
  <1>4. lock' \in [Path -> Worker \cup {NoWorker}]
    BY DEF KnownInv, Cancel, Kill
  <1>5. WorldInv'
    <2>1. UNCHANGED <<commits, built, recorded, begun>>
      BY DEF Cancel, Kill, checkouts
    <2>2. tree' \in [Path -> DOMAIN commits] /\ tracking' \in [Path -> DOMAIN commits]
      <3>1. CASE worker[w].at \in {"fetch", "reset", "undo"}
        <4>1. worker[w].at \in Locked /\ worker[w].at \notin {"prepared", "release"}
          BY <3>1 DEF Locked
        <4>2. QED
          BY <4>1, LockedTyped
             DEF Cancel, Kill, checkouts, KnownInv, WorldInv, FetchesTip, Upstream
      <3>2. CASE UNCHANGED <<tree, tracking>>
        BY <3>2 DEF KnownInv, WorldInv
      <3>3. QED
        BY <3>1, <3>2 DEF Cancel, Kill, At, checkouts
    <2>3. QED
      BY <2>1, <2>2 DEF KnownInv, WorldInv
  <1>6. QED
    BY <1>2, <1>3, <1>4, <1>5, KnownFrame DEF Cancel, Kill, KnownInv

-----------------------------------------------------------------------------
(* Scope and lock, step by step. *)

\* No step of one run disturbs what another knows under its lock: only the holder
\* touches a locked checkout.
LEMMA OthersKeep ==
  ASSUME EngineInv, NEW w \in Worker, NEW s, worker' = [worker EXCEPT ![w] = s],
         UNCHANGED commits,
         \A p \in Path : lock[p] \in Worker \ {w} =>
             lock'[p] = lock[p] /\ tree'[p] = tree[p] /\ built'[p] = built[p]
  PROVE  \A v \in Worker \ {w} :
             /\ worker'[v] = worker[v]
             /\ worker[v].at \in Locked => UnderLock(v)'
  <1> SUFFICES ASSUME NEW v \in Worker \ {w}
               PROVE  /\ worker'[v] = worker[v]
                      /\ worker[v].at \in Locked => UnderLock(v)'
    OBVIOUS
  <1>1. worker'[v] = worker[v]
    BY DEF EngineInv, KnownInv
  <1>2. ASSUME worker[v].at \in Locked PROVE UnderLock(v)'
    <2>1. UnderLock(v) /\ Here(v) \in Path
      BY <1>2, LockedTyped DEF EngineInv, LockInv
    <2>2. lock[Here(v)] = v
      BY <2>1 DEF UnderLock, HoldsLock
    <2>3. /\ lock'[Here(v)] = lock[Here(v)] /\ tree'[Here(v)] = tree[Here(v)]
          /\ built'[Here(v)] = built[Here(v)] /\ Here(v)' = Here(v)
      BY <1>1, <2>1, <2>2 DEF Here
    <2>4. HoldsLock(v)'
      BY <1>1, <2>1, <2>3 DEF UnderLock, HoldsLock
    <2>5. RemembersBase(v)'
      BY <1>1, <2>1, <2>3 DEF UnderLock, RemembersBase
    <2>6. Target(v)' = Target(v)
      BY <1>1, <2>3 DEF Target, IsRollback
    <2>7. KnowsTree(v)'
      BY <1>1, <2>1, <2>3, <2>6 DEF UnderLock, KnowsTree
    <2>8. ReportsTrue(v)'
      BY <1>1, <2>1, <2>3 DEF UnderLock, ReportsTrue
    <2>9. QED
      BY <2>4, <2>5, <2>7, <2>8 DEF UnderLock
  <1>3. QED
    BY <1>1, <1>2

\* A run that moves on within its scope keeps ScopeInv, whatever the others do.
LEMMA ScopeFrame ==
  ASSUME EngineInv, NEW w \in Worker, NEW s, worker' = [worker EXCEPT ![w] = s],
         s.at \notin {"idle", "scan"} => s.todo \subseteq s.job.within,
         s.at \in Locked \cup {"lock"} => ChoseInScope(w)'
  PROVE  ScopeInv'
  <1>1. worker'[w] = s /\ \A v \in Worker \ {w} : worker'[v] = worker[v]
    BY DEF EngineInv, KnownInv
  <1>2. ASSUME NEW v \in Worker \ {w}
        PROVE  /\ worker'[v].at \notin {"idle", "scan"} =>
                    worker'[v].todo \subseteq worker'[v].job.within
               /\ worker'[v].at \in Locked \cup {"lock"} => ChoseInScope(v)'
    <2>1. worker'[v] = worker[v] /\ (ChoseInScope(v) => ChoseInScope(v)')
      BY <1>1 DEF ChoseInScope, Here, IsRollback
    <2>2. QED
      BY <2>1 DEF EngineInv, ScopeInv
  <1>3. QED
    BY <1>1, <1>2 DEF ScopeInv

\* A step under the lock that keeps the job, the path and the base leaves only the
\* run's own knowledge to be shown.
LEMMA HeldStep ==
  ASSUME EngineInv, KnownInv', NEW w \in Worker, NEW s, worker' = [worker EXCEPT ![w] = s],
         worker[w].at \in Locked, s.at \in Locked,
         s.job = worker[w].job, s.path = worker[w].path, s.todo = worker[w].todo,
         s.base = worker[w].base, UNCHANGED <<commits, lock>>,
         \A p \in Path : p # Here(w) => tree'[p] = tree[p] /\ built'[p] = built[p],
         RemembersBase(w)', KnowsTree(w)', ReportsTrue(w)'
  PROVE  EngineInv'
  <1>1. UnderLock(w) /\ ChoseInScope(w) /\ worker[w].todo \subseteq worker[w].job.within
    BY DEF EngineInv, LockInv, ScopeInv, Locked
  <1>2. worker'[w] = s
    BY DEF EngineInv, KnownInv
  <1>3. Here(w)' = Here(w) /\ HoldsLock(w)'
    BY <1>1, <1>2 DEF UnderLock, HoldsLock, Here
  <1>4. ScopeInv'
    <2>1. ChoseInScope(w)'
      BY <1>1, <1>2 DEF ChoseInScope, Here, IsRollback
    <2>2. QED
      BY <1>1, <2>1, ScopeFrame
  <1>5. \A p \in Path : lock[p] \in Worker \ {w} => p # Here(w)
    BY <1>1 DEF UnderLock, HoldsLock
  <1>6. \A v \in Worker \ {w} :
          worker'[v] = worker[v] /\ (worker[v].at \in Locked => UnderLock(v)')
    BY <1>5, OthersKeep
  <1>7. LockInv'
    BY <1>2, <1>3, <1>6 DEF LockInv, UnderLock
  <1>8. QED
    BY <1>4, <1>7 DEF EngineInv

\* A step outside the lock, or one that gives it up: what is left to show is scope.
LEMMA UnheldStep ==
  ASSUME EngineInv, KnownInv', NEW w \in Worker, NEW s, worker' = [worker EXCEPT ![w] = s],
         s.at \notin Locked, UNCHANGED commits,
         \A p \in Path : lock[p] \in Worker \ {w} =>
             lock'[p] = lock[p] /\ tree'[p] = tree[p] /\ built'[p] = built[p],
         s.at \notin {"idle", "scan"} => s.todo \subseteq s.job.within,
         s.at = "lock" => ChoseInScope(w)'
  PROVE  EngineInv'
  <1>1. worker'[w] = s
    BY DEF EngineInv, KnownInv
  <1>2. \A v \in Worker \ {w} :
          worker'[v] = worker[v] /\ (worker[v].at \in Locked => UnderLock(v)')
    BY OthersKeep
  <1>3. LockInv'
    BY <1>1, <1>2 DEF LockInv
  <1>4. ScopeInv'
    BY ScopeFrame
  <1>5. QED
    BY <1>3, <1>4 DEF EngineInv

\* Conclude, from where nothing has moved or the run remembers where it was: a failure
\* claims nothing, and where the tree was is still known.
LEMMA ConcludeFailed ==
  ASSUME EngineInv, KnownInv', NEW w \in Worker, Conclude(w, "failed"),
         worker[w].at \in Locked, worker[w].at # "release", UNCHANGED <<commits, lock>>,
         \A p \in Path : p # Here(w) => tree'[p] = tree[p] /\ built'[p] = built[p],
         worker[w].at = "prepared" => UNCHANGED tree
  PROVE  EngineInv'
  <1> DEFINE s == [worker[w] EXCEPT !.at = "release", !.verdict = "failed"]
  <1>1. worker' = [worker EXCEPT ![w] = s] /\ worker[w] \in KnownRun
    BY Moves DEF EngineInv, KnownInv
  <1>2. /\ s.at = "release" /\ s.verdict = "failed" /\ s.job = worker[w].job
        /\ s.path = worker[w].path /\ s.todo = worker[w].todo /\ s.base = worker[w].base
        /\ s.prev = worker[w].prev
    BY <1>1 DEF KnownRun
  <1> HIDE DEF s
  <1>3. worker'[w] = s /\ RemembersBase(w)
    BY <1>1 DEF EngineInv, KnownInv, LockInv, UnderLock
  <1>4. RemembersBase(w)'
    <2>1. CASE worker[w].at = "prepared"
      BY <1>2, <1>3, <2>1 DEF RemembersBase, Here
    <2>2. CASE worker[w].at # "prepared"
      BY <1>2, <1>3, <2>2 DEF RemembersBase
    <2>3. QED
      BY <2>1, <2>2
  <1>5. KnowsTree(w)' /\ ReportsTrue(w)'
    BY <1>2, <1>3 DEF KnowsTree, ReportsTrue
  <1>6. s.at \in Locked
    BY <1>2 DEF Locked
  <1>7. QED
    BY <1>1, <1>2, <1>4, <1>5, <1>6, HeldStep

\* Goto, from one step under the lock to the next, once the run has read HEAD.
LEMMA GotoHeld ==
  ASSUME EngineInv, KnownInv', NEW w \in Worker, NEW at \in Locked, Goto(w, at),
         worker[w].at \in Locked, worker[w].at \notin {"prepared", "release"},
         at \notin {"prepared", "release"}, UNCHANGED <<commits, lock>>,
         \A p \in Path : p # Here(w) => tree'[p] = tree[p] /\ built'[p] = built[p],
         at \in {"load", "pipeline"} => worker[w].new = tree'[Here(w)],
         at \in {"undoClean", "undoLoad", "undoPipeline"} => tree'[Here(w)] = Target(w),
         at \in {"undoLoad", "undoPipeline"} => worker[w].new = Target(w)
  PROVE  EngineInv'
  <1> DEFINE s == [worker[w] EXCEPT !.at = at]
  <1>1. worker' = [worker EXCEPT ![w] = s] /\ worker[w] \in KnownRun
    BY Moves DEF EngineInv, KnownInv
  <1>2. /\ s.at = at /\ s.new = worker[w].new /\ s.job = worker[w].job
        /\ s.path = worker[w].path /\ s.todo = worker[w].todo /\ s.base = worker[w].base
        /\ s.prev = worker[w].prev
    BY <1>1 DEF KnownRun
  <1> HIDE DEF s
  <1>3. worker'[w] = s /\ RemembersBase(w)
    BY <1>1 DEF EngineInv, KnownInv, LockInv, UnderLock
  <1>4. RemembersBase(w)'
    BY <1>2, <1>3 DEF RemembersBase
  <1>5. Target(w)' = Target(w) /\ Here(w)' = Here(w)
    BY <1>2, <1>3 DEF Target, IsRollback, Here
  <1>6. KnowsTree(w)'
    BY <1>2, <1>3, <1>5 DEF KnowsTree
  <1>7. ReportsTrue(w)'
    BY <1>2, <1>3 DEF ReportsTrue
  <1>8. QED
    BY <1>1, <1>2, <1>4, <1>6, <1>7, HeldStep

\* Scanning, choosing and ending hold no lock and choose within the scope of the job.
LEMMA LoopStep ==
  ASSUME EngineInv, NEW w \in Worker, Scan(w) \/ End(w) \/ \E p \in Path : Choose(w, p)
  PROVE  EngineInv'
  <1>1. KnownInv' /\ worker[w] \in KnownRun /\ worker \in [Worker -> KnownRun]
    BY KnownLoop DEF EngineInv, KnownInv
  <1>2. UNCHANGED <<commits, tree, built, lock>>
    BY DEF Scan, End, Choose, checkouts
  <1>3. CASE Scan(w)
    <2> DEFINE found == {p \in worker[w].job.within : ManifestOf(tree[p]).file # "missing"}
               sick == {p \in found : ManifestOf(tree[p]).file = "broken"}
               over == [worker[w] EXCEPT !.at = "idle", !.status = "failed"]
               on   == [worker[w] EXCEPT !.at = "choose", !.todo = found, !.sick = sick]
    <2>1. over.at = "idle" /\ on.at = "choose" /\ on.todo = found /\ on.job = worker[w].job
      BY <1>1 DEF KnownRun
    <2>2. worker' = [worker EXCEPT ![w] = over] \/ worker' = [worker EXCEPT ![w] = on]
      BY <1>1, <1>3 DEF Scan
    <2>3. on.todo \subseteq on.job.within
      BY <2>1
    <2> HIDE DEF over, on
    <2>4. CASE worker' = [worker EXCEPT ![w] = over]
      BY <1>1, <1>2, <2>1, <2>4, UnheldStep DEF Locked
    <2>5. CASE worker' = [worker EXCEPT ![w] = on]
      BY <1>1, <1>2, <2>1, <2>3, <2>5, UnheldStep DEF Locked
    <2>6. QED
      BY <2>2, <2>4, <2>5
  <1>4. CASE End(w)
    <2>1. PICK v : worker' = [worker EXCEPT ![w] = [worker[w] EXCEPT !.at = "idle", !.status = v]]
      BY <1>1, <1>4 DEF End
    <2> DEFINE s == [worker[w] EXCEPT !.at = "idle", !.status = v]
    <2>2. s.at = "idle"
      BY <1>1 DEF KnownRun
    <2> HIDE DEF s
    <2>3. QED
      BY <1>1, <1>2, <2>1, <2>2, UnheldStep DEF Locked, s
  <1>5. ASSUME NEW p \in Path, Choose(w, p) PROVE EngineInv'
    <2> DEFINE run == [worker[w] EXCEPT !.todo = @ \ {p}]
               lost(v) == [run EXCEPT !.done[p] = [NoResult EXCEPT !.status = v]]
               on == [run EXCEPT !.at = "lock", !.path = p]
    <2>1. /\ At(w, "choose") /\ p \in worker[w].todo
          /\ worker[w].todo \subseteq worker[w].job.within
      BY <1>5 DEF Choose, At, EngineInv, ScopeInv
    <2>2. /\ \A v : /\ lost(v).at = "choose" /\ lost(v).todo = worker[w].todo \ {p}
                    /\ lost(v).job = worker[w].job
          /\ on.at = "lock" /\ on.path = p /\ on.todo = worker[w].todo \ {p}
          /\ on.job = worker[w].job
      BY <1>1, <2>1 DEF KnownRun, At
    <2>3. \/ \E v : worker' = [worker EXCEPT ![w] = lost(v)]
          \/ ~ NotThisOne(w, p) /\ worker' = [worker EXCEPT ![w] = on]
      <3> HIDE DEF run
      <3>1. worker' = [worker EXCEPT ![w] =
              IF p \in worker[w].sick THEN lost("failed")
              ELSE IF NotThisOne(w, p) THEN lost("skipped") ELSE on]
        BY <1>5 DEF Choose, run
      <3> HIDE DEF on, lost
      <3>2. QED
        BY <3>1
    <2> HIDE DEF run, on, lost
    <2>4. ASSUME NEW v, worker' = [worker EXCEPT ![w] = lost(v)] PROVE EngineInv'
      BY <1>1, <1>2, <2>1, <2>2, <2>4, UnheldStep DEF Locked
    <2>5. CASE ~ NotThisOne(w, p) /\ worker' = [worker EXCEPT ![w] = on]
      <3>1. worker'[w] = on
        BY <1>1, <2>5
      <3>2. ChoseInScope(w)'
        BY <2>1, <2>2, <2>5, <3>1 DEF ChoseInScope, NotThisOne, Here, IsRollback
      <3>3. QED
        BY <1>1, <1>2, <2>1, <2>2, <2>5, <3>2, UnheldStep DEF Locked
    <2>6. QED
      BY <2>3, <2>4, <2>5
  <1>6. QED
    BY <1>3, <1>4, <1>5

\* Taking a free lock, giving up on a taken one and giving it back disturb nobody.
LEMMA LockStep ==
  ASSUME EngineInv, NEW w \in Worker, Acquire(w) \/ GiveUp(w) \/ Release(w)
  PROVE  EngineInv'
  <1>1. KnownInv' /\ worker[w] \in KnownRun /\ worker \in [Worker -> KnownRun]
    BY KnownLock DEF EngineInv, KnownInv
  <1>2. UNCHANGED <<commits, tree, built>>
    BY DEF Acquire, GiveUp, Release, checkouts
  <1>3. CASE Acquire(w)
    <2> DEFINE s == [worker[w] EXCEPT !.at = "prepared", !.base = tree[Here(w)],
                                      !.prev = 0, !.new = 0, !.verdict = "none"]
    <2>1. ChoseInScope(w) /\ worker[w].todo \subseteq worker[w].job.within
      BY <1>3 DEF Acquire, At, EngineInv, ScopeInv
    <2>2. Here(w) \in Path
      BY <1>1, <2>1 DEF ChoseInScope, KnownRun, KnownJob
    <2>3. worker' = [worker EXCEPT ![w] = s]
      BY <1>1, <1>3 DEF Acquire
    <2>4. /\ s.at = "prepared" /\ s.base = tree[Here(w)] /\ s.job = worker[w].job
          /\ s.path = worker[w].path /\ s.todo = worker[w].todo
      BY <1>1 DEF KnownRun
    <2> HIDE DEF s
    <2>5. worker'[w] = s /\ Here(w)' = Here(w)
      BY <1>1, <2>3, <2>4 DEF Here
    <2>6. lock[Here(w)] = NoWorker /\ lock' = [lock EXCEPT ![Here(w)] = w]
      BY <1>3 DEF Acquire, Free
    <2>7. \A p \in Path : lock[p] \in Worker \ {w} => lock'[p] = lock[p]
      BY <2>6, CheckoutAssumption DEF EngineInv, KnownInv
    <2>8. \A v \in Worker \ {w} :
            worker'[v] = worker[v] /\ (worker[v].at \in Locked => UnderLock(v)')
      BY <1>2, <2>3, <2>7, OthersKeep
    <2>9. UnderLock(w)'
      <3>1. HoldsLock(w)'
        BY <1>2, <2>2, <2>4, <2>5, <2>6 DEF HoldsLock, EngineInv, KnownInv, WorldInv
      <3>2. RemembersBase(w)'
        BY <1>2, <2>4, <2>5 DEF RemembersBase
      <3>3. KnowsTree(w)' /\ ReportsTrue(w)'
        BY <2>4, <2>5 DEF KnowsTree, ReportsTrue
      <3>4. QED
        BY <3>1, <3>2, <3>3 DEF UnderLock
    <2>10. LockInv'
      BY <2>8, <2>9 DEF LockInv
    <2>11. ChoseInScope(w)'
      BY <2>1, <2>4, <2>5 DEF ChoseInScope, IsRollback
    <2>12. ScopeInv'
      BY <2>1, <2>3, <2>4, <2>11, ScopeFrame
    <2>13. QED
      BY <1>1, <2>10, <2>12 DEF EngineInv
  <1>4. CASE GiveUp(w) \/ Release(w)
    <2>1. PICK r :
            worker' = [worker EXCEPT ![w] = [worker[w] EXCEPT
              !.at = "choose", !.path = NoPath, !.done[Here(w)] = r]]
      <3>1. ASSUME NEW r, worker' = [worker EXCEPT ![w].at = "choose", ![w].path = NoPath,
                                                   ![w].done[Here(w)] = r]
            PROVE  worker' = [worker EXCEPT ![w] = [worker[w] EXCEPT
                     !.at = "choose", !.path = NoPath, !.done[Here(w)] = r]]
        BY <1>1, <3>1 DEF KnownRun
      <3>2. QED
        BY <1>4, <3>1 DEF GiveUp, Release
    <2> DEFINE s == [worker[w] EXCEPT !.at = "choose", !.path = NoPath, !.done[Here(w)] = r]
    <2>2. s.at = "choose" /\ s.job = worker[w].job /\ s.todo = worker[w].todo
      BY <1>1 DEF KnownRun
    <2> HIDE DEF s
    <2>3. worker[w].todo \subseteq worker[w].job.within
      BY <1>4 DEF GiveUp, Release, At, EngineInv, ScopeInv
    <2>4. \A p \in Path : lock[p] \in Worker \ {w} => lock'[p] = lock[p]
      <3>1. CASE GiveUp(w)
        BY <3>1 DEF GiveUp
      <3>2. CASE Release(w)
        <4>1. lock[Here(w)] = w
          BY <3>2 DEF Release, At, EngineInv, LockInv, UnderLock, HoldsLock, Locked
        <4>2. QED
          BY <3>2, <4>1 DEF Release, EngineInv, KnownInv
      <3>3. QED
        BY <1>4, <3>1, <3>2
    <2>5. QED
      BY <1>1, <1>2, <2>1, <2>2, <2>3, <2>4, UnheldStep DEF Locked, s
  <1>5. QED
    BY <1>3, <1>4

\* A command under the lock that fails.
LEMMA FailStep ==
  ASSUME EngineInv, NEW w \in Worker,
         \/ StepFails(w) \/ Refuse(w) \/ FetchFails(w) \/ ResetFails(w)
         \/ UndoFails(w) \/ UndoPipelineStops(w)
  PROVE  EngineInv'
  <1>1. KnownInv'
    BY KnownStill, KnownMoving
  <1>2. Conclude(w, "failed") /\ UNCHANGED <<commits, lock>>
    BY DEF StepFails, Refuse, FetchFails, ResetFails, UndoFails, UndoPipelineStops
  <1>3. worker[w].at \in Locked /\ worker[w].at # "release"
    BY DEF StepFails, Refuse, FetchFails, ResetFails, UndoFails, UndoPipelineStops, At, Locked
  <1>4. \A p \in Path : p # Here(w) => tree'[p] = tree[p] /\ built'[p] = built[p]
    BY DEF StepFails, Refuse, FetchFails, ResetFails, UndoFails, UndoPipelineStops, checkouts,
           EngineInv, KnownInv, WorldInv
  <1>5. worker[w].at = "prepared" => UNCHANGED tree
    BY DEF StepFails, Refuse, FetchFails, ResetFails, UndoFails, UndoPipelineStops, checkouts, At
  <1>6. QED
    BY <1>1, <1>2, <1>3, <1>4, <1>5, ConcludeFailed

\* What a run knows when a step begins, unfolded.
LEMMA Knows ==
  ASSUME EngineInv, NEW w \in Worker, worker[w].at \in Locked
  PROVE  /\ worker[w] \in KnownRun /\ worker \in [Worker -> KnownRun]
         /\ Here(w) \in Path /\ tree \in [Path -> DOMAIN commits]
         /\ built \in [Path -> DOMAIN commits]
         /\ RemembersBase(w) /\ KnowsTree(w)
  BY LockedTyped DEF EngineInv, KnownInv, WorldInv, LockInv, UnderLock

\* Reading HEAD before anything moves: the rollback point is where the tree was.
LEMMA ReadPreviousStep ==
  ASSUME EngineInv, NEW w \in Worker, ReadPrevious(w)
  PROVE  EngineInv'
  <1>1. worker[w].at = "prepared" /\ worker[w].at \in Locked
    BY DEF ReadPrevious, At, Locked
  <1>2. KnownInv' /\ UNCHANGED <<commits, tree, built, lock>>
    BY KnownStill DEF ReadPrevious, checkouts
  <1>3. tree[Here(w)] = worker[w].base
    BY <1>1, Knows DEF RemembersBase
  <1> DEFINE on(at) == [worker[w] EXCEPT !.prev = tree[Here(w)], !.at = at]
             off == [worker[w] EXCEPT !.prev = tree[Here(w)], !.at = "release",
                                      !.verdict = "skipped"]
  <1>4. \/ \E at \in {"fetch", "undo"} : worker' = [worker EXCEPT ![w] = on(at)]
        \/ worker' = [worker EXCEPT ![w] = off]
    BY <1>1, Knows DEF ReadPrevious, Prepared
  <1>5. /\ \A at \in {"fetch", "undo"} :
             /\ on(at).at = at /\ on(at).job = worker[w].job /\ on(at).path = worker[w].path
             /\ on(at).todo = worker[w].todo /\ on(at).base = worker[w].base
             /\ on(at).prev = tree[Here(w)]
        /\ off.at = "release" /\ off.job = worker[w].job /\ off.path = worker[w].path
        /\ off.todo = worker[w].todo /\ off.base = worker[w].base
        /\ off.prev = tree[Here(w)] /\ off.verdict = "skipped"
    BY <1>1, Knows DEF KnownRun
  <1> HIDE DEF on, off
  <1>6. ASSUME NEW at \in {"fetch", "undo"}, worker' = [worker EXCEPT ![w] = on(at)]
        PROVE  EngineInv'
    <2>1. worker'[w] = on(at)
      BY <1>1, <1>6, Knows
    <2>2. RemembersBase(w)' /\ KnowsTree(w)' /\ ReportsTrue(w)'
      BY <1>3, <1>5, <2>1 DEF RemembersBase, KnowsTree, ReportsTrue
    <2>3. on(at).at \in Locked
      BY <1>5 DEF Locked
    <2>4. QED
      BY <1>1, <1>2, <1>5, <1>6, <2>2, <2>3, HeldStep
  <1>7. ASSUME worker' = [worker EXCEPT ![w] = off] PROVE EngineInv'
    <2>1. worker'[w] = off
      BY <1>1, <1>7, Knows
    <2>2. RemembersBase(w)' /\ KnowsTree(w)' /\ ReportsTrue(w)'
      BY <1>3, <1>5, <2>1 DEF RemembersBase, KnowsTree, ReportsTrue
    <2>3. off.at \in Locked
      BY <1>5 DEF Locked
    <2>4. QED
      BY <1>1, <1>2, <1>5, <1>7, <2>2, <2>3, HeldStep
  <1>8. QED
    BY <1>4, <1>6, <1>7

\* Going on from one command to the next: fetch, reset, clean, the loads, a pipeline that
\* stops, the reset of a rollback.
LEMMA GoOnStep ==
  ASSUME EngineInv, NEW w \in Worker,
         \/ Fetch(w) \/ Reset(w) \/ Clean(w) \/ Load(w) \/ PipelineStops(w)
         \/ Undo(w) \/ UndoLoad(w)
  PROVE  EngineInv'
  <1>1. worker[w].at \in Locked /\ worker[w].at \notin {"prepared", "release"}
    BY DEF Fetch, Reset, Clean, Load, PipelineStops, Undo, UndoLoad, At, Locked
  <1>2. KnownInv'
    BY KnownStill, KnownMoving
  <1>3. UNCHANGED <<commits, lock>>
    BY DEF Fetch, Reset, Clean, Load, PipelineStops, Undo, UndoLoad
  <1>4. \A p \in Path : p # Here(w) => tree'[p] = tree[p] /\ built'[p] = built[p]
    BY <1>1, Knows DEF Fetch, Reset, Clean, Load, PipelineStops, Undo, UndoLoad, checkouts
  <1>5. CASE Conclude(w, "failed")
    BY <1>1, <1>2, <1>3, <1>4, <1>5, ConcludeFailed
  <1>6. ASSUME NEW at \in {"reset", "clean", "head", "undo"}, Goto(w, at) PROVE EngineInv'
    <2>1. at \in Locked
      BY DEF Locked
    <2>2. QED
      BY <1>1, <1>2, <1>3, <1>4, <1>6, <2>1, GotoHeld
  <1>7. CASE Load(w) /\ Goto(w, "pipeline")
    <2>1. worker[w].new = tree[Here(w)] /\ UNCHANGED tree
      BY <1>1, <1>7, Knows DEF Load, At, KnowsTree, checkouts
    <2>2. "pipeline" \in Locked
      BY DEF Locked
    <2>3. QED
      BY <1>1, <1>2, <1>3, <1>4, <1>7, <2>1, <2>2, GotoHeld
  <1>8. CASE Undo(w) /\ Goto(w, "undoClean")
    <2>1. tree'[Here(w)] = Target(w)
      BY <1>1, <1>8, Knows DEF Undo
    <2>2. "undoClean" \in Locked
      BY DEF Locked
    <2>3. QED
      BY <1>1, <1>2, <1>3, <1>4, <1>8, <2>1, <2>2, GotoHeld
  <1>9. CASE UndoLoad(w) /\ Goto(w, "undoPipeline")
    <2>1. tree'[Here(w)] = Target(w) /\ worker[w].new = Target(w)
      BY <1>1, <1>9, Knows DEF UndoLoad, At, KnowsTree, checkouts
    <2>2. "undoPipeline" \in Locked
      BY DEF Locked
    <2>3. QED
      BY <1>1, <1>2, <1>3, <1>4, <1>9, <2>1, <2>2, GotoHeld
  <1>10. QED
    BY <1>5, <1>6, <1>7, <1>8, <1>9
       DEF Fetch, Reset, Clean, Load, PipelineStops, Undo, UndoLoad

\* Reading HEAD after the pull, or naming the target after the clean of a rollback: what
\* will be reported is what the tree is.
LEMMA NameStep ==
  ASSUME EngineInv, NEW w \in Worker, ReadNew(w) \/ UndoClean(w)
  PROVE  EngineInv'
  <1>1. worker[w].at \in {"head", "undoClean"} /\ worker[w].at \in Locked
    BY DEF ReadNew, UndoClean, At, Locked
  <1>2. KnownInv' /\ UNCHANGED <<commits, tree, built, lock>>
    BY KnownStill DEF ReadNew, UndoClean, checkouts
  <1>3. worker[w].prev = worker[w].base
    BY <1>1, Knows DEF RemembersBase
  <1> DEFINE s(at, c) == [worker[w] EXCEPT !.at = at, !.new = c]
  <1>4. \A at, c : /\ s(at, c).at = at /\ s(at, c).new = c /\ s(at, c).job = worker[w].job
                   /\ s(at, c).path = worker[w].path /\ s(at, c).todo = worker[w].todo
                   /\ s(at, c).base = worker[w].base /\ s(at, c).prev = worker[w].prev
    BY <1>1, Knows DEF KnownRun
  <1>5. \/ worker' = [worker EXCEPT ![w] = s("load", tree[Here(w)])]
        \/ /\ worker' = [worker EXCEPT ![w] = s("undoLoad", Target(w))]
           /\ worker[w].at = "undoClean"
    BY <1>1, Knows DEF ReadNew, UndoClean, At
  <1> HIDE DEF s
  <1>6. CASE worker' = [worker EXCEPT ![w] = s("load", tree[Here(w)])]
    <2>1. worker'[w] = s("load", tree[Here(w)])
      BY <1>1, <1>6, Knows
    <2>2. Here(w)' = Here(w)
      BY <1>4, <2>1 DEF Here
    <2>3. RemembersBase(w)' /\ KnowsTree(w)' /\ ReportsTrue(w)'
      BY <1>2, <1>3, <1>4, <2>1, <2>2 DEF RemembersBase, KnowsTree, ReportsTrue
    <2> DEFINE t == s("load", tree[Here(w)])
    <2>4. /\ t.at = "load" /\ t.job = worker[w].job /\ t.path = worker[w].path
          /\ t.todo = worker[w].todo /\ t.base = worker[w].base
          /\ worker' = [worker EXCEPT ![w] = t]
      BY <1>4, <1>6
    <2> HIDE DEF t
    <2>5. t.at \in Locked
      BY <2>4 DEF Locked
    <2>6. QED
      BY <1>1, <1>2, <2>3, <2>4, <2>5, HeldStep
  <1>7. CASE /\ worker' = [worker EXCEPT ![w] = s("undoLoad", Target(w))]
             /\ worker[w].at = "undoClean"
    <2>1. worker'[w] = s("undoLoad", Target(w))
      BY <1>1, <1>7, Knows
    <2>2. Here(w)' = Here(w) /\ Target(w)' = Target(w)
      BY <1>4, <2>1 DEF Here, Target, IsRollback
    <2>3. tree[Here(w)] = Target(w)
      BY <1>1, <1>7, Knows DEF KnowsTree
    <2>4. RemembersBase(w)' /\ ReportsTrue(w)'
      BY <1>3, <1>4, <2>1 DEF RemembersBase, ReportsTrue
    <2>5. KnowsTree(w)'
      BY <1>2, <1>4, <2>1, <2>2, <2>3 DEF KnowsTree
    <2> DEFINE t == s("undoLoad", Target(w))
    <2>6. /\ t.at = "undoLoad" /\ t.job = worker[w].job /\ t.path = worker[w].path
          /\ t.todo = worker[w].todo /\ t.base = worker[w].base
          /\ worker' = [worker EXCEPT ![w] = t]
      BY <1>4, <1>7
    <2> HIDE DEF t
    <2>7. t.at \in Locked
      BY <2>6 DEF Locked
    <2>8. QED
      BY <1>1, <1>2, <2>4, <2>5, <2>6, <2>7, HeldStep
  <1>8. QED
    BY <1>5, <1>6, <1>7

\* A pipeline that ran to its end built the commit the run reports; one that ran after a
\* failed deploy built the commit the run began from.
LEMMA PassStep ==
  ASSUME EngineInv, NEW w \in Worker, Pipeline(w) \/ UndoPipeline(w)
  PROVE  EngineInv'
  <1>1. worker[w].at \in {"pipeline", "undoPipeline"} /\ worker[w].at \in Locked
    BY DEF Pipeline, UndoPipeline, At, Locked
  <1>2. KnownInv' /\ UNCHANGED <<commits, tree, lock>>
    BY KnownMoving DEF Pipeline, UndoPipeline
  <1>3. built' = [built EXCEPT ![Here(w)] = tree[Here(w)]]
    BY DEF Pipeline, UndoPipeline
  <1>4. worker[w].prev = worker[w].base /\ worker[w].new = tree[Here(w)]
    BY <1>1, Knows DEF RemembersBase, KnowsTree
  <1>5. PICK v \in Verdict :
          /\ Conclude(w, v)
          /\ v = "rolled_back" => UndoPipeline(w) /\ ~ IsRollback(w)
    BY DEF Pipeline, UndoPipeline, Verdict
  <1> DEFINE s == [worker[w] EXCEPT !.at = "release", !.verdict = v]
  <1>6. worker' = [worker EXCEPT ![w] = s]
    BY <1>5, Moves DEF EngineInv
  <1>7. /\ s.at = "release" /\ s.verdict = v /\ s.job = worker[w].job
        /\ s.path = worker[w].path /\ s.todo = worker[w].todo /\ s.base = worker[w].base
        /\ s.prev = worker[w].prev /\ s.new = worker[w].new
    BY <1>1, Knows DEF KnownRun
  <1> HIDE DEF s
  <1>8. worker'[w] = s /\ Here(w)' = Here(w)
    BY <1>1, <1>6, <1>7, Knows DEF Here
  <1>9. RemembersBase(w)' /\ KnowsTree(w)'
    BY <1>4, <1>7, <1>8 DEF RemembersBase, KnowsTree
  <1>10. v = "rolled_back" => tree[Here(w)] = worker[w].base
    BY <1>1, <1>4, <1>5, Knows DEF KnowsTree, UndoPipeline, At, Target
  <1>11. built'[Here(w)] = tree[Here(w)]
    BY <1>1, <1>3, Knows
  <1>12. ReportsTrue(w)'
    BY <1>2, <1>4, <1>7, <1>8, <1>10, <1>11 DEF ReportsTrue
  <1>13. s.at \in Locked
    BY <1>7 DEF Locked
  <1>14. \A p \in Path : p # Here(w) => tree'[p] = tree[p] /\ built'[p] = built[p]
    BY <1>1, <1>2, <1>3, Knows
  <1>15. QED
    BY <1>1, <1>2, <1>6, <1>7, <1>9, <1>12, <1>13, <1>14, HeldStep

\* A run that begins holds nothing and has chosen nothing.
LEMMA ArrivalStep ==
  ASSUME EngineInv, NEW w \in Worker, Arrival(w)
  PROVE  EngineInv'
  <1>1. KnownInv' /\ UNCHANGED <<commits, tree, built, lock>>
    BY KnownArrival DEF EngineInv, checkouts
  <1>2. PICK job \in KnownJob :
          worker' = [worker EXCEPT ![w] = [NoRun EXCEPT !.at = "scan", !.job = job]]
    BY KnownArrival DEF EngineInv
  <1>3. [NoRun EXCEPT !.at = "scan", !.job = job].at = "scan"
    BY NoRunIsARun DEF KnownRun
  <1>4. QED
    BY <1>1, <1>2, <1>3, UnheldStep DEF Locked

\* A push only adds a commit: no run, lock or tree changes.
LEMMA PushStep ==
  ASSUME EngineInv, NEW b \in Branch, NEW m \in Manifests, Push(b, m)
  PROVE  EngineInv'
  <1>1. KnownInv' /\ DOMAIN commits \subseteq DOMAIN commits'
    BY KnownPush DEF EngineInv
  <1>2. UNCHANGED <<tree, built, lock, worker>>
    BY DEF Push, checkouts
  <1>3. ScopeInv'
    BY <1>2 DEF EngineInv, ScopeInv, ChoseInScope, Here, IsRollback
  <1>4. ASSUME NEW v \in Worker, worker[v].at \in Locked PROVE UnderLock(v)'
    <2>1. UnderLock(v)
      BY <1>4 DEF EngineInv, LockInv
    <2>2. HoldsLock(v)' /\ RemembersBase(v)' /\ ReportsTrue(v)'
      BY <1>1, <1>2, <2>1 DEF UnderLock, HoldsLock, RemembersBase, ReportsTrue, Here
    <2>3. KnowsTree(v)'
      BY <1>2, <2>1 DEF UnderLock, KnowsTree, Here, Target, IsRollback
    <2>4. QED
      BY <2>2, <2>3 DEF UnderLock
  <1>5. LockInv'
    BY <1>2, <1>4 DEF LockInv
  <1>6. QED
    BY <1>1, <1>3, <1>5 DEF EngineInv

\* A cancellation changes nothing but the context.
LEMMA CancelStep ==
  ASSUME EngineInv, NEW w \in Worker, Cancel(w)
  PROVE  EngineInv'
  <1>1. KnownInv' /\ UNCHANGED <<commits, tree, built, lock>>
    BY KnownDisturbed DEF Cancel, checkouts
  <1>2. worker[w] \in KnownRun /\ worker \in [Worker -> KnownRun]
    BY DEF EngineInv, KnownInv
  <1> DEFINE s == [worker[w] EXCEPT !.cancelled = TRUE]
  <1>3. worker' = [worker EXCEPT ![w] = s]
    BY <1>2 DEF Cancel
  <1>4. /\ s.at = worker[w].at /\ s.job = worker[w].job /\ s.path = worker[w].path
        /\ s.todo = worker[w].todo /\ s.base = worker[w].base /\ s.prev = worker[w].prev
        /\ s.new = worker[w].new /\ s.verdict = worker[w].verdict
    BY <1>2 DEF KnownRun
  <1> HIDE DEF s
  <1>5. worker'[w] = s /\ Here(w)' = Here(w) /\ Target(w)' = Target(w)
    BY <1>2, <1>3, <1>4 DEF Here, Target, IsRollback
  <1>6. ChoseInScope(w) => ChoseInScope(w)'
    BY <1>4, <1>5 DEF ChoseInScope, IsRollback
  <1>7. CASE worker[w].at \in Locked
    <2>1. RemembersBase(w) /\ KnowsTree(w) /\ ReportsTrue(w)
      BY <1>7 DEF EngineInv, LockInv, UnderLock
    <2>2. RemembersBase(w)'
      BY <1>1, <1>4, <1>5, <2>1 DEF RemembersBase
    <2>3. KnowsTree(w)' /\ ReportsTrue(w)'
      BY <1>1, <1>4, <1>5, <2>1 DEF KnowsTree, ReportsTrue
    <2>4. QED
      BY <1>1, <1>3, <1>4, <1>7, <2>2, <2>3, HeldStep
  <1>8. CASE worker[w].at \notin Locked
    <2>1. /\ s.at \notin {"idle", "scan"} => s.todo \subseteq s.job.within
          /\ s.at = "lock" => ChoseInScope(w)'
      BY <1>4, <1>6 DEF EngineInv, ScopeInv
    <2>2. QED
      BY <1>1, <1>3, <1>4, <1>8, <2>1, UnheldStep
  <1>9. QED
    BY <1>7, <1>8

\* What a kill may move: the checkout whose lock the killed run held, and nothing else.
LEMMA KillTouches ==
  ASSUME EngineInv, NEW w \in Worker, Kill(w), NEW p \in Path, tree'[p] # tree[p]
  PROVE  /\ worker[w].at \in {"reset", "undo"} /\ p = Here(w)
         /\ tree'[p] \in {Upstream(w), Target(w)}
  <1>1. tree \in [Path -> DOMAIN commits]
    BY DEF EngineInv, KnownInv, WorldInv
  <1>2. QED
    BY <1>1 DEF Kill, At

\* A killed run leaves its lock to whoever comes next, and what the others know alone.
LEMMA KillStep ==
  ASSUME EngineInv, NEW w \in Worker, Kill(w)
  PROVE  EngineInv'
  <1>1. KnownInv' /\ UNCHANGED <<commits, built>>
    BY KnownDisturbed DEF Kill
  <1>2. worker' = [worker EXCEPT ![w] = NoRun] /\ NoRun.at = "idle"
    BY DEF Kill, NoRun
  <1>3. ASSUME NEW p \in Path, lock[p] \in Worker \ {w}
        PROVE  lock'[p] = lock[p] /\ tree'[p] = tree[p]
    <2>1. lock'[p] = lock[p]
      BY <1>3 DEF Kill
    <2>2. ASSUME tree'[p] # tree[p] PROVE FALSE
      <3>1. worker[w].at \in Locked /\ p = Here(w)
        BY <2>2, KillTouches DEF Locked
      <3>2. lock[p] = w
        BY <3>1 DEF EngineInv, LockInv, UnderLock, HoldsLock
      <3>3. QED
        BY <1>3, <3>2
    <2>3. QED
      BY <2>1, <2>2
  <1>4. QED
    BY <1>1, <1>2, <1>3, UnheldStep DEF Locked

-----------------------------------------------------------------------------
(* The invariant and the theorems. *)

\* At the start nobody holds a lock.
LEMMA EngineStart == Init => EngineInv
  <1> SUFFICES ASSUME Init PROVE EngineInv
    OBVIOUS
  <1>1. \A w \in Worker : worker[w].at = "idle"
    BY DEF Init, NoRun
  <1>2. QED
    BY <1>1, KnownInit DEF EngineInv, ScopeInv, LockInv, Locked

\* Every step of every run, and of what comes from outside, keeps the invariant.
LEMMA EngineStep == EngineInv /\ [Next]_vars => EngineInv'
  <1> SUFFICES ASSUME EngineInv, [Next]_vars PROVE EngineInv'
    OBVIOUS
  <1>1. ASSUME NEW w \in Worker, Engine(w) PROVE EngineInv'
    BY <1>1, LoopStep, LockStep, FailStep, ReadPreviousStep, GoOnStep, NameStep, PassStep
       DEF Engine
  <1>2. ASSUME NEW w \in Worker, Arrival(w) \/ Cancel(w) \/ Kill(w) PROVE EngineInv'
    BY <1>2, ArrivalStep, CancelStep, KillStep
  <1>3. ASSUME NEW b \in Branch, NEW m \in Manifests, Push(b, m) PROVE EngineInv'
    BY <1>3, PushStep
  <1>4. CASE UNCHANGED vars
    <2>1. UNCHANGED <<commits, tracking, tree, built, lock, worker, recorded, begun>>
      BY <1>4 DEF vars, checkouts
    <2>2. UNCHANGED <<started, faults, disturbances>>
      BY <1>4 DEF vars, counts
    <2>3. KnownInv'
      BY <2>1, <2>2 DEF EngineInv, KnownInv, WorldInv, CountsInv, KnownRun, KnownJob,
                        KnownResult, KnownSHA
    <2>4. ScopeInv'
      BY <2>1 DEF EngineInv, ScopeInv, ChoseInScope, Here, IsRollback
    <2>5. LockInv'
      BY <2>1 DEF EngineInv, LockInv, UnderLock, HoldsLock, RemembersBase, KnowsTree,
                  ReportsTrue, Here, Target, IsRollback
    <2>6. QED
      BY <2>3, <2>4, <2>5 DEF EngineInv
  <1>5. QED
    BY <1>1, <1>2, <1>3, <1>4 DEF Next

\* The invariant of the engine: what a run relies on under its lock stays true, whatever
\* pushes, other runs, cancellations and kills do in between (deployPath, rollbackPath).
THEOREM EngineInvariant == Spec => []EngineInv
  <1>1. Init => EngineInv
    BY EngineStart
  <1>2. EngineInv /\ [Next]_vars => EngineInv'
    BY EngineStep
  <1>3. QED
    BY <1>1, <1>2, PTL DEF Spec

\* Types: every SHA a run, a row or a checkout holds is a commit GitHub has.
THEOREM CheckoutTypes == Spec => []TypeOK
  <1>1. EngineInv => TypeOK
    BY KnownIsTyped DEF EngineInv
  <1>2. QED
    BY <1>1, EngineInvariant, PTL

\* A success or a rolled_back that deployPath or rollbackPath returns is true of the tree
\* and of what was built there, for any number of runs, checkouts and faults.
THEOREM VerdictsAreTrue == Spec => []VerdictIsTrue
  <1>1. EngineInv => VerdictIsTrue
    <2>1. "release" \in Locked
      BY DEF Locked
    <2>2. QED
      BY <2>1 DEF EngineInv, LockInv, UnderLock, ReportsTrue, VerdictIsTrue, At
  <1>2. QED
    BY <1>1, EngineInvariant, PTL

\* A path left on another commit than it was found on is reported with the commit it was
\* found on, on every way out of deployPath and rollbackPath: it can be rolled back.
THEOREM MovesAreReported == Spec => []MoveIsReported
  <1>1. EngineInv => MoveIsReported
    <2>1. "release" \in Locked
      BY DEF Locked
    <2>2. ASSUME EngineInv, NEW w \in Worker, At(w, "release"), tree[Here(w)] # worker[w].base
          PROVE  worker[w].prev = worker[w].base
      <3>1. RemembersBase(w)
        BY <2>1, <2>2 DEF EngineInv, LockInv, UnderLock, At
      <3>2. QED
        BY <2>2, <3>1 DEF RemembersBase, At
    <2>3. QED
      BY <2>2 DEF MoveIsReported
  <1>2. QED
    BY <1>1, EngineInvariant, PTL

\* Only the holder of a checkout's lock moves its tree, within its job and its branch, and
\* only to what it fetched, found, or was told to go back to.
THEOREM TreesMoveInScope == Spec => MovesInScope
  <1> DEFINE Scoped ==
        \A p \in Path : tree'[p] # tree[p] =>
          \E w \in Worker :
             /\ lock[p] = w
             /\ p \in worker[w].job.within
             /\ worker[w].job.branch \in {NoBranch, BranchOf[p]}
             /\ tree'[p] \in {tracking[p], worker[w].base, worker[w].job.targets[p]}
  <1>1. EngineInv /\ [Next]_vars => Scoped
    <2> SUFFICES ASSUME EngineInv, [Next]_vars, NEW p \in Path, tree'[p] # tree[p]
                 PROVE  \E w \in Worker :
                          /\ lock[p] = w
                          /\ p \in worker[w].job.within
                          /\ worker[w].job.branch \in {NoBranch, BranchOf[p]}
                          /\ tree'[p] \in {tracking[p], worker[w].base,
                                           worker[w].job.targets[p]}
      OBVIOUS
    <2>1. tree \in [Path -> DOMAIN commits]
      BY DEF EngineInv, KnownInv, WorldInv
    <2>2. PICK w \in Worker :
            \/ Reset(w) \/ ResetFails(w) \/ Undo(w) \/ UndoFails(w) \/ Kill(w)
      <3>1. tree' # tree
        OBVIOUS
      <3>2. ASSUME NEW w \in Worker, Engine(w)
            PROVE  Reset(w) \/ ResetFails(w) \/ Undo(w) \/ UndoFails(w)
        BY <3>1, <3>2
           DEF Engine, Scan, End, Acquire, GiveUp, Release, Choose, StepFails, Refuse,
               ReadPrevious, Fetch, FetchFails, Clean, ReadNew, Load, Pipeline,
               PipelineStops, UndoClean, UndoLoad, UndoPipeline, UndoPipelineStops, checkouts
      <3>3. ASSUME NEW w \in Worker PROVE ~ Arrival(w) /\ ~ Cancel(w)
        BY <3>1 DEF Arrival, BeginPush, BeginByHand, BeginRollback, Begin, Cancel, checkouts
      <3>4. ~ UNCHANGED vars /\ \A b \in Branch, m \in Manifests : ~ Push(b, m)
        BY <3>1 DEF vars, checkouts, Push
      <3>5. QED
        BY <3>2, <3>3, <3>4 DEF Next
    <2>3. /\ worker[w].at \in {"reset", "undo"} /\ p = Here(w)
          /\ tree'[p] \in {Upstream(w), Target(w)}
      <3>1. CASE Kill(w)
        BY <3>1, KillTouches
      <3>2. CASE Reset(w) \/ ResetFails(w) \/ Undo(w) \/ UndoFails(w)
        BY <2>1, <3>2 DEF Reset, ResetFails, Undo, UndoFails, At
      <3>3. QED
        BY <2>2, <3>1, <3>2
    <2>4. UnderLock(w) /\ ChoseInScope(w)
      BY <2>3 DEF EngineInv, LockInv, ScopeInv, Locked
    <2>5. Target(w) \in {worker[w].base, worker[w].job.targets[p]}
      BY <2>3, <2>4 DEF UnderLock, RemembersBase, Target
    <2>6. QED
      BY <2>3, <2>4, <2>5 DEF UnderLock, HoldsLock, ChoseInScope, Upstream
  <1>2. QED
    BY <1>1, EngineInvariant, PTL DEF Spec, MovesInScope

-----------------------------------------------------------------------------
(* What an interrupted deploy leaves. *)

\* The deploy of w reset the tree to a commit whose manifest wants it put back when its
\* pipeline stops, and it came from a commit that can be built.
MustUndo(w) ==
    /\ worker[w].job.kind \in {"push", "manual"}
    /\ worker[w].new # 0
    /\ ManifestOf(worker[w].base).file = "ok"
    /\ ManifestOf(worker[w].new).file = "ok" /\ ManifestOf(worker[w].new).rollback

\* Until HEAD is read after the reset there is no new commit, so nothing was promised.
KeepsPromise(w) ==
    /\ worker[w].at \in {"prepared", "fetch", "reset", "clean", "head"} => worker[w].new = 0
    /\ worker[w].at = "release" /\ MustUndo(w) =>
          worker[w].verdict \in {"success", "rolled_back"} \/ faults > 0

PromiseInv == \A w \in Worker : KeepsPromise(w)

\* GitHub's commits are pushed there, and by nothing else.
LEMMA CommitsStay ==
  ASSUME NEW w \in Worker, Engine(w) \/ Arrival(w) \/ Cancel(w) \/ Kill(w)
  PROVE  UNCHANGED commits
  BY DEF Engine, Scan, End, Acquire, GiveUp, Release, Choose, StepFails, Refuse,
       ReadPrevious, Fetch, FetchFails, Reset, ResetFails, Clean, ReadNew, Load, Pipeline,
       PipelineStops, Undo, UndoFails, UndoClean, UndoLoad, UndoPipeline, UndoPipelineStops,
       Arrival, BeginPush, BeginByHand, BeginRollback, Begin, Cancel, Kill

\* A fault is not forgotten, and a command that fails outside an interruption is one.
LEMMA FaultsStay ==
  ASSUME EngineInv
  PROVE  /\ faults \in Nat
         /\ [Next]_vars /\ faults > 0 => faults' > 0
         /\ \A w \in Worker : CommandFails(w) /\ ~ Interrupted(w) => faults' > 0
  <1>1. faults \in Nat
    BY CheckoutAssumption DEF EngineInv, KnownInv, CountsInv
  <1>2. \A w \in Worker : CommandFails(w) /\ ~ Interrupted(w) => faults' > 0
    BY <1>1 DEF CommandFails
  <1>3. ASSUME [Next]_vars PROVE faults' = faults \/ faults' = faults + 1
    <2>1. ASSUME NEW w \in Worker, Engine(w) PROVE faults' = faults \/ faults' = faults + 1
      <3>1. CASE Scan(w) \/ End(w) \/ Acquire(w) \/ Release(w) \/ \E p \in Path : Choose(w, p)
        BY <3>1 DEF Scan, End, Acquire, Release, Choose, counts
      <3>2. CASE \/ StepFails(w) \/ FetchFails(w) \/ ResetFails(w) \/ PipelineStops(w)
                 \/ UndoFails(w) \/ UndoPipelineStops(w) \/ GiveUp(w)
        BY <3>2 DEF StepFails, FetchFails, ResetFails, PipelineStops, UndoFails,
                    UndoPipelineStops, GiveUp, PipelineFails, CommandFails
      <3>3. CASE \/ Refuse(w) \/ ReadPrevious(w) \/ Fetch(w) \/ Reset(w) \/ Clean(w)
                 \/ ReadNew(w) \/ Load(w) \/ Pipeline(w) \/ Undo(w) \/ UndoClean(w)
                 \/ UndoLoad(w) \/ UndoPipeline(w)
        BY <3>3 DEF Refuse, ReadPrevious, Fetch, Reset, Clean, ReadNew, Load, Pipeline, Undo,
                    UndoClean, UndoLoad, UndoPipeline, counts
      <3>4. QED
        BY <2>1, <3>1, <3>2, <3>3 DEF Engine
    <2>2. ASSUME NEW w \in Worker, Arrival(w) \/ Cancel(w) \/ Kill(w) PROVE faults' = faults
      BY <2>2 DEF Arrival, BeginPush, BeginByHand, BeginRollback, Begin, Cancel, Kill
    <2>3. ASSUME NEW b \in Branch, NEW m \in Manifests, Push(b, m) PROVE faults' = faults
      BY <2>3 DEF Push, counts
    <2>4. UNCHANGED vars => faults' = faults
      BY DEF vars, counts
    <2>5. QED
      BY <1>3, <2>1, <2>2, <2>3, <2>4 DEF Next
  <1>4. QED
    BY <1>1, <1>2, <1>3

\* A run that does not move keeps its promise: the commits it names stay what they are.
LEMMA PromiseFrame ==
  ASSUME EngineInv, [Next]_vars, NEW w \in Worker, KeepsPromise(w), worker'[w] = worker[w],
         \A c \in DOMAIN commits : commits'[c] = commits[c]
  PROVE  KeepsPromise(w)'
  <1>1. worker[w].new \in DOMAIN commits \cup {0}
    BY DEF EngineInv, KnownInv, KnownRun, KnownSHA
  <1>2. worker[w].at = "release" => worker[w].base \in DOMAIN commits
    BY DEF EngineInv, LockInv, UnderLock, HoldsLock, Locked
  <1>3. worker[w].at = "release" /\ MustUndo(w)' => MustUndo(w)
    BY <1>1, <1>2 DEF MustUndo, ManifestOf
  <1>4. faults > 0 => faults' > 0
    BY FaultsStay
  <1>5. QED
    BY <1>3, <1>4 DEF KeepsPromise

\* A run outside the lock has promised nothing, nor has one that just took it.
LEMMA PromiseOutside ==
  ASSUME EngineInv, NEW w \in Worker,
         \/ Scan(w) \/ End(w) \/ Acquire(w) \/ GiveUp(w) \/ Release(w)
         \/ \E p \in Path : Choose(w, p)
         \/ Arrival(w) \/ Kill(w)
  PROVE  KeepsPromise(w)'
  <1>1. worker \in [Worker -> KnownRun] /\ worker[w] \in KnownRun
    BY DEF EngineInv, KnownInv
  <1>2. \/ worker'[w].at = "prepared" /\ worker'[w].new = 0
        \/ worker'[w].at \in Unlocked
    <2>1. CASE Acquire(w)
      BY <1>1, <2>1 DEF Acquire, KnownRun
    <2>2. CASE Scan(w) \/ End(w)
      <3>1. worker'[w].at \in {"idle", "choose"}
        <4>1. CASE Scan(w)
          <5>1. \/ worker' = [worker EXCEPT ![w].at = "idle", ![w].status = "failed"]
                \/ \E found, sick : worker' = [worker EXCEPT ![w].at = "choose",
                                                 ![w].todo = found, ![w].sick = sick]
            BY <4>1 DEF Scan
          <5>2. CASE worker' = [worker EXCEPT ![w].at = "idle", ![w].status = "failed"]
            BY <1>1, <5>2 DEF KnownRun
          <5>3. ASSUME NEW found, NEW sick,
                       worker' = [worker EXCEPT ![w].at = "choose", ![w].todo = found,
                                                ![w].sick = sick]
                PROVE  worker'[w].at = "choose"
            BY <1>1, <5>3 DEF KnownRun
          <5>4. QED
            BY <5>1, <5>2, <5>3
        <4>2. CASE End(w)
          <5>1. \E v : worker' = [worker EXCEPT ![w].at = "idle", ![w].status = v]
            BY <4>2 DEF End
          <5>2. QED
            BY <1>1, <5>1 DEF KnownRun
        <4>3. QED
          BY <2>2, <4>1, <4>2
      <3>2. QED
        BY <3>1 DEF Unlocked
    <2>3. CASE GiveUp(w) \/ Release(w)
      <3>1. worker'[w].at = "choose"
        BY <1>1, <2>3 DEF GiveUp, Release, KnownRun
      <3>2. QED
        BY <3>1 DEF Unlocked
    <2>4. ASSUME NEW p \in Path, Choose(w, p) PROVE worker'[w].at \in Unlocked
      BY <1>1, <2>4 DEF Choose, KnownRun, Unlocked, At
    <2>5. CASE Arrival(w)
      <3>1. PICK job \in KnownJob :
              worker' = [worker EXCEPT ![w] = [NoRun EXCEPT !.at = "scan", !.job = job]]
        BY <2>5, KnownArrival DEF EngineInv
      <3>2. worker'[w].at = "scan"
        BY <1>1, <3>1 DEF NoRun
      <3>3. QED
        BY <3>2 DEF Unlocked
    <2>6. CASE Kill(w)
      BY <1>1, <2>6 DEF Kill, NoRun, Unlocked
    <2>7. QED
      BY <2>1, <2>2, <2>3, <2>4, <2>5, <2>6
  <1>3. QED
    BY <1>2 DEF KeepsPromise, Unlocked

\* Up to the second read of HEAD nothing is promised, whatever fails.
LEMMA PromiseBeforeHead ==
  ASSUME EngineInv, NEW w \in Worker, KeepsPromise(w),
         worker[w].at \in {"prepared", "fetch", "reset", "clean", "head"},
         \/ StepFails(w) \/ Refuse(w) \/ ReadPrevious(w) \/ Fetch(w) \/ FetchFails(w)
         \/ Reset(w) \/ ResetFails(w) \/ Clean(w)
  PROVE  KeepsPromise(w)'
  <1>1. worker \in [Worker -> KnownRun] /\ worker[w] \in KnownRun /\ worker[w].new = 0
    BY DEF EngineInv, KnownInv, KeepsPromise
  <1>2. worker'[w].new = 0
    <2>1. ASSUME NEW v, Conclude(w, v) PROVE worker'[w].new = 0
      BY <1>1, <2>1 DEF Conclude, KnownRun
    <2>2. ASSUME NEW at, Goto(w, at) PROVE worker'[w].new = 0
      BY <1>1, <2>2 DEF Goto, KnownRun
    <2>3. ASSUME ReadPrevious(w) PROVE worker'[w].new = 0
      BY <1>1, <2>3 DEF ReadPrevious, Prepared, KnownRun
    <2>4. QED
      BY <2>1, <2>2, <2>3 DEF StepFails, Refuse, Fetch, FetchFails, Reset, ResetFails, Clean
  <1>3. QED
    BY <1>2 DEF KeepsPromise, MustUndo

\* From there to the end of the deploy's pipeline: it passes, it stops and is to be undone,
\* or there was nothing to undo it for.
LEMMA PromiseOfPipeline ==
  ASSUME EngineInv, NEW w \in Worker,
         ReadNew(w) \/ Load(w) \/ Pipeline(w) \/ PipelineStops(w)
  PROVE  KeepsPromise(w)'
  <1>1. worker[w].at \in {"head", "load", "pipeline"} /\ worker[w].at \in Locked
    BY DEF ReadNew, Load, Pipeline, PipelineStops, At, Locked
  <1>2. worker \in [Worker -> KnownRun] /\ worker[w] \in KnownRun /\ UNCHANGED commits
    BY <1>1, Knows DEF ReadNew, Load, Pipeline, PipelineStops
  <1>3. worker[w].at \in {"load", "pipeline"} => worker[w].new = tree[Here(w)]
    BY <1>1, Knows DEF KnowsTree
  <1>4. ASSUME NEW at \in {"load", "pipeline", "undo"}, worker'[w].at = at
        PROVE  KeepsPromise(w)'
    BY <1>4 DEF KeepsPromise
  <1>5. ASSUME NEW v \in Verdict, Conclude(w, v)
        PROVE  /\ worker'[w].at = "release" /\ worker'[w].verdict = v
               /\ worker'[w].job = worker[w].job /\ worker'[w].new = worker[w].new
    BY <1>2, <1>5 DEF Conclude, KnownRun
  <1>6. CASE ReadNew(w)
    BY <1>2, <1>4, <1>6 DEF ReadNew, KnownRun
  <1>7. ASSUME NEW at \in {"pipeline", "undo"}, Goto(w, at) PROVE KeepsPromise(w)'
    BY <1>2, <1>4, <1>7 DEF Goto, KnownRun
  <1>8. CASE Load(w) /\ Conclude(w, "failed") /\ ManifestOf(tree[Here(w)]).file # "ok"
    <2>1. ~ MustUndo(w)'
      BY <1>2, <1>3, <1>5, <1>8 DEF MustUndo, ManifestOf, Load, At, Verdict
    <2>2. QED
      BY <1>5, <1>8, <2>1 DEF KeepsPromise, Verdict
  <1>9. CASE Pipeline(w)
    <2>1. CASE SetupIsMissing(w)
      BY <1>5, <1>9, <2>1 DEF Pipeline, SetupIsMissing, IsSetup, KeepsPromise, MustUndo, Verdict
    <2>2. CASE ~ SetupIsMissing(w)
      BY <1>5, <1>9, <2>2 DEF Pipeline, KeepsPromise, Verdict
    <2>3. QED
      BY <2>1, <2>2
  <1>10. CASE /\ PipelineStops(w) /\ Conclude(w, "failed")
              /\ IsSetup(w) \/ ~ ManifestOf(tree[Here(w)]).rollback
    <2>1. ~ MustUndo(w)'
      BY <1>2, <1>3, <1>5, <1>10 DEF MustUndo, ManifestOf, PipelineStops, At, IsSetup, Verdict
    <2>2. QED
      BY <1>5, <1>10, <2>1 DEF KeepsPromise, Verdict
  <1>11. QED
    BY <1>1, <1>6, <1>7, <1>8, <1>9, <1>10 DEF Load, PipelineStops

\* The rollback of a deploy is out of reach of what interrupted the deploy: it stops on a
\* fault, or because the commit the run began from cannot be built.
LEMMA PromiseOfUndo ==
  ASSUME EngineInv, NEW w \in Worker,
         \/ StepFails(w) /\ worker[w].at = "undoClean"
         \/ Undo(w) \/ UndoFails(w) \/ UndoClean(w) \/ UndoLoad(w)
         \/ UndoPipeline(w) \/ UndoPipelineStops(w)
  PROVE  KeepsPromise(w)'
  <1>1. /\ worker[w].at \in {"undo", "undoClean", "undoLoad", "undoPipeline"}
        /\ worker[w].at \in Locked
    BY DEF Undo, UndoFails, UndoClean, UndoLoad, UndoPipeline, UndoPipelineStops, At, Locked
  <1>2. worker \in [Worker -> KnownRun] /\ worker[w] \in KnownRun
    BY <1>1, Knows
  <1>3. UNCHANGED commits
    BY DEF StepFails, Undo, UndoFails, UndoClean, UndoLoad, UndoPipeline, UndoPipelineStops
  <1>4. ASSUME Goto(w, "undoClean") \/ UndoClean(w) \/ Goto(w, "undoPipeline")
        PROVE  KeepsPromise(w)'
    <2>1. worker'[w].at \in {"undoClean", "undoLoad", "undoPipeline"}
      BY <1>2, <1>4 DEF Goto, UndoClean, KnownRun
    <2>2. QED
      BY <2>1 DEF KeepsPromise
  <1>5. ASSUME NEW v \in Verdict, Conclude(w, v)
        PROVE  /\ worker'[w].at = "release" /\ worker'[w].verdict = v
               /\ worker'[w].job = worker[w].job /\ worker'[w].base = worker[w].base
    BY <1>2, <1>5 DEF Conclude, KnownRun
  <1>6. MustUndo(w)' /\ Conclude(w, "failed") => ~ IsRollback(w)
    BY <1>5 DEF MustUndo, IsRollback, Verdict
  <1>7. CASE CommandFails(w) /\ Conclude(w, "failed")
    <2>1. ~ IsRollback(w) => faults' > 0
      BY <1>1, <1>7, FaultsStay DEF Interrupted
    <2>2. QED
      BY <1>5, <1>6, <1>7, <2>1 DEF KeepsPromise, Verdict
  <1>8. CASE UndoLoad(w) /\ Conclude(w, "failed") /\ ManifestOf(tree[Here(w)]).file # "ok"
    <2>1. tree[Here(w)] = Target(w) /\ worker[w].prev = worker[w].base
      BY <1>1, <1>8, Knows DEF KnowsTree, RemembersBase, UndoLoad, At
    <2>2. ~ MustUndo(w)'
      BY <1>3, <1>5, <1>6, <1>8, <2>1 DEF MustUndo, ManifestOf, Target, Verdict
    <2>3. QED
      BY <1>5, <1>8, <2>2 DEF KeepsPromise, Verdict
  <1>9. CASE UndoPipeline(w)
    BY <1>5, <1>9 DEF UndoPipeline, KeepsPromise, Verdict
  <1>10. QED
    BY <1>4, <1>7, <1>8, <1>9
       DEF StepFails, Undo, UndoFails, UndoLoad, UndoPipelineStops, PipelineFails

\* Every step keeps every run's promise.
LEMMA PromiseStep == EngineInv /\ PromiseInv /\ [Next]_vars => PromiseInv'
  <1> SUFFICES ASSUME EngineInv, PromiseInv, [Next]_vars, NEW v \in Worker
               PROVE  KeepsPromise(v)'
    BY DEF PromiseInv
  <1>1. KeepsPromise(v) /\ worker \in [Worker -> KnownRun]
    BY DEF PromiseInv, EngineInv, KnownInv
  <1>2. ASSUME NEW w \in Worker, Engine(w) \/ Arrival(w) \/ Kill(w), v # w
        PROVE  KeepsPromise(v)'
    <2>1. UNCHANGED commits
      BY <1>2, CommitsStay
    <2>2. worker'[v] = worker[v]
      BY <1>1, <1>2
         DEF Engine, Scan, End, Acquire, GiveUp, Release, Choose, StepFails, Refuse,
           ReadPrevious, Prepared, Fetch, FetchFails, Reset, ResetFails, Clean, ReadNew, Load,
           Pipeline, PipelineStops, Undo, UndoFails, UndoClean, UndoLoad, UndoPipeline,
           UndoPipelineStops, Goto, Conclude,
           Arrival, BeginPush, BeginByHand, BeginRollback, Begin, Kill
    <2>3. QED
      BY <1>1, <2>1, <2>2, PromiseFrame
  <1>3. CASE Engine(v)
    <2>1. StepFails(v) => worker[v].at \in {"prepared", "clean", "head", "undoClean"}
      BY DEF StepFails
    <2>2. /\ Refuse(v) \/ ReadPrevious(v) => worker[v].at = "prepared"
          /\ Fetch(v) \/ FetchFails(v) => worker[v].at = "fetch"
          /\ Reset(v) \/ ResetFails(v) => worker[v].at = "reset"
          /\ Clean(v) => worker[v].at = "clean"
      BY DEF Refuse, ReadPrevious, Fetch, FetchFails, Reset, ResetFails, Clean, At
    <2>3. QED
      BY <1>1, <1>3, <2>1, <2>2, PromiseOutside, PromiseBeforeHead, PromiseOfPipeline,
         PromiseOfUndo DEF Engine
  <1>4. CASE Arrival(v) \/ Kill(v)
    BY <1>4, PromiseOutside
  <1>5. ASSUME NEW w \in Worker, Cancel(w) PROVE KeepsPromise(v)'
    <2>1. UNCHANGED <<commits, faults>>
      BY <1>5 DEF Cancel
    <2>2. /\ worker'[v].at = worker[v].at /\ worker'[v].job = worker[v].job
          /\ worker'[v].new = worker[v].new /\ worker'[v].base = worker[v].base
          /\ worker'[v].verdict = worker[v].verdict
      BY <1>1, <1>5 DEF Cancel, KnownRun
    <2>3. QED
      BY <1>1, <2>1, <2>2 DEF KeepsPromise, MustUndo, ManifestOf
  <1>6. ASSUME NEW b \in Branch, NEW m \in Manifests, Push(b, m) PROVE KeepsPromise(v)'
    <2>1. commits \in Seq(Pushed) /\ worker' = worker
      BY <1>6 DEF Push, EngineInv, KnownInv, WorldInv
    <2>2. \A c \in DOMAIN commits : commits'[c] = commits[c]
      BY <1>6, <2>1 DEF Push
    <2>3. QED
      BY <1>1, <2>1, <2>2, PromiseFrame
  <1>7. CASE UNCHANGED vars
    BY <1>1, <1>7, PromiseFrame DEF vars
  <1>8. QED
    BY <1>2, <1>3, <1>4, <1>5, <1>6, <1>7 DEF Next

\* A deploy that is interrupted while its pipeline runs ends on the commit it began from,
\* where the manifest that came with the tree asks for it: deployPath's rollback runs on a
\* context of its own, so that from the pipeline on only a command failing by itself can
\* leave the tree behind.
THEOREM InterruptedAreUndone == Spec => []InterruptedIsUndone
  <1>1. Init => PromiseInv
    BY DEF Init, PromiseInv, KeepsPromise, NoRun
  <1>2. PromiseInv => InterruptedIsUndone
    BY DEF PromiseInv, KeepsPromise, MustUndo, InterruptedIsUndone, At
  <1>3. EngineInv /\ PromiseInv /\ [Next]_vars => PromiseInv'
    BY PromiseStep
  <1>4. QED
    BY <1>1, <1>2, <1>3, EngineInvariant, PTL DEF Spec

-----------------------------------------------------------------------------
(* What a push delivers. *)

\* The head of a branch is no older than any commit of it.
LEMMA TipIsNewest ==
  ASSUME commits \in Seq(Pushed), NEW c \in DOMAIN commits
  PROVE  LET b == commits[c].branch
         IN Tip(b) \in DOMAIN commits /\ commits[Tip(b)].branch = b /\ c <= Tip(b)
  <1> DEFINE b == commits[c].branch
             S == {d \in DOMAIN commits : commits[d].branch = b}
  <1>1. S \in SUBSET (1 .. Len(commits)) /\ Len(commits) \in Nat /\ c \in S
    OBVIOUS
  <1>2. Max(S) \in S /\ \A x \in S : x <= Max(S)
    BY <1>1, MaxExists
  <1>3. QED
    BY <1>1, <1>2 DEF Tip

\* What a run keeps as it goes from one command to the next, or concludes.
Unmoved(w) ==
    /\ worker'[w].job = worker[w].job /\ worker'[w].path = worker[w].path
    /\ worker'[w].new = worker[w].new /\ worker'[w].done = worker[w].done
    /\ worker'[w].todo = worker[w].todo /\ worker'[w].sick = worker[w].sick
    /\ worker'[w].cancelled = worker[w].cancelled

\* Going on and concluding change where a run is, and its verdict, no more.
LEMMA Onward ==
  ASSUME EngineInv, NEW w \in Worker
  PROVE  /\ \A at : Goto(w, at) => worker'[w].at = at /\ Unmoved(w)
         /\ \A v : Conclude(w, v) =>
              worker'[w].at = "release" /\ worker'[w].verdict = v /\ Unmoved(w)
  <1>1. worker \in [Worker -> KnownRun] /\ worker[w] \in KnownRun
    BY DEF EngineInv, KnownInv
  <1>2. ASSUME NEW at, Goto(w, at) PROVE worker'[w].at = at /\ Unmoved(w)
    BY <1>1, <1>2 DEF Goto, KnownRun, Unmoved
  <1>3. ASSUME NEW v, Conclude(w, v)
        PROVE  worker'[w].at = "release" /\ worker'[w].verdict = v /\ Unmoved(w)
    BY <1>1, <1>3 DEF Conclude, KnownRun, Unmoved
  <1>4. QED
    BY <1>2, <1>3

\* A step of w, or of what stops w, leaves the other runs where they are, and the checkouts
\* they have locked as they were.
LEMMA OthersCheckout ==
  ASSUME EngineInv, NEW w \in Worker, Engine(w) \/ Arrival(w) \/ Cancel(w) \/ Kill(w),
         NEW v \in Worker, v # w
  PROVE  /\ worker'[v] = worker[v] /\ UNCHANGED commits
         /\ worker[v].at \in Locked =>
              tree'[Here(v)] = tree[Here(v)] /\ tracking'[Here(v)] = tracking[Here(v)]
  <1>1. worker \in [Worker -> KnownRun]
    BY DEF EngineInv, KnownInv
  <1>2. UNCHANGED commits
    BY CommitsStay
  <1>3. worker'[v] = worker[v]
    BY <1>1
       DEF Engine, Scan, End, Acquire, GiveUp, Release, Choose, StepFails, Refuse,
         ReadPrevious, Prepared, Fetch, FetchFails, Reset, ResetFails, Clean, ReadNew, Load,
         Pipeline, PipelineStops, Undo, UndoFails, UndoClean, UndoLoad, UndoPipeline,
         UndoPipelineStops, Goto, Conclude,
         Arrival, BeginPush, BeginByHand, BeginRollback, Begin, Cancel, Kill
  <1>4. ASSUME worker[v].at \in Locked
        PROVE  tree'[Here(v)] = tree[Here(v)] /\ tracking'[Here(v)] = tracking[Here(v)]
    <2>1. lock[Here(v)] = v /\ Here(v) \in Path
      BY <1>4, LockedTyped DEF EngineInv, LockInv, UnderLock, HoldsLock
    <2>2. worker[w].at \in Locked => Here(w) # Here(v)
      BY <2>1 DEF EngineInv, LockInv, UnderLock, HoldsLock
    <2>3. tree \in [Path -> DOMAIN commits] /\ tracking \in [Path -> DOMAIN commits]
      BY DEF EngineInv, KnownInv, WorldInv
    <2>4. \/ UNCHANGED <<tree, tracking>>
          \/ /\ worker[w].at \in {"fetch", "reset", "undo"}
             /\ \/ UNCHANGED tree
                \/ \E c : tree' = [tree EXCEPT ![Here(w)] = c]
             /\ \/ UNCHANGED tracking
                \/ \E c : tracking' = [tracking EXCEPT ![Here(w)] = c]
      <3>1. CASE Engine(w)
        BY <3>1
           DEF Engine, Scan, End, Acquire, GiveUp, Release, Choose, StepFails, Refuse,
             ReadPrevious, Fetch, FetchFails, FetchesTip, Reset, ResetFails, Clean, ReadNew,
             Load, Pipeline, PipelineStops, Undo, UndoFails, UndoClean, UndoLoad,
             UndoPipeline, UndoPipelineStops, checkouts, At
      <3>2. CASE Arrival(w) \/ Cancel(w) \/ Kill(w)
        BY <3>2
           DEF Arrival, BeginPush, BeginByHand, BeginRollback, Begin, Cancel, Kill, FetchesTip,
             checkouts, At
      <3>3. QED
        BY <3>1, <3>2
    <2>5. worker[w].at \in {"fetch", "reset", "undo"} => worker[w].at \in Locked
      BY DEF Locked
    <2>6. QED
      BY <2>1, <2>2, <2>3, <2>4, <2>5
  <1>5. QED
    BY <1>2, <1>3, <1>4

\* What a run for pushed commit c may report of a checkout of the branch.
Delivered(result, c) ==
    /\ result.status # "skipped"
    /\ result.status = "success" => result.new >= c

\* A run for a push carries the pushed commit, or a later one of its branch, from the fetch
\* to the report.
Delivering(w) ==
    worker[w].job.kind = "push" =>
        LET c == worker[w].job.sha
        IN /\ c \in DOMAIN commits /\ commits[c].branch = worker[w].job.branch
           /\ worker[w].at = "reset" => tracking[Here(w)] >= c
           /\ worker[w].at \in {"clean", "head"} => tree[Here(w)] >= c
           /\ worker[w].at \in {"load", "pipeline"} => worker[w].new >= c
           /\ worker[w].at = "release" =>
                /\ worker[w].verdict # "skipped"
                /\ worker[w].verdict = "success" => worker[w].new >= c
           /\ \A p \in Path : BranchOf[p] = worker[w].job.branch =>
                Delivered(worker[w].done[p], c)

DeliveryInv == \A w \in Worker : Delivering(w)

\* A run that does not move still delivers.
LEMMA DeliveringFrame ==
  ASSUME EngineInv, NEW w \in Worker, Delivering(w), worker'[w] = worker[w],
         DOMAIN commits \subseteq DOMAIN commits',
         \A c \in DOMAIN commits : commits'[c] = commits[c],
         worker[w].at \in Locked =>
            tree'[Here(w)] = tree[Here(w)] /\ tracking'[Here(w)] = tracking[Here(w)]
  PROVE  Delivering(w)'
  <1>1. worker[w].at \in {"reset", "clean", "head"} => worker[w].at \in Locked
    BY DEF Locked
  <1>2. QED
    BY <1>1 DEF Delivering, Here

\* Between the paths: a run finds its checkouts, passes over those of other branches, and
\* keeps the results it has.
LEMMA DeliverLoop ==
  ASSUME EngineInv, NEW w \in Worker, Delivering(w),
         \/ Scan(w) \/ End(w) \/ Acquire(w) \/ GiveUp(w) \/ Release(w)
         \/ \E p \in Path : Choose(w, p)
  PROVE  Delivering(w)'
  <1>1. /\ worker \in [Worker -> KnownRun] /\ worker[w] \in KnownRun
        /\ worker[w].done \in [Path -> KnownResult]
    BY DEF EngineInv, KnownInv, KnownRun
  <1>2. UNCHANGED commits
    BY DEF Scan, End, Acquire, GiveUp, Release, Choose
  <1>3. ASSUME worker'[w].at \in {"idle", "choose", "lock", "prepared"},
               worker'[w].job = worker[w].job,
               worker[w].job.kind = "push" =>
                 \A p \in Path : BranchOf[p] = worker[w].job.branch =>
                   Delivered(worker'[w].done[p], worker[w].job.sha)
        PROVE  Delivering(w)'
    BY <1>2, <1>3 DEF Delivering
  <1>4. worker[w].job.kind = "push" =>
          \A p \in Path : BranchOf[p] = worker[w].job.branch =>
            Delivered(worker[w].done[p], worker[w].job.sha)
    BY DEF Delivering
  <1>5. CASE Scan(w)
    <2>1. \/ worker' = [worker EXCEPT ![w].at = "idle", ![w].status = "failed"]
          \/ \E found, sick : worker' = [worker EXCEPT ![w].at = "choose",
                                           ![w].todo = found, ![w].sick = sick]
      BY <1>5 DEF Scan
    <2>2. CASE worker' = [worker EXCEPT ![w].at = "idle", ![w].status = "failed"]
      BY <1>1, <1>3, <1>4, <2>2 DEF KnownRun
    <2>3. ASSUME NEW found, NEW sick,
                 worker' = [worker EXCEPT ![w].at = "choose", ![w].todo = found,
                                          ![w].sick = sick]
          PROVE  Delivering(w)'
      BY <1>1, <1>3, <1>4, <2>3 DEF KnownRun
    <2>4. QED
      BY <2>1, <2>2, <2>3
  <1>6. CASE End(w)
    <2>1. PICK v : worker' = [worker EXCEPT ![w].at = "idle", ![w].status = v]
      BY <1>6 DEF End
    <2>2. QED
      BY <1>1, <1>3, <1>4, <2>1 DEF KnownRun
  <1>7. CASE Acquire(w)
    BY <1>1, <1>3, <1>4, <1>7 DEF Acquire, KnownRun
  <1>8. CASE GiveUp(w) \/ Release(w)
    <2>1. PICK r : /\ worker' = [worker EXCEPT ![w].at = "choose", ![w].path = NoPath,
                                                ![w].done[Here(w)] = r]
                   /\ worker[w].job.kind = "push" => Delivered(r, worker[w].job.sha)
      <3>1. Delivered([NoResult EXCEPT !.status = "failed"], worker[w].job.sha)
        BY DEF Delivered, NoResult
      <3>2. Release(w) /\ worker[w].job.kind = "push" =>
              Delivered([status |-> worker[w].verdict, prev |-> worker[w].prev,
                         new |-> worker[w].new], worker[w].job.sha)
        BY DEF Delivered, Delivering, Release, At
      <3>3. QED
        BY <1>8, <3>1, <3>2 DEF GiveUp, Release
    <2>2. /\ worker'[w].at = "choose" /\ worker'[w].job = worker[w].job
          /\ worker'[w].done = [worker[w].done EXCEPT ![Here(w)] = r]
      BY <1>1, <2>1 DEF KnownRun
    <2>3. QED
      BY <1>1, <1>3, <1>4, <2>1, <2>2
  <1>9. ASSUME NEW p \in Path, Choose(w, p) PROVE Delivering(w)'
    <2>1. CASE p \in worker[w].sick
      <3>1. /\ worker'[w].at = "choose" /\ worker'[w].job = worker[w].job
            /\ worker'[w].done =
                 [worker[w].done EXCEPT ![p] = [NoResult EXCEPT !.status = "failed"]]
        BY <1>1, <1>9, <2>1 DEF Choose, KnownRun, At
      <3>2. Delivered([NoResult EXCEPT !.status = "failed"], worker[w].job.sha)
        BY DEF Delivered, NoResult
      <3>3. QED
        BY <1>1, <1>3, <1>4, <3>1, <3>2
    <2>2. CASE p \notin worker[w].sick /\ NotThisOne(w, p)
      <3>1. /\ worker'[w].at = "choose" /\ worker'[w].job = worker[w].job
            /\ worker'[w].done =
                 [worker[w].done EXCEPT ![p] = [NoResult EXCEPT !.status = "skipped"]]
        BY <1>1, <1>9, <2>2 DEF Choose, KnownRun, At
      <3>2. worker[w].job.kind = "push" => BranchOf[p] # worker[w].job.branch
        BY <2>2 DEF NotThisOne, IsRollback
      <3>3. QED
        BY <1>1, <1>3, <1>4, <3>1, <3>2
    <2>3. CASE p \notin worker[w].sick /\ ~ NotThisOne(w, p)
      <3>1. /\ worker'[w].at = "lock" /\ worker'[w].job = worker[w].job
            /\ worker'[w].done = worker[w].done
        BY <1>1, <1>9, <2>3 DEF Choose, KnownRun
      <3>2. QED
        BY <1>3, <1>4, <3>1
    <2>4. QED
      BY <2>1, <2>2, <2>3
  <1>10. QED
    BY <1>5, <1>6, <1>7, <1>8, <1>9

\* A run that begins for a push is for a commit of that branch; it has no results.
LEMMA DeliverBegin ==
  ASSUME EngineInv, NEW w \in Worker, Arrival(w)
  PROVE  Delivering(w)'
  <1>1. worker \in [Worker -> KnownRun]
    BY DEF EngineInv, KnownInv
  <1>2. PICK job : /\ Begin(w, job)
                   /\ job.kind = "push" => \E c \in DOMAIN commits : job = PushJob(c)
    <2>1. ASSUME NEW kind \in {"manual", "setup"}, NEW within
          PROVE  OperatorJob(kind, within).kind # "push"
      BY DEF OperatorJob
    <2>2. ASSUME NEW targets PROVE RollbackJob(targets).kind # "push"
      BY DEF RollbackJob, OperatorJob
    <2>3. CASE \E c \in Commit : BeginPush(w, c)
      BY <2>3 DEF BeginPush
    <2>4. CASE \E kind \in {"manual", "setup"}, within \in Scope : BeginByHand(w, kind, within)
      BY <2>1, <2>4 DEF BeginByHand
    <2>5. CASE \E targets \in [Path -> Commit \cup {0}] : BeginRollback(w, targets)
      BY <2>2, <2>5 DEF BeginRollback
    <2>6. QED
      BY <2>3, <2>4, <2>5 DEF Arrival
  <1>3. /\ worker'[w].at = "scan" /\ worker'[w].job = job
        /\ worker'[w].done = [p \in Path |-> NoResult] /\ UNCHANGED commits
    BY <1>1, <1>2 DEF NoRun, Begin
  <1>4. QED
    BY <1>2, <1>3 DEF Delivering, Delivered, NoResult, PushJob

\* Under the lock: the fetch brings the head of the branch, no older than the push, the
\* reset puts the tree there, and that is what a success reports.
LEMMA DeliverLocked ==
  ASSUME EngineInv, NEW w \in Worker, Delivering(w), worker[w].at \in Locked,
         Engine(w), ~ Release(w)
  PROVE  Delivering(w)'
  <1>1. /\ worker \in [Worker -> KnownRun] /\ worker[w] \in KnownRun
        /\ tree \in [Path -> DOMAIN commits] /\ Here(w) \in Path
    BY Knows
  <1>2. UNCHANGED commits
    BY CommitsStay
  <1>3. SUFFICES ASSUME worker'[w].job.kind = "push", worker'[w].job = worker[w].job,
                        worker'[w].done = worker[w].done
                 PROVE  LET c == worker[w].job.sha
                        IN /\ worker'[w].at = "reset" => tracking'[Here(w)'] >= c
                           /\ worker'[w].at \in {"clean", "head"} => tree'[Here(w)'] >= c
                           /\ worker'[w].at \in {"load", "pipeline"} => worker'[w].new >= c
                           /\ worker'[w].at = "release" =>
                                /\ worker'[w].verdict # "skipped"
                                /\ worker'[w].verdict = "success" => worker'[w].new >= c
    <2>1. worker'[w].job = worker[w].job /\ worker'[w].done = worker[w].done
      <3>1. ReadPrevious(w) \/ ReadNew(w) \/ UndoClean(w) =>
              worker'[w].job = worker[w].job /\ worker'[w].done = worker[w].done
        BY <1>1 DEF ReadPrevious, Prepared, ReadNew, UndoClean, KnownRun
      <3>2. /\ ~ Scan(w) /\ ~ End(w) /\ ~ Acquire(w) /\ ~ GiveUp(w)
            /\ \A p \in Path : ~ Choose(w, p)
        BY DEF Scan, End, Acquire, GiveUp, Choose, At, Locked
      <3>3. (\E at : Goto(w, at)) \/ (\E v : Conclude(w, v)) \/ ReadPrevious(w)
            \/ ReadNew(w) \/ UndoClean(w)
        BY <3>2 DEF Engine, StepFails, Refuse, Fetch, FetchFails, Reset, ResetFails, Clean,
             Load, Pipeline, PipelineStops, Undo, UndoFails, UndoLoad, UndoPipeline,
             UndoPipelineStops
      <3>4. QED
        BY <3>1, <3>3, Onward DEF Unmoved
    <2>2. QED
      BY <1>2, <2>1 DEF Delivering
  <1> DEFINE c == worker[w].job.sha
  <1>4. /\ c \in DOMAIN commits /\ commits[c].branch = worker[w].job.branch
        /\ ~ IsRollback(w) /\ commits \in Seq(Pushed)
    BY <1>3 DEF Delivering, IsRollback, EngineInv, KnownInv, WorldInv
  <1>5. CASE Conclude(w, "failed") \/ Conclude(w, "rolled_back")
    BY <1>5, Onward
  <1>6. ASSUME NEW at \in {"undo", "undoClean", "undoPipeline"}, Goto(w, at)
        PROVE  worker'[w].at = at
    BY <1>6, Onward
  <1>7. CASE ReadPrevious(w)
    <2>1. worker'[w].at \in {"fetch", "undo"}
      BY <1>1, <1>4, <1>7 DEF ReadPrevious, Prepared, KnownRun
    <2>2. QED
      BY <2>1
  <1>8. CASE Fetch(w)
    <2>1. BranchOf[Here(w)] = commits[c].branch
      <3>1. commits[c] \in Pushed
        BY <1>4
      <3>2. commits[c].branch # NoBranch
        BY <3>1, CheckoutAssumption DEF Pushed
      <3>3. QED
        BY <1>4, <3>2 DEF EngineInv, ScopeInv, ChoseInScope
    <2>2. Tip(BranchOf[Here(w)]) >= c
      BY <1>4, <2>1, TipIsNewest
    <2>3. worker'[w].at = "reset" /\ Here(w)' = Here(w)
      BY <1>8, Onward DEF Fetch, Unmoved, Here
    <2>4. tracking'[Here(w)] = Tip(BranchOf[Here(w)])
      BY <1>1, <1>8 DEF Fetch, FetchesTip, EngineInv, KnownInv, WorldInv
    <2>5. QED
      BY <2>2, <2>3, <2>4
  <1>9. CASE Reset(w)
    <2>1. worker'[w].at = "clean" /\ Here(w)' = Here(w)
      BY <1>9, Onward DEF Reset, Unmoved, Here
    <2>2. tree'[Here(w)] = tracking[Here(w)] /\ tracking[Here(w)] >= c
      BY <1>1, <1>3, <1>9 DEF Reset, Upstream, Delivering, At
    <2>3. QED
      BY <2>1, <2>2
  <1>10. CASE Clean(w)
    <2>1. worker'[w].at = "head" /\ Here(w)' = Here(w) /\ UNCHANGED tree
      BY <1>10, Onward DEF Clean, Unmoved, Here, checkouts
    <2>2. tree[Here(w)] >= c
      BY <1>3, <1>10 DEF Clean, Delivering, At
    <2>3. QED
      BY <2>1, <2>2
  <1>11. CASE ReadNew(w)
    <2>1. worker'[w].at = "load" /\ worker'[w].new = tree[Here(w)]
      BY <1>1, <1>11 DEF ReadNew, KnownRun
    <2>2. tree[Here(w)] >= c
      BY <1>3, <1>11 DEF ReadNew, Delivering, At
    <2>3. QED
      BY <2>1, <2>2
  <1>12. CASE Load(w) /\ Goto(w, "pipeline")
    <2>1. worker'[w].at = "pipeline" /\ worker'[w].new = worker[w].new
      BY <1>12, Onward DEF Unmoved
    <2>2. worker[w].new >= c
      BY <1>3, <1>12 DEF Load, Delivering, At
    <2>3. QED
      BY <2>1, <2>2
  <1>13. CASE Pipeline(w) /\ Conclude(w, "success")
    <2>1. /\ worker'[w].at = "release" /\ worker'[w].new = worker[w].new
          /\ worker'[w].verdict = "success"
      BY <1>13, Onward DEF Unmoved
    <2>2. worker[w].new >= c
      BY <1>3, <1>13 DEF Pipeline, Delivering, At
    <2>3. QED
      BY <2>1, <2>2
  <1>14. CASE UndoClean(w)
    <2>1. worker'[w].at = "undoLoad"
      BY <1>1, <1>14 DEF UndoClean, KnownRun
    <2>2. QED
      BY <2>1
  <1>15. ~ Scan(w) /\ ~ End(w) /\ ~ Acquire(w) /\ ~ GiveUp(w) /\ \A p \in Path : ~ Choose(w, p)
    BY DEF Scan, End, Acquire, GiveUp, Choose, At, Locked
  <1>16. QED
    <2>1. CASE \E at \in {"undo", "undoClean", "undoPipeline"} : Goto(w, at)
      BY <1>6, <2>1
    <2>2. QED
      BY <1>4, <1>5, <1>7, <1>8, <1>9, <1>10, <1>11, <1>12, <1>13, <1>14, <1>15, <2>1
         DEF Engine, StepFails, Refuse, FetchFails, ResetFails, Load, Pipeline, PipelineStops,
             Undo, UndoFails, UndoLoad, UndoPipeline, UndoPipelineStops

\* Every step keeps every run delivering.
LEMMA DeliveryStep == EngineInv /\ DeliveryInv /\ [Next]_vars => DeliveryInv'
  <1> SUFFICES ASSUME EngineInv, DeliveryInv, [Next]_vars, NEW v \in Worker
               PROVE  Delivering(v)'
    BY DEF DeliveryInv
  <1>1. Delivering(v) /\ worker \in [Worker -> KnownRun]
    BY DEF DeliveryInv, EngineInv, KnownInv
  <1>2. ASSUME NEW w \in Worker, Engine(w) \/ Arrival(w) \/ Cancel(w) \/ Kill(w), v # w
        PROVE  Delivering(v)'
    BY <1>1, <1>2, OthersCheckout, DeliveringFrame
  <1>3. CASE Engine(v)
    <2>1. CASE worker[v].at \in Locked /\ ~ Release(v)
      BY <1>1, <1>3, <2>1, DeliverLocked
    <2>2. CASE worker[v].at \notin Locked \/ Release(v)
      BY <1>1, <1>3, <2>2, DeliverLoop
         DEF Engine, StepFails, Refuse, ReadPrevious, Fetch, FetchFails, Reset, ResetFails,
             Clean, ReadNew, Load, Pipeline, PipelineStops, Undo, UndoFails, UndoClean,
             UndoLoad, UndoPipeline, UndoPipelineStops, At, Locked
    <2>3. QED
      BY <2>1, <2>2
  <1>4. CASE Arrival(v)
    BY <1>4, DeliverBegin
  <1>5. CASE Kill(v)
    BY <1>1, <1>5 DEF Kill, NoRun, OperatorJob, Delivering
  <1>6. CASE Cancel(v)
    <2>1. worker'[v] = [worker[v] EXCEPT !.cancelled = TRUE] /\ worker[v] \in KnownRun
      BY <1>1, <1>6 DEF Cancel
    <2>2. /\ worker'[v].at = worker[v].at /\ worker'[v].job = worker[v].job
          /\ worker'[v].new = worker[v].new /\ worker'[v].done = worker[v].done
          /\ worker'[v].verdict = worker[v].verdict /\ Here(v)' = Here(v)
      BY <2>1 DEF KnownRun, Here
    <2>3. UNCHANGED <<commits, tree, tracking>>
      BY <1>6 DEF Cancel, checkouts
    <2>4. QED
      BY <1>1, <2>2, <2>3 DEF Delivering
  <1>7. ASSUME NEW b \in Branch, NEW m \in Manifests, Push(b, m) PROVE Delivering(v)'
    <2>1. /\ DOMAIN commits \subseteq DOMAIN commits'
          /\ \A c \in DOMAIN commits : commits'[c] = commits[c]
      BY <1>7, KnownPush DEF EngineInv
    <2>2. UNCHANGED <<worker, tree, tracking>>
      BY <1>7 DEF Push, checkouts
    <2>3. QED
      BY <1>1, <2>1, <2>2, DeliveringFrame
  <1>8. CASE UNCHANGED vars
    BY <1>1, <1>8, DeliveringFrame DEF vars, checkouts
  <1>9. QED
    BY <1>2, <1>3, <1>4, <1>5, <1>6, <1>7, <1>8 DEF Next

\* A run that reports success for a push left every checkout of the branch it found on the
\* pushed commit or a later one: Run's filter on the branch, the reset to what was fetched
\* and Summarize together, whatever else was pushed or run meanwhile.
THEOREM PushesAreDelivered == Spec => PushIsDelivered
  <1>1. Init => DeliveryInv
    BY DEF Init, DeliveryInv, Delivering, NoRun, OperatorJob
  <1>2. EngineInv /\ DeliveryInv /\ [Next]_vars => DeliveryInv'
    BY DeliveryStep
  <1> DEFINE Reported ==
        \A w \in Worker :
          End(w) /\ worker'[w].status = "success" /\ worker[w].job.kind = "push" =>
             \A p \in Path :
                 worker[w].done[p].status # "none" /\ BranchOf[p] = worker[w].job.branch =>
                     /\ worker[w].done[p].status = "success"
                     /\ worker[w].done[p].new >= worker[w].job.sha
  <1>3. EngineInv /\ DeliveryInv => Reported
    <2> SUFFICES ASSUME EngineInv, DeliveryInv, NEW w \in Worker, End(w),
                        worker'[w].status = "success", worker[w].job.kind = "push",
                        NEW p \in Path, worker[w].done[p].status # "none",
                        BranchOf[p] = worker[w].job.branch
                 PROVE  /\ worker[w].done[p].status = "success"
                        /\ worker[w].done[p].new >= worker[w].job.sha
      OBVIOUS
    <2> DEFINE statuses == {worker[w].done[q].status : q \in Path}
    <2>1. worker \in [Worker -> KnownRun] /\ worker[w] \in KnownRun
      BY DEF EngineInv, KnownInv
    <2>2. worker'[w].status = Summarize(statuses)
      BY <2>1 DEF End, KnownRun
    <2>3. worker[w].done[p].status \in Verdict /\ worker[w].done[p].status \in statuses
      BY <2>1 DEF KnownRun, KnownResult
    <2>4. worker[w].done[p].status \notin {"failed", "rolled_back"}
      BY <2>2, <2>3 DEF Summarize
    <2>5. Delivered(worker[w].done[p], worker[w].job.sha)
      BY DEF DeliveryInv, Delivering
    <2>6. QED
      BY <2>3, <2>4, <2>5 DEF Delivered, Verdict
  <1>4. QED
    BY <1>1, <1>2, <1>3, EngineInvariant, PTL DEF Spec, PushIsDelivered

-----------------------------------------------------------------------------
(* What pushes that overtake one another come to. *)

\* Nothing failed, was cancelled, killed or rolled back, and every manifest loads.
Calm ==
    /\ faults = 0 /\ disturbances = 0
    /\ \A c \in DOMAIN commits : ManifestOf(c).file = "ok"

CalmRun(w) ==
    /\ ~ worker[w].cancelled /\ ~ IsRollback(w)
    /\ worker[w].at \notin {"undo", "undoClean", "undoLoad", "undoPipeline"}
    /\ worker[w].at \notin {"idle", "scan"} => worker[w].sick = {}

\* A run has reset its tree and has still to build it.
Building(w, p) == Here(w) = p /\ worker[w].at \in {"clean", "head", "load", "pipeline"}

\* A checkout stays on its branch and never goes back, and what is on disk is built or
\* being built.
OnBranch(p) ==
    /\ commits[tree[p]].branch = BranchOf[p] /\ commits[tracking[p]].branch = BranchOf[p]
    /\ tree[p] <= tracking[p]

CalmPath(p) == OnBranch(p) /\ (built[p] = tree[p] \/ \E w \in Worker : Building(w, p))

\* The run for pushed commit c has still to come to checkout p, or is there and has not
\* reset it.
Owes(w, c, p) ==
    /\ worker[w].job = PushJob(c)
    /\ \/ worker[w].at = "scan"
       \/ worker[w].at \notin {"idle", "scan"} /\ p \in worker[w].todo
       \/ Here(w) = p /\ worker[w].at \in {"lock", "prepared", "fetch"}
       \/ Here(w) = p /\ worker[w].at = "reset" /\ tracking[p] >= c

Served(c, p) == tree[p] >= c \/ \E w \in Worker : Owes(w, c, p)

CalmInv ==
    Calm => /\ \A w \in Worker : CalmRun(w)
            /\ \A p \in Path : CalmPath(p)
            /\ \A c \in begun, p \in Path : BranchOf[p] = commits[c].branch => Served(c, p)

\* What a run does while all is calm.
CalmStep(w) ==
    \/ Scan(w) \/ End(w) \/ Acquire(w) \/ Release(w) \/ \E p \in Path : Choose(w, p)
    \/ Refuse(w) \/ ReadPrevious(w) \/ Fetch(w) \/ Reset(w) \/ Clean(w) \/ ReadNew(w)
    \/ Load(w) /\ Goto(w, "pipeline")
    \/ Pipeline(w)
    \/ \E c \in Commit : BeginPush(w, c)
    \/ \E kind \in {"manual", "setup"}, within \in Scope : BeginByHand(w, kind, within)

\* The commits there are stay what they are.
LEMMA CommitsKeep ==
  ASSUME EngineInv, [Next]_vars
  PROVE  /\ DOMAIN commits \subseteq DOMAIN commits'
         /\ \A c \in DOMAIN commits : commits'[c] = commits[c]
  <1>1. ASSUME NEW w \in Worker, Engine(w) \/ Arrival(w) \/ Cancel(w) \/ Kill(w)
        PROVE  UNCHANGED commits
    BY <1>1, CommitsStay
  <1>2. ASSUME NEW b \in Branch, NEW m \in Manifests, Push(b, m)
        PROVE  /\ DOMAIN commits \subseteq DOMAIN commits'
               /\ \A c \in DOMAIN commits : commits'[c] = commits[c]
    BY <1>2, KnownPush DEF EngineInv
  <1>3. QED
    BY <1>1, <1>2 DEF Next, vars

\* It has been calm up to now, if it is calm.
LEMMA CalmBefore ==
  ASSUME EngineInv, [Next]_vars, Calm'
  PROVE  Calm
  <1>1. faults = 0
    BY FaultsStay DEF Calm
  <1>2. disturbances = 0
    <2>1. disturbances \in Nat
      BY CheckoutAssumption DEF EngineInv, KnownInv, CountsInv
    <2>2. disturbances' = disturbances \/ disturbances' = disturbances + 1
      <3>1. ASSUME NEW w \in Worker, Engine(w) PROVE disturbances' = disturbances
        BY <3>1 DEF Engine, Scan, End, Acquire, GiveUp, Release, Choose, StepFails, Refuse,
             ReadPrevious, Fetch, FetchFails, Reset, ResetFails, Clean, ReadNew, Load,
             Pipeline, PipelineStops, Undo, UndoFails, UndoClean, UndoLoad, UndoPipeline,
             UndoPipelineStops, counts
      <3>2. ASSUME NEW w \in Worker, Arrival(w) \/ Cancel(w) \/ Kill(w)
            PROVE  disturbances' = disturbances \/ disturbances' = disturbances + 1
        BY <3>2 DEF Arrival, BeginPush, BeginByHand, BeginRollback, Cancel, Kill
      <3>3. ASSUME NEW b \in Branch, NEW m \in Manifests, Push(b, m)
            PROVE  disturbances' = disturbances
        BY <3>3 DEF Push, counts
      <3>4. UNCHANGED vars => disturbances' = disturbances
        BY DEF vars, counts
      <3>5. QED
        BY <3>1, <3>2, <3>3, <3>4 DEF Next
    <2>3. QED
      BY <2>1, <2>2 DEF Calm
  <1>3. \A c \in DOMAIN commits : ManifestOf(c).file = "ok"
    BY CommitsKeep DEF Calm, ManifestOf
  <1>4. QED
    BY <1>1, <1>2, <1>3 DEF Calm

\* In the calm nothing ends badly, and nothing is undone.
LEMMA CalmSteps ==
  ASSUME EngineInv, Calm, Calm', \A w \in Worker : CalmRun(w), [Next]_vars
  PROVE  \/ \E w \in Worker : CalmStep(w)
         \/ \E b \in Branch, m \in Manifests : Push(b, m)
         \/ UNCHANGED vars
  <1>1. \A w \in Worker : ~ CommandFails(w)
    BY DEF Calm, CommandFails, CalmRun, Interrupted
  <1>2. ASSUME NEW w \in Worker, Load(w) PROVE Goto(w, "pipeline")
    <2>1. worker[w].at \in Locked
      BY <1>2 DEF Load, At, Locked
    <2>2. ManifestOf(tree[Here(w)]).file = "ok"
      BY <2>1, LockedTyped DEF Calm
    <2>3. QED
      BY <1>2, <2>2 DEF Load
  <1>3. ASSUME NEW w \in Worker
        PROVE  /\ ~ Undo(w) /\ ~ UndoClean(w) /\ ~ UndoLoad(w) /\ ~ UndoPipeline(w)
               /\ ~ GiveUp(w)
    BY DEF Undo, UndoClean, UndoLoad, UndoPipeline, GiveUp, At, CalmRun, Calm
  <1>4. ASSUME NEW w \in Worker
        PROVE  /\ ~ Cancel(w) /\ ~ Kill(w)
               /\ \A targets : ~ BeginRollback(w, targets)
    BY DEF Cancel, Kill, BeginRollback, Calm
  <1>5. ASSUME NEW w \in Worker, Engine(w) PROVE CalmStep(w)
    BY <1>1, <1>2, <1>3, <1>5
       DEF Engine, StepFails, FetchFails, ResetFails, PipelineStops, PipelineFails, UndoFails,
           UndoPipelineStops, CalmStep
  <1>6. ASSUME NEW w \in Worker, Arrival(w) PROVE CalmStep(w)
    BY <1>4, <1>6 DEF Arrival, CalmStep
  <1>7. QED
    BY <1>4, <1>5, <1>6 DEF Next

\* What each step of the calm leaves of the run that takes it.
LEMMA CalmRunStep ==
  ASSUME EngineInv, Calm, NEW w \in Worker, CalmRun(w), CalmStep(w)
  PROVE  CalmRun(w)'
  <1>1. worker \in [Worker -> KnownRun] /\ worker[w] \in KnownRun
    BY DEF EngineInv, KnownInv
  <1>2. CASE Scan(w)
    <2> DEFINE found == {p \in worker[w].job.within : ManifestOf(tree[p]).file # "missing"}
               sick == {p \in found : ManifestOf(tree[p]).file = "broken"}
    <2>1. sick = {}
      BY <1>1 DEF Calm, KnownRun, KnownJob, EngineInv, KnownInv, WorldInv
    <2>2. CASE worker' = [worker EXCEPT ![w].at = "idle", ![w].status = "failed"]
      BY <1>1, <2>2 DEF CalmRun, IsRollback, KnownRun
    <2>3. CASE worker' = [worker EXCEPT ![w].at = "choose", ![w].todo = found, ![w].sick = sick]
      <3> HIDE DEF found, sick
      <3>1. QED
        BY <1>1, <2>1, <2>3 DEF CalmRun, IsRollback, KnownRun
    <2>4. QED
      BY <1>2, <2>2, <2>3 DEF Scan
  <1>3. CASE End(w)
    <2>1. PICK v : worker' = [worker EXCEPT ![w].at = "idle", ![w].status = v]
      BY <1>3 DEF End
    <2>2. QED
      BY <1>1, <2>1 DEF CalmRun, IsRollback, KnownRun
  <1>4. CASE Acquire(w)
    BY <1>1, <1>4 DEF Acquire, CalmRun, IsRollback, KnownRun, At
  <1>5. CASE Release(w)
    BY <1>1, <1>5 DEF Release, CalmRun, IsRollback, KnownRun, At
  <1>6. ASSUME NEW p \in Path, Choose(w, p) PROVE CalmRun(w)'
    BY <1>1, <1>6 DEF Choose, CalmRun, IsRollback, KnownRun, At
  <1>7. ASSUME Goto(w, "reset") \/ Goto(w, "clean") \/ Goto(w, "head") \/ Goto(w, "pipeline")
               \/ (\E v : Conclude(w, v)),
               worker[w].at \in Locked
        PROVE  CalmRun(w)'
    <2>1. Unmoved(w) /\ worker'[w].at \in {"reset", "clean", "head", "pipeline", "release"}
      BY <1>7, Onward
    <2>2. worker[w].sick = {}
      BY <1>7 DEF CalmRun, Locked
    <2>3. QED
      BY <2>1, <2>2 DEF CalmRun, IsRollback, Unmoved
  <1>8. CASE ReadPrevious(w)
    BY <1>1, <1>8 DEF ReadPrevious, Prepared, CalmRun, IsRollback, KnownRun, At
  <1>9. CASE ReadNew(w)
    BY <1>1, <1>9 DEF ReadNew, CalmRun, IsRollback, KnownRun, At
  <1>10. ASSUME NEW job, Begin(w, job), job.kind # "rollback" PROVE CalmRun(w)'
    BY <1>1, <1>10 DEF Begin, NoRun, CalmRun, IsRollback
  <1>11. /\ \A c \in Commit : BeginPush(w, c) => CalmRun(w)'
         /\ \A kind \in {"manual", "setup"}, within \in Scope :
              BeginByHand(w, kind, within) => CalmRun(w)'
    BY <1>10 DEF BeginPush, BeginByHand, PushJob, OperatorJob
  <1>12. CASE \/ Refuse(w) \/ Fetch(w) \/ Reset(w) \/ Clean(w) \/ Pipeline(w)
              \/ Load(w) /\ Goto(w, "pipeline")
    BY <1>7, <1>12 DEF Refuse, Fetch, Reset, Clean, Pipeline, Load, At, Locked
  <1>13. QED
    BY <1>2, <1>3, <1>4, <1>5, <1>6, <1>8, <1>9, <1>11, <1>12 DEF CalmStep

\* In the calm a checkout only goes forward, along its branch.
LEMMA CalmForward ==
  ASSUME EngineInv, \A p \in Path : OnBranch(p), NEW w \in Worker, CalmStep(w), NEW p \in Path
  PROVE  tree'[p] >= tree[p] /\ tracking'[p] >= tracking[p] /\ OnBranch(p)'
  <1>1. /\ tree \in [Path -> DOMAIN commits] /\ tracking \in [Path -> DOMAIN commits]
        /\ commits \in Seq(Pushed)
    BY DEF EngineInv, KnownInv, WorldInv
  <1>2. /\ tree[p] \in Nat /\ tracking[p] \in Nat /\ tree[p] \in DOMAIN commits
        /\ tracking[p] \in DOMAIN commits
    BY <1>1
  <1>3. CASE UNCHANGED <<commits, tree, tracking>>
    BY <1>2, <1>3 DEF OnBranch
  <1>4. CASE Fetch(w)
    <2>1. UNCHANGED <<commits, tree>>
      BY <1>4 DEF Fetch
    <2>2. tracking' = [tracking EXCEPT ![Here(w)] = Tip(BranchOf[Here(w)])]
      BY <1>4 DEF Fetch, FetchesTip
    <2>3. CASE Here(w) = p
      <3>1. tracking'[p] = Tip(BranchOf[p])
        BY <1>1, <2>2, <2>3
      <3>2. /\ Tip(BranchOf[p]) \in DOMAIN commits
            /\ commits[Tip(BranchOf[p])].branch = BranchOf[p]
            /\ tracking[p] <= Tip(BranchOf[p])
        BY <1>1, <1>2, TipIsNewest DEF OnBranch
      <3>3. QED
        BY <1>1, <1>2, <2>1, <3>1, <3>2 DEF OnBranch
    <2>4. CASE Here(w) # p
      <3>1. tracking'[p] = tracking[p]
        BY <1>1, <2>2, <2>4
      <3>2. QED
        BY <1>2, <2>1, <3>1 DEF OnBranch
    <2>5. QED
      BY <2>3, <2>4
  <1>5. CASE Reset(w)
    <2>1. tree'[p] \in {tree[p], tracking[p]} /\ UNCHANGED <<commits, tracking>>
      BY <1>1, <1>5 DEF Reset, Upstream
    <2>2. QED
      BY <1>2, <2>1 DEF OnBranch
  <1>6. QED
    BY <1>3, <1>4, <1>5
       DEF CalmStep, Scan, End, Acquire, Release, Choose, Refuse, ReadPrevious, Clean, ReadNew,
           Load, Pipeline, BeginPush, BeginByHand, Begin, checkouts

\* What is on disk is built, or being built: only a reset moves the tree, and what resets
\* goes on to build.
LEMMA CalmBuilt ==
  ASSUME EngineInv, NEW p \in Path, built[p] = tree[p] \/ \E v \in Worker : Building(v, p),
         NEW w \in Worker, CalmRun(w), CalmStep(w)
  PROVE  built'[p] = tree'[p] \/ \E v \in Worker : Building(v, p)'
  <1>1. /\ worker \in [Worker -> KnownRun] /\ worker[w] \in KnownRun
        /\ tree \in [Path -> DOMAIN commits] /\ built \in [Path -> DOMAIN commits]
    BY DEF EngineInv, KnownInv, WorldInv
  <1>2. Engine(w) \/ Arrival(w)
    BY DEF CalmStep, Engine, Arrival
  <1>3. CASE Reset(w)
    <2>1. CASE Here(w) = p
      <3>1. worker'[w].at = "clean" /\ Here(w)' = p
        BY <1>3, <2>1, Onward DEF Reset, Unmoved, Here
      <3>2. QED
        BY <3>1 DEF Building
    <2>2. CASE Here(w) # p
      <3>1. tree'[p] = tree[p] /\ built'[p] = built[p]
        BY <1>1, <1>3, <2>2 DEF Reset
      <3>2. ~ Building(w, p)
        BY <2>2 DEF Building
      <3>3. \A v \in Worker : Building(v, p) => Building(v, p)'
        BY <1>2, <3>2, OthersCheckout DEF Building, Here
      <3>4. QED
        BY <3>1, <3>3
    <2>3. QED
      BY <2>1, <2>2
  <1>4. CASE Pipeline(w) /\ Here(w) = p
    BY <1>1, <1>4 DEF Pipeline
  <1>5. CASE Pipeline(w) /\ Here(w) # p
    <2>1. tree'[p] = tree[p] /\ built'[p] = built[p] /\ ~ Building(w, p)
      BY <1>1, <1>5 DEF Pipeline, Building
    <2>2. \A v \in Worker : Building(v, p) => Building(v, p)'
      BY <1>2, <2>1, OthersCheckout DEF Building, Here
    <2>3. QED
      BY <2>1, <2>2
  <1>6. CASE ~ Reset(w) /\ ~ Pipeline(w)
    <2>1. UNCHANGED <<tree, built>>
      BY <1>6 DEF CalmStep, Scan, End, Acquire, Release, Choose, Refuse, ReadPrevious, Fetch,
           Clean, ReadNew, Load, BeginPush, BeginByHand, Begin, checkouts
    <2>2. Building(w, p) => Building(w, p)'
      <3>1. ASSUME Building(w, p) PROVE Building(w, p)'
        <4>1. Clean(w) \/ ReadNew(w) \/ (Load(w) /\ Goto(w, "pipeline"))
          BY <1>6, <3>1 DEF Building, CalmStep, Scan, End, Acquire, Release, Choose, Refuse,
               ReadPrevious, Fetch, BeginPush, BeginByHand, Begin, At
        <4>2. CASE ReadNew(w)
          BY <1>1, <3>1, <4>2 DEF ReadNew, Building, Here, KnownRun
        <4>3. CASE Clean(w) \/ (Load(w) /\ Goto(w, "pipeline"))
          <5>1. worker'[w].at \in {"head", "pipeline"} /\ Here(w)' = Here(w)
            BY <4>3, Onward DEF Clean, Unmoved, Here
          <5>2. QED
            BY <3>1, <5>1 DEF Building
        <4>4. QED
          BY <4>1, <4>2, <4>3
      <3>2. QED
        BY <3>1
    <2>3. \A v \in Worker : Building(v, p) => Building(v, p)'
      BY <1>2, <2>2, OthersCheckout DEF Building, Here
    <2>4. QED
      BY <2>1, <2>3
  <1>7. QED
    BY <1>3, <1>4, <1>5, <1>6

\* The run that owes a checkout its commit comes to it, fetches the head of the branch, and
\* resets it there.
LEMMA CalmPays ==
  ASSUME EngineInv, Calm, NEW w \in Worker, CalmRun(w), CalmStep(w),
         NEW c \in DOMAIN commits, NEW p \in Path, BranchOf[p] = commits[c].branch,
         Owes(w, c, p)
  PROVE  Owes(w, c, p)' \/ tree'[p] >= c
  <1>1. /\ worker \in [Worker -> KnownRun] /\ worker[w] \in KnownRun
        /\ tree \in [Path -> DOMAIN commits] /\ tracking \in [Path -> DOMAIN commits]
        /\ commits \in Seq(Pushed)
    BY DEF EngineInv, KnownInv, WorldInv
  <1>2. worker[w].at # "idle"
    BY DEF Owes
  <1>3. UNCHANGED commits /\ PushJob(c)' = PushJob(c)
    BY CommitsStay DEF CalmStep, Engine, Arrival, PushJob
  <1>4. ASSUME worker'[w].job = worker[w].job, worker'[w].at \notin {"idle", "scan"},
               p \in worker'[w].todo
        PROVE  Owes(w, c, p)'
    BY <1>3, <1>4 DEF Owes
  <1>5. ASSUME worker'[w].job = worker[w].job, worker'[w].path = p,
               worker'[w].at \in {"lock", "prepared", "fetch"}
        PROVE  Owes(w, c, p)'
    BY <1>3, <1>5 DEF Owes, Here
  <1>6. CASE Scan(w)
    <2> DEFINE found == {q \in worker[w].job.within : ManifestOf(tree[q]).file # "missing"}
               sick == {q \in found : ManifestOf(tree[q]).file = "broken"}
    <2>1. p \in found
      BY <1>1 DEF Owes, PushJob, Calm
    <2>2. worker' = [worker EXCEPT ![w].at = "choose", ![w].todo = found, ![w].sick = sick]
      BY <1>6, <2>1 DEF Scan, CalmRun
    <2> HIDE DEF found, sick
    <2>3. /\ worker'[w].at = "choose" /\ worker'[w].todo = found
          /\ worker'[w].job = worker[w].job
      BY <1>1, <2>2 DEF KnownRun
    <2>4. QED
      BY <1>4, <2>1, <2>3
  <1>7. ~ End(w)
    BY DEF End, Owes, At
  <1>8. ASSUME NEW q \in Path, Choose(w, q) PROVE Owes(w, c, p)'
    <2>1. p \in worker[w].todo /\ worker[w].job = PushJob(c) /\ worker[w].at = "choose"
      BY <1>8 DEF Choose, Owes, At
    <2>2. CASE q = p
      <3>1. p \notin worker[w].sick /\ ~ NotThisOne(w, p)
        BY <2>1 DEF CalmRun, NotThisOne, PushJob, IsRollback
      <3>2. worker' = [worker EXCEPT ![w] = [worker[w] EXCEPT
              !.todo = worker[w].todo \ {p}, !.at = "lock", !.path = p]]
        BY <1>1, <1>8, <2>2, <3>1 DEF Choose, KnownRun
      <3>3. worker'[w].at = "lock" /\ worker'[w].path = p /\ worker'[w].job = worker[w].job
        BY <1>1, <3>2 DEF KnownRun
      <3>4. QED
        BY <1>5, <3>3
    <2>3. CASE q # p
      <3>1. /\ worker'[w].at \in {"choose", "lock"} /\ worker'[w].job = worker[w].job
            /\ worker'[w].todo = worker[w].todo \ {q}
        BY <1>1, <1>8, <2>1 DEF Choose, KnownRun
      <3>2. QED
        BY <1>4, <2>1, <2>3, <3>1
    <2>4. QED
      BY <2>2, <2>3
  <1>9. CASE Acquire(w)
    <2>1. /\ worker'[w].at = "prepared" /\ worker'[w].job = worker[w].job
          /\ worker'[w].path = worker[w].path /\ worker'[w].todo = worker[w].todo
      BY <1>1, <1>9 DEF Acquire, KnownRun
    <2>2. p \in worker[w].todo \/ worker[w].path = p
      BY <1>9 DEF Owes, Acquire, At, Here
    <2>3. QED
      BY <1>4, <1>5, <2>1, <2>2
  <1>10. CASE ReadPrevious(w)
    <2>1. /\ worker'[w].at = "fetch" /\ worker'[w].job = worker[w].job
          /\ worker'[w].path = worker[w].path /\ worker'[w].todo = worker[w].todo
      BY <1>1, <1>10 DEF ReadPrevious, Prepared, KnownRun, CalmRun
    <2>2. p \in worker[w].todo \/ worker[w].path = p
      BY <1>10 DEF Owes, ReadPrevious, At, Here
    <2>3. QED
      BY <1>4, <1>5, <2>1, <2>2
  <1>11. CASE Fetch(w)
    <2>1. /\ worker'[w].at = "reset" /\ worker'[w].job = worker[w].job
          /\ worker'[w].path = worker[w].path /\ worker'[w].todo = worker[w].todo
      BY <1>11, Onward DEF Fetch, Unmoved
    <2>2. p \in worker[w].todo \/ Here(w) = p
      BY <1>11 DEF Owes, Fetch, At, Here
    <2>3. CASE Here(w) = p
      <3>1. tracking'[p] = Tip(BranchOf[p])
        BY <1>1, <1>11, <2>3 DEF Fetch, FetchesTip
      <3>2. tracking'[p] >= c
        BY <1>1, <3>1, TipIsNewest
      <3>3. QED
        BY <1>3, <2>1, <2>3, <3>2 DEF Owes, Here
    <2>4. QED
      BY <1>4, <2>1, <2>2, <2>3
  <1>12. CASE Reset(w)
    <2>1. worker'[w].at = "clean" /\ Unmoved(w)
      BY <1>12, Onward DEF Reset
    <2>2. p \in worker[w].todo \/ (Here(w) = p /\ tracking[p] >= c)
      BY <1>12 DEF Owes, Reset, At
    <2>3. Here(w) = p => tree'[p] = tracking[p]
      BY <1>1, <1>12 DEF Reset, Upstream
    <2>4. QED
      BY <1>4, <2>1, <2>2, <2>3 DEF Unmoved
  <1>13. CASE Refuse(w) \/ Clean(w) \/ Pipeline(w) \/ (Load(w) /\ Goto(w, "pipeline"))
    <2>1. Unmoved(w) /\ worker'[w].at \in {"release", "head", "pipeline"}
      BY <1>13, Onward DEF Refuse, Clean, Pipeline
    <2>2. ~ Refuse(w)
      BY DEF Refuse, NoSetupBlock, IsSetup, Owes, PushJob
    <2>3. p \in worker[w].todo
      BY <1>13, <2>2 DEF Owes, Clean, Pipeline, Load, At
    <2>4. QED
      BY <1>4, <2>1, <2>3 DEF Unmoved
  <1>14. CASE ReadNew(w) \/ Release(w)
    <2>1. p \in worker[w].todo
      BY <1>14 DEF Owes, ReadNew, Release, At
    <2>2. /\ worker'[w].at \in {"load", "choose"} /\ worker'[w].job = worker[w].job
          /\ worker'[w].todo = worker[w].todo
      BY <1>1, <1>14 DEF ReadNew, Release, KnownRun
    <2>3. QED
      BY <1>4, <2>1, <2>2
  <1>15. QED
    BY <1>2, <1>6, <1>7, <1>8, <1>9, <1>10, <1>11, <1>12, <1>13, <1>14
       DEF CalmStep, BeginPush, BeginByHand, Begin, At

\* A calm step of one run keeps every checkout served.
LEMMA CalmServes ==
  ASSUME EngineInv, Calm, \A v \in Worker : CalmRun(v), \A q \in Path : OnBranch(q),
         NEW w \in Worker, CalmStep(w), NEW c \in begun', NEW p \in Path,
         BranchOf[p] = commits[c].branch, c \in begun => Served(c, p)
  PROVE  Served(c, p)'
  <1>1. /\ worker \in [Worker -> KnownRun] /\ tree \in [Path -> DOMAIN commits]
        /\ tracking \in [Path -> DOMAIN commits] /\ begun \subseteq DOMAIN commits
        /\ commits \in Seq(Pushed)
    BY DEF EngineInv, KnownInv, WorldInv
  <1>2. Engine(w) \/ Arrival(w)
    BY DEF CalmStep, Engine, Arrival
  <1>3. UNCHANGED commits /\ PushJob(c)' = PushJob(c)
    BY <1>2, CommitsStay DEF PushJob
  <1>4. tree'[p] >= tree[p] /\ tracking'[p] >= tracking[p]
    BY CalmForward
  <1>5. CASE c \in begun
    <2>1. c \in DOMAIN commits /\ c \in Nat /\ tree[p] \in Nat /\ tracking[p] \in Nat
      BY <1>1, <1>5
    <2>2. {tree'[p], tracking'[p]} \subseteq Nat
      <3>1. KnownInv'
        BY <1>2, EngineStep DEF Next, EngineInv
      <3>2. QED
        BY <1>1, <1>3, <3>1 DEF KnownInv, WorldInv
    <2>3. CASE tree[p] >= c
      BY <1>4, <2>1, <2>2, <2>3 DEF Served
    <2>4. ASSUME NEW v \in Worker, Owes(v, c, p) PROVE Served(c, p)'
      <3>1. CASE v = w
        BY <2>1, <2>4, <3>1, CalmPays DEF Served
      <3>2. CASE v # w
        <4>1. worker'[v] = worker[v]
          BY <1>2, <3>2, OthersCheckout
        <4>2. tracking[p] >= c => tracking'[p] >= c
          BY <1>4, <2>1, <2>2
        <4>3. Owes(v, c, p)'
          BY <1>3, <2>4, <4>1, <4>2 DEF Owes, Here
        <4>4. QED
          BY <4>3 DEF Served
      <3>3. QED
        BY <3>1, <3>2
    <2>5. QED
      BY <1>5, <2>3, <2>4 DEF Served
  <1>6. CASE c \notin begun
    <2>1. BeginPush(w, c)
      <3>1. begun' # begun
        BY <1>6
      <3>2. PICK d \in Commit : BeginPush(w, d)
        BY <3>1 DEF CalmStep, Scan, End, Acquire, Release, Choose, Refuse, ReadPrevious, Fetch,
             Reset, Clean, ReadNew, Load, Pipeline, BeginByHand, checkouts
      <3>3. c = d
        BY <1>6, <3>2 DEF BeginPush
      <3>4. QED
        BY <3>2, <3>3
    <2>2. worker'[w].at = "scan" /\ worker'[w].job = PushJob(c)
      BY <1>1, <2>1 DEF BeginPush, Begin, NoRun
    <2>3. Owes(w, c, p)'
      BY <1>3, <2>2 DEF Owes
    <2>4. QED
      BY <2>3 DEF Served
  <1>7. QED
    BY <1>5, <1>6

\* A push changes nothing that is there, and no run has begun for it.
LEMMA CalmPush ==
  ASSUME EngineInv, CalmInv, Calm, NEW b \in Branch, NEW m \in Manifests, Push(b, m)
  PROVE  /\ \A w \in Worker : CalmRun(w)'
         /\ \A p \in Path : CalmPath(p)'
         /\ \A c \in begun', p \in Path : BranchOf[p] = commits'[c].branch => Served(c, p)'
  <1>1. UNCHANGED <<tree, tracking, built, worker, begun>>
    BY DEF Push, checkouts
  <1>2. \A c \in DOMAIN commits : commits'[c] = commits[c]
    BY KnownPush DEF EngineInv
  <1>3. \A w \in Worker : CalmRun(w)'
    BY <1>1 DEF CalmInv, CalmRun, IsRollback
  <1>4. /\ tree \in [Path -> DOMAIN commits] /\ tracking \in [Path -> DOMAIN commits]
        /\ begun \subseteq DOMAIN commits
    BY DEF EngineInv, KnownInv, WorldInv
  <1>5. ASSUME NEW p \in Path PROVE CalmPath(p)'
    <2>1. OnBranch(p)'
      BY <1>1, <1>2, <1>4 DEF CalmInv, CalmPath, OnBranch
    <2>2. built'[p] = tree'[p] \/ \E w \in Worker : Building(w, p)'
      BY <1>1 DEF CalmInv, CalmPath, Building, Here
    <2>3. QED
      BY <2>1, <2>2 DEF CalmPath
  <1>6. ASSUME NEW c \in begun', NEW p \in Path, BranchOf[p] = commits'[c].branch
        PROVE  Served(c, p)'
    <2>1. commits'[c] = commits[c] /\ PushJob(c)' = PushJob(c)
      BY <1>1, <1>2, <1>4, <1>6 DEF PushJob
    <2>2. Served(c, p)
      BY <1>1, <1>6, <2>1 DEF CalmInv
    <2>3. QED
      BY <1>1, <2>1, <2>2 DEF Served, Owes, Here
  <1>7. QED
    BY <1>3, <1>5, <1>6

\* Every step keeps what the calm promises, as long as it lasts.
LEMMA CalmKeeps == EngineInv /\ CalmInv /\ [Next]_vars => CalmInv'
  <1> SUFFICES ASSUME EngineInv, CalmInv, [Next]_vars, Calm'
               PROVE  /\ \A w \in Worker : CalmRun(w)'
                      /\ \A p \in Path : CalmPath(p)'
                      /\ \A c \in begun', p \in Path :
                           BranchOf[p] = commits'[c].branch => Served(c, p)'
    BY DEF CalmInv
  <1>1. /\ Calm /\ \A w \in Worker : CalmRun(w)
        /\ \A p \in Path : CalmPath(p)
        /\ \A c \in begun, p \in Path : BranchOf[p] = commits[c].branch => Served(c, p)
    BY CalmBefore DEF CalmInv
  <1>2. \A p \in Path : OnBranch(p)
    BY <1>1 DEF CalmPath
  <1>3. ASSUME NEW w \in Worker, CalmStep(w)
        PROVE  /\ \A v \in Worker : CalmRun(v)'
               /\ \A p \in Path : CalmPath(p)'
               /\ \A c \in begun', p \in Path :
                    BranchOf[p] = commits'[c].branch => Served(c, p)'
    <2>1. Engine(w) \/ Arrival(w)
      BY <1>3 DEF CalmStep, Engine, Arrival
    <2>2. UNCHANGED commits
      BY <2>1, CommitsStay
    <2>3. ASSUME NEW v \in Worker PROVE CalmRun(v)'
      <3>1. CASE v = w
        BY <1>1, <1>3, <3>1, CalmRunStep
      <3>2. CASE v # w
        <4>1. worker'[v] = worker[v]
          BY <2>1, <3>2, OthersCheckout
        <4>2. QED
          BY <1>1, <4>1 DEF CalmRun, IsRollback
      <3>3. QED
        BY <3>1, <3>2
    <2>4. ASSUME NEW p \in Path PROVE CalmPath(p)'
      <3>1. OnBranch(p)'
        BY <1>2, <1>3, CalmForward
      <3>2. built'[p] = tree'[p] \/ \E v \in Worker : Building(v, p)'
        <4>1. built[p] = tree[p] \/ \E v \in Worker : Building(v, p)
          BY <1>1 DEF CalmPath
        <4>2. QED
          BY <1>1, <1>3, <4>1, CalmBuilt
      <3>3. QED
        BY <3>1, <3>2 DEF CalmPath
    <2>5. ASSUME NEW c \in begun', NEW p \in Path, BranchOf[p] = commits'[c].branch
          PROVE  Served(c, p)'
      <3>1. BranchOf[p] = commits[c].branch
        BY <2>2, <2>5
      <3>2. QED
        BY <1>1, <1>2, <1>3, <2>5, <3>1, CalmServes
    <2>6. QED
      BY <2>3, <2>4, <2>5
  <1>4. ASSUME NEW b \in Branch, NEW m \in Manifests, Push(b, m)
        PROVE  /\ \A w \in Worker : CalmRun(w)'
               /\ \A p \in Path : CalmPath(p)'
               /\ \A c \in begun', p \in Path :
                    BranchOf[p] = commits'[c].branch => Served(c, p)'
    BY <1>1, <1>4, CalmPush
  <1>5. CASE UNCHANGED vars
    <2>1. UNCHANGED <<commits, tree, tracking, built, worker, begun>>
      BY <1>5 DEF vars, checkouts
    <2>2. QED
      BY <1>1, <2>1 DEF CalmRun, IsRollback, CalmPath, OnBranch, Building, Served, Owes,
                        PushJob, Here
  <1>6. QED
    BY <1>1, <1>3, <1>4, <1>5, CalmSteps

\* At the start every checkout is built, on the head of its branch.
LEMMA CalmStart == Init => CalmInv
  <1> SUFFICES ASSUME Init PROVE CalmInv
    OBVIOUS
  <1>1. /\ commits \in Seq(Pushed)
        /\ \A b \in Branch : \E c \in DOMAIN commits : commits[c].branch = b
    BY CheckoutAssumption DEF Init, Pushed
  <1>2. \A w \in Worker : CalmRun(w)
    BY DEF Init, NoRun, CalmRun, IsRollback, OperatorJob
  <1>3. ASSUME NEW p \in Path
        PROVE  /\ Tip(BranchOf[p]) \in DOMAIN commits
               /\ commits[Tip(BranchOf[p])].branch = BranchOf[p]
               /\ \A c \in DOMAIN commits :
                    commits[c].branch = BranchOf[p] => Tip(BranchOf[p]) >= c
    <2>1. PICK c \in DOMAIN commits : commits[c].branch = BranchOf[p]
      BY <1>1, CheckoutAssumption
    <2>2. QED
      BY <1>1, <2>1, TipIsNewest
  <1>4. ASSUME NEW p \in Path PROVE CalmPath(p)
    <2>1. tree[p] = Tip(BranchOf[p]) /\ tracking[p] = tree[p] /\ built[p] = tree[p]
      BY DEF Init
    <2>2. QED
      BY <1>1, <1>3, <2>1 DEF CalmPath, OnBranch
  <1>5. ASSUME NEW c \in begun, NEW p \in Path, BranchOf[p] = commits[c].branch
        PROVE  Served(c, p)
    BY <1>3, <1>5 DEF Init, Served
  <1>6. QED
    BY <1>2, <1>4, <1>5 DEF CalmInv

\* Deploys that overtake one another converge: when every push has had its run and nothing
\* failed or was interrupted, each checkout is on the head of its branch, built, in
\* whatever order the runs took the locks.
THEOREM DeploysConverge == Spec => []Converges
  <1>1. EngineInv /\ CalmInv => Converges
    <2> SUFFICES ASSUME EngineInv, CalmInv, \A w \in Worker : At(w, "idle"),
                        begun = DOMAIN commits, Calm, NEW p \in Path
                 PROVE  tree[p] = Tip(BranchOf[p]) /\ built[p] = tree[p]
      BY DEF Converges, Calm
    <2>1. /\ commits \in Seq(Pushed) /\ tree \in [Path -> DOMAIN commits]
          /\ tree[p] \in DOMAIN commits
      BY DEF EngineInv, KnownInv, WorldInv
    <2>2. CalmPath(p)
      BY DEF CalmInv
    <2>3. built[p] = tree[p]
      BY <2>2 DEF CalmPath, Building, At
    <2>4. /\ Tip(BranchOf[p]) \in DOMAIN commits
          /\ commits[Tip(BranchOf[p])].branch = BranchOf[p]
          /\ tree[p] <= Tip(BranchOf[p])
      BY <2>1, <2>2, TipIsNewest DEF CalmPath, OnBranch
    <2>5. Served(Tip(BranchOf[p]), p)
      BY <2>4 DEF CalmInv
    <2>6. tree[p] >= Tip(BranchOf[p])
      BY <2>5 DEF Served, Owes, At
    <2>7. QED
      BY <2>1, <2>3, <2>4, <2>6
  <1>2. EngineInv /\ CalmInv /\ [Next]_vars => CalmInv'
    BY CalmKeeps
  <1>3. QED
    BY <1>1, <1>2, CalmStart, EngineInvariant, PTL DEF Spec

=============================================================================
