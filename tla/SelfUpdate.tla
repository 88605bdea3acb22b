----------------------------- MODULE SelfUpdate -----------------------------
(***************************************************************************)
(* Updating the binary: internal/selfupdate, the self-update command, the  *)
(* bad-release memory of the store, and the systemd unit of the daemon.    *)
(*                                                                         *)
(* A run of the updater is the hourly timer's, or an operator's; nothing   *)
(* keeps two apart.  A supervised run (--restart) keeps the outgoing       *)
(* binary, installs, restarts the unit, watches it and, unless it stays    *)
(* up, puts the kept binary back, restarts again and remembers the tag.  A *)
(* run without --restart installs and leaves.                              *)
(*                                                                         *)
(* Time is what the watch sees of it: a release in Crashers lives for less *)
(* than Streak samples of a watcher, and the unit's RestartSec (5 s)       *)
(* outlasts pollInterval (1 s), so every watcher sees a crash as a gap.    *)
(***************************************************************************)
EXTENDS Naturals, FiniteSets, FiniteSetsExt

CONSTANTS
    Release,        \* versions, in the order of semver; 0 is none
    First,          \* what is installed and running at the start
    Crashers,       \* the releases whose daemon dies soon after it starts
    Updater,
    Samples,        \* samples the budget of a watch (RestartOptions.Wait) allows
    MaxRuns,        \* bound on runs of the updater
    MaxTrouble      \* bound on faults, operators, cancellations, kills and withdrawals

Streak == 3         \* waitHealthy's streak

ASSUME SelfUpdateAssumption ==
    /\ Release \subseteq Nat \ {0} /\ First \in Release /\ Crashers \subseteq Release
    /\ Samples \in Nat /\ Samples >= Streak
    /\ MaxRuns \in Nat /\ MaxTrouble \in Nat

VARIABLES
    releases,   \* GitHub: the releases that can be downloaded
    binary,     \* the release at the path the unit starts
    kept,       \* the release at BackupPath
    badTag,     \* update_state.bad_tag
    unit,       \* the unit, as systemd sees it
    daemon,     \* the release of its last process
    run,        \* what each updater is doing
    runs,       \* runs of the updater so far
    faults,     \* commands, writes and daemons that failed by themselves
    meddling,   \* what an operator did to the unit
    cancels, kills,
    withdrawn   \* the releases taken back

system == <<binary, kept, badTag, unit, daemon>>
trouble == <<faults, meddling, cancels, kills, withdrawn>>
counts == <<runs, trouble>>
vars   == <<releases, system, run, counts>>

\* waiting: it failed, and Restart=on-failure will start it again.  restarting and
\* stopping: the old process is draining.
UnitState == {"active", "waiting", "restarting", "stopping", "stopped"}

\* cancelled: the context is over.  memory: the store could be opened.  lived: samples
\* of this watch the current process has survived.
\* quiet is history: during this run no other run, no operator and no fault came in.
NoRun == [at |-> "idle", supervised |-> FALSE, cancelled |-> FALSE, quiet |-> FALSE,
          memory |-> FALSE, bad |-> 0, current |-> 0, latest |-> 0,
          updated |-> FALSE, restarted |-> FALSE, rolledBack |-> FALSE,
          samples |-> 0, seen |-> 0, lived |-> 0]

Step == {"idle", "recall", "check", "prepare", "backup", "install", "decide", "restart",
         "join", "watch", "restore", "recover", "record", "done"}

Init ==
    /\ releases = {First} /\ binary = First /\ daemon = First
    /\ kept = 0 /\ badTag = 0 /\ unit = "active"
    /\ run = [w \in Updater |-> NoRun]
    /\ runs = 0
    /\ faults = 0 /\ meddling = 0 /\ cancels = 0 /\ kills = 0 /\ withdrawn = {}

At(w, at) == run[w].at = at

Goto(w, at) == run' = [run EXCEPT ![w].at = at]

Troubled == faults + meddling + cancels + kills + Cardinality(withdrawn)

\* Whoever is at work is disturbed.
Disturbed(rs) == [v \in Updater |-> IF rs[v].at = "idle" THEN rs[v]
                                    ELSE [rs[v] EXCEPT !.quiet = FALSE]]

\* A step of w ends badly, by itself, or because its context is over.
Fault ==
    /\ Troubled < MaxTrouble
    /\ faults' = faults + 1
    /\ UNCHANGED <<meddling, cancels, kills, withdrawn>>

FailsTo(w, at) ==
    \/ Fault /\ run' = [run EXCEPT ![w].at = at, ![w].quiet = FALSE]
    \/ run[w].cancelled /\ Goto(w, at) /\ UNCHANGED trouble

FaultTo(w, at) == Fault /\ run' = [run EXCEPT ![w].at = at, ![w].quiet = FALSE]

Latest == Max(releases)

-----------------------------------------------------------------------------
(* selfUpdateRestart and selfUpdateInstall: is there anything to install? *)

Begin(w, supervised) ==
    /\ At(w, "idle")
    /\ runs < MaxRuns
    /\ runs' = runs + 1
    /\ run' = [Disturbed(run) EXCEPT ![w] =
         [NoRun EXCEPT !.at = IF supervised THEN "recall" ELSE "prepare",
                       !.supervised = supervised, !.current = binary,
                       !.quiet = \A v \in Updater : At(v, "idle")]]
    /\ UNCHANGED <<releases, system, trouble>>

\* openStore and LastBadTag.
Recall(w) ==
    /\ At(w, "recall")
    /\ ~ run[w].cancelled
    /\ run' = [run EXCEPT ![w].memory = TRUE, ![w].bad = badTag,
                          ![w].at = IF badTag # 0 THEN "check" ELSE "prepare"]
    /\ UNCHANGED <<releases, system, counts>>

\* The store does not open (no memory in this run), or the read fails.
RecallFails(w) ==
    /\ At(w, "recall")
    /\ \/ Fault /\ \E memory \in BOOLEAN :
             run' = [run EXCEPT ![w].at = "prepare", ![w].memory = memory, ![w].quiet = FALSE]
       \/ run[w].cancelled /\ Goto(w, "prepare") /\ UNCHANGED trouble
    /\ UNCHANGED <<releases, system, runs>>

\* Mutant of SkipsKnownBad: the memory is written and never asked.
SkipsKnownBad_Never(w) == FALSE

SkipsKnownBad(w) == Latest > run[w].current /\ Latest = run[w].bad

Check(w) ==
    /\ At(w, "check")
    /\ ~ run[w].cancelled
    /\ Goto(w, IF SkipsKnownBad(w) THEN "done" ELSE "prepare")
    /\ UNCHANGED <<releases, system, counts>>

CheckFails(w) ==
    /\ At(w, "check")
    /\ FailsTo(w, "prepare")
    /\ UNCHANGED <<releases, system, runs>>

\* The newest release, downloaded and verified, if it is newer than this binary.
Prepare(w) ==
    /\ At(w, "prepare")
    /\ ~ run[w].cancelled
    /\ run' = [run EXCEPT ![w].latest = Latest,
                 ![w].at = IF Latest <= run[w].current THEN "done"
                           ELSE IF run[w].supervised THEN "backup" ELSE "install"]
    /\ UNCHANGED <<releases, system, counts>>

PrepareFails(w) ==
    /\ At(w, "prepare")
    /\ FailsTo(w, "done")
    /\ UNCHANGED <<releases, system, runs>>

-----------------------------------------------------------------------------
(* ApplyAndRestart. *)

\* Mutant of Backup: the outgoing binary is not copied aside.
Backup_Skipped(w) ==
    /\ At(w, "backup")
    /\ Goto(w, "install")
    /\ UNCHANGED <<releases, system, counts>>

Backup(w) ==
    /\ At(w, "backup")
    /\ kept' = binary
    /\ Goto(w, "install")
    /\ UNCHANGED <<releases, binary, badTag, unit, daemon, counts>>

\* The copy fails, or only its chmod does.
BackupFails(w) ==
    /\ At(w, "backup")
    /\ kept' \in {kept, binary}
    /\ FaultTo(w, "done")
    /\ UNCHANGED <<releases, binary, badTag, unit, daemon, runs>>

Install(w) ==
    /\ At(w, "install")
    /\ binary' = run[w].latest
    /\ run' = [run EXCEPT ![w].updated = TRUE,
                          ![w].at = IF run[w].supervised THEN "decide" ELSE "done"]
    /\ UNCHANGED <<releases, kept, badTag, unit, daemon, counts>>

\* The archive or the swap is bad; a cancelled context stops `sudo install`.
InstallFails(w) ==
    /\ At(w, "install")
    /\ FailsTo(w, "done")
    /\ UNCHANGED <<releases, system, runs>>

\* is-active says no, and could be asked.
LeftStopped(w) == unit # "active" /\ ~ run[w].cancelled

Decide(w) ==
    /\ At(w, "decide")
    /\ Goto(w, IF LeftStopped(w) THEN "done" ELSE "restart")
    /\ UNCHANGED <<releases, system, counts>>

\* systemctl try-restart: it does nothing to a unit that is stopped or on its way down.
Restartable == unit \in {"active", "waiting"}

TryRestarted == IF Restartable THEN "restarting" ELSE unit

Restart(w) ==
    /\ At(w, "restart")
    /\ ~ run[w].cancelled
    /\ unit' = TryRestarted
    /\ Goto(w, IF Restartable THEN "join" ELSE "watch")
    /\ UNCHANGED <<releases, binary, kept, badTag, daemon, counts>>

RestartFails(w) ==
    /\ At(w, "restart")
    /\ FailsTo(w, "restore")
    /\ UNCHANGED <<releases, system, runs>>

\* systemctl returns when the job is over.
Join(w) ==
    /\ At(w, "join")
    /\ unit # "restarting"
    /\ Goto(w, "watch")
    /\ UNCHANGED <<releases, system, counts>>

\* systemctl is killed, and the job goes on without it; or a stop cancels the job.
JoinFails(w) ==
    /\ At(w, "join")
    /\ \/ FailsTo(w, "restore")
       \/ unit \in {"stopping", "stopped"} /\ Goto(w, "restore") /\ UNCHANGED trouble
    /\ UNCHANGED <<releases, system, runs>>

\* Mutant of Healthy: one sample is enough.
Healthy_AtOnce(seen) == seen >= 1
Healthy(seen) == seen = Streak

\* Mutant of TimeIsUp: Wait is not raised to the floor a streak needs.
TimeIsUp_NoFloor(samples) == samples >= Streak - 1
TimeIsUp(samples) == samples = Samples

\* waitHealthy: a second, then is-active.
Sample(w) ==
    /\ At(w, "watch")
    /\ ~ run[w].cancelled
    /\ ~ TimeIsUp(run[w].samples)
    /\ IF unit = "active"
       THEN /\ daemon \in Crashers => run[w].lived < Streak - 1
            /\ LET seen == run[w].seen + 1
                   r == [run[w] EXCEPT
                          !.samples = run[w].samples + 1, !.seen = seen,
                          !.lived = run[w].lived + 1, !.restarted = Healthy(seen),
                          !.at = IF Healthy(seen) THEN "done" ELSE "watch"]
               IN run' = [run EXCEPT ![w] = r]
       ELSE run' = [run EXCEPT ![w].samples = @ + 1, ![w].seen = 0]
    /\ UNCHANGED <<releases, system, counts>>

Unhealthy(w) ==
    /\ At(w, "watch")
    /\ run[w].cancelled \/ TimeIsUp(run[w].samples)
    /\ Goto(w, "restore")
    /\ UNCHANGED <<releases, system, counts>>

-----------------------------------------------------------------------------
(* rollback, on a context of its own, and the memory of it. *)

\* Mutant of Restore: the copy goes the wrong way.
Restore_Swapped(w) ==
    /\ At(w, "restore")
    /\ kept' = binary
    /\ run' = [run EXCEPT ![w].rolledBack = TRUE, ![w].at = "recover"]
    /\ UNCHANGED <<releases, binary, badTag, unit, daemon, counts>>

Restore(w) ==
    /\ At(w, "restore")
    /\ binary' = kept
    /\ run' = [run EXCEPT ![w].rolledBack = TRUE, ![w].at = "recover"]
    /\ UNCHANGED <<releases, kept, badTag, unit, daemon, counts>>

\* "restore it by hand": no restart, but the tag is remembered.
RestoreFails(w) ==
    /\ At(w, "restore")
    /\ Fault
    /\ run' = [run EXCEPT ![w].rolledBack = TRUE, ![w].quiet = FALSE, ![w].at = "record"]
    /\ UNCHANGED <<releases, system, runs>>

\* Mutant of Recover: the second restart runs on the context of the run.
Recover_Attached(w) ==
    /\ At(w, "recover")
    /\ unit' = IF run[w].cancelled THEN unit ELSE TryRestarted
    /\ Goto(w, "record")
    /\ UNCHANGED <<releases, binary, kept, badTag, daemon, counts>>

\* The second restart; after 30 seconds systemctl is not waited for, and the job goes on.
Recover(w) ==
    /\ At(w, "recover")
    /\ unit' = TryRestarted
    /\ Goto(w, "record")
    /\ UNCHANGED <<releases, binary, kept, badTag, daemon, counts>>

RecoverFails(w) ==
    /\ At(w, "recover")
    /\ FaultTo(w, "record")
    /\ UNCHANGED <<releases, system, runs>>

Record(w) ==
    /\ At(w, "record")
    /\ badTag' = IF run[w].memory THEN run[w].latest ELSE badTag
    /\ Goto(w, "done")
    /\ UNCHANGED <<releases, binary, kept, unit, daemon, counts>>

RecordFails(w) ==
    /\ At(w, "record")
    /\ FaultTo(w, "done")
    /\ UNCHANGED <<releases, system, runs>>

\* The outcome is reported and the process ends.
Finish(w) ==
    /\ At(w, "done")
    /\ run' = [run EXCEPT ![w] = NoRun]
    /\ UNCHANGED <<releases, system, counts>>

-----------------------------------------------------------------------------
(* systemd and the daemon. *)

\* A process of the release on disk; nobody has seen it yet.
Starts(rs) ==
    /\ unit' = "active"
    /\ daemon' = binary
    /\ run' = [v \in Updater |-> [rs[v] EXCEPT !.lived = 0]]

JobEnds ==
    /\ \/ unit = "restarting" /\ Starts(run)
       \/ unit = "stopping" /\ unit' = "stopped" /\ UNCHANGED <<daemon, run>>
    /\ UNCHANGED <<releases, binary, kept, badTag, counts>>

Crash ==
    /\ unit = "active"
    /\ daemon \in Crashers
    /\ unit' = "waiting"
    /\ UNCHANGED <<releases, binary, kept, badTag, daemon, run, counts>>

\* The daemon of a good release fails: its port is taken, the kernel kills it.
Die ==
    /\ unit = "active"
    /\ daemon \notin Crashers
    /\ Fault
    /\ unit' = "waiting"
    /\ run' = Disturbed(run)
    /\ UNCHANGED <<releases, binary, kept, badTag, daemon, runs>>

\* RestartSec has passed: whoever watches has seen the gap.
AutoRestart ==
    /\ unit = "waiting"
    /\ \A w \in Updater : At(w, "watch") => run[w].seen = 0
    /\ Starts(run)
    /\ UNCHANGED <<releases, binary, kept, badTag, counts>>

\* systemctl stop, start and restart.
Meddle ==
    /\ Troubled < MaxTrouble
    /\ meddling' = meddling + 1
    /\ \/ /\ unit \in {"active", "restarting"}
          /\ unit' = "stopping" /\ run' = Disturbed(run) /\ UNCHANGED daemon
       \/ /\ unit = "waiting"
          /\ unit' = "stopped" /\ run' = Disturbed(run) /\ UNCHANGED daemon
       \/ unit \in {"stopped", "waiting"} /\ Starts(Disturbed(run))
       \/ /\ unit = "active"
          /\ unit' = "restarting" /\ run' = Disturbed(run) /\ UNCHANGED daemon
    /\ UNCHANGED <<releases, binary, kept, badTag, runs, faults, cancels, kills, withdrawn>>

-----------------------------------------------------------------------------
(* What comes from outside. *)

Publish(r) ==
    /\ r \in Release
    /\ r > Latest /\ r \notin withdrawn
    /\ releases' = releases \cup {r}
    /\ UNCHANGED <<system, run, counts>>

\* The newest release is taken back; the one before is the latest again.
Withdraw ==
    /\ Troubled < MaxTrouble
    /\ withdrawn' = withdrawn \cup {Latest}
    /\ releases \ {Latest} # {}
    /\ releases' = releases \ {Latest}
    /\ run' = Disturbed(run)
    /\ UNCHANGED <<system, runs, faults, meddling, cancels, kills>>

\* Ctrl+C, or systemd stops the update unit.
Cancel(w) ==
    /\ run[w].at \notin {"idle", "done"}
    /\ ~ run[w].cancelled
    /\ Troubled < MaxTrouble
    /\ cancels' = cancels + 1
    /\ run' = [run EXCEPT ![w].cancelled = TRUE]
    /\ UNCHANGED <<releases, system, runs, faults, meddling, kills, withdrawn>>

Kill(w) ==
    /\ ~ At(w, "idle")
    /\ Troubled < MaxTrouble
    /\ kills' = kills + 1
    /\ run' = [run EXCEPT ![w] = NoRun]
    /\ UNCHANGED <<releases, system, runs, faults, meddling, cancels, withdrawn>>

-----------------------------------------------------------------------------

Update(w) ==
    \/ Recall(w) \/ RecallFails(w) \/ Check(w) \/ CheckFails(w)
    \/ Prepare(w) \/ PrepareFails(w)
    \/ Backup(w) \/ BackupFails(w) \/ Install(w) \/ InstallFails(w)
    \/ Decide(w) \/ Restart(w) \/ RestartFails(w) \/ Join(w) \/ JoinFails(w)
    \/ Sample(w) \/ Unhealthy(w)
    \/ Restore(w) \/ RestoreFails(w) \/ Recover(w) \/ RecoverFails(w)
    \/ Record(w) \/ RecordFails(w) \/ Finish(w)

Systemd == JobEnds \/ Crash \/ AutoRestart

Next ==
    \/ \E w \in Updater :
         \/ Update(w) \/ Cancel(w) \/ Kill(w)
         \/ \E supervised \in BOOLEAN : Begin(w, supervised)
    \/ Systemd \/ Die \/ Meddle \/ Withdraw
    \/ \E r \in Release : Publish(r)

Spec == Init /\ [][Next]_vars

\* Every command of the updater ends, and systemd does what it has to.
Fairness == (\A w \in Updater : WF_vars(Update(w))) /\ WF_vars(JobEnds)
            /\ WF_vars(Crash) /\ WF_vars(AutoRestart)

FairSpec == Spec /\ Fairness

-----------------------------------------------------------------------------
(* Properties. *)

RunType ==
    [at : Step, supervised : BOOLEAN, cancelled : BOOLEAN, quiet : BOOLEAN,
     memory : BOOLEAN, bad : Release \cup {0}, current : Release \cup {0},
     latest : Release \cup {0}, updated : BOOLEAN, restarted : BOOLEAN,
     rolledBack : BOOLEAN, samples : 0 .. Samples, seen : 0 .. Streak,
     lived : 0 .. Samples]

TypeOK ==
    /\ releases \subseteq Release /\ releases # {}
    /\ binary \in Release /\ daemon \in Release
    /\ kept \in Release \cup {0} /\ badTag \in Release \cup {0}
    /\ unit \in UnitState
    /\ run \in [Updater -> RunType]
    /\ runs \in 0 .. MaxRuns
    /\ {faults, meddling, cancels, kills} \subseteq 0 .. MaxTrouble
    /\ withdrawn \subseteq Release

\* An update reported as restarted runs: the daemon is a process of the new release, and
\* no release that crashes gets that far (superviseRestart, waitHealthy).
RestartedIsRunning ==
    \A w \in Updater :
        At(w, "done") /\ run[w].quiet /\ run[w].restarted =>
            /\ unit = "active"
            /\ {binary, daemon} = {run[w].latest}
            /\ run[w].latest \notin Crashers

\* A rollback leaves nothing of the release behind, cancelled or not: the binary is the
\* outgoing one, the tag is remembered, and no process of the release goes on running.
RolledBackIsBack ==
    \A w \in Updater :
        At(w, "done") /\ run[w].quiet /\ run[w].rolledBack =>
            /\ binary = run[w].current
            /\ badTag = run[w].latest
            /\ unit = "active" => daemon # run[w].latest

\* A release that stays up is kept: only a crash, a cancellation or somebody else's hand
\* has it rolled back.
GoodReleaseIsKept ==
    \A w \in Updater :
        At(w, "done") /\ run[w].quiet /\ run[w].rolledBack =>
            run[w].latest \in Crashers \/ run[w].cancelled

\* A release that was remembered as bad is not installed again by a quiet supervised run:
\* another updater, an operator or a failing call beside it ends the promise.
BadIsNotRetried ==
    [][\A w \in Updater :
         /\ At(w, "install") /\ run'[w].at = "decide" /\ run[w].quiet
         => run[w].latest # badTag]_vars

\* A supervised update onto a crashing release does not end the service: while nobody
\* else interferes, or installs by hand, the daemon of a good release is up again.
ServiceComesBack ==
    \A w \in Updater :
        (run[w].at \in {"join", "watch", "restore", "recover"} /\ run[w].quiet
         /\ binary \in Crashers /\ run[w].current \notin Crashers)
        ~> \/ unit = "active" /\ daemon \notin Crashers
           \/ faults > 0 \/ meddling > 0 \/ kills > 0 \/ withdrawn # {}
           \/ \E v \in Updater : ~ At(v, "idle") /\ (v # w \/ ~ run[v].supervised)

=============================================================================
