----------------------------- MODULE Uninstall -----------------------------
(***************************************************************************)
(* Taking rec-deploy off a server: the uninstall command, which cleans up  *)
(* at GitHub while the ids are still stored, and internal/uninstall, which *)
(* stops the services and removes files, data and the binary.              *)
(*                                                                         *)
(* The engine never aborts: a target that fails is reported and the next   *)
(* one gets its turn.  A run can be killed, cancelled or refused, and run  *)
(* again over what it left; meanwhile an operator may register another     *)
(* repository, and a daemon that did not stop or an update that the timer  *)
(* started earlier goes on writing.                                        *)
(***************************************************************************)
EXTENDS Naturals, FiniteSets

CONSTANTS
    Repo,
    Unit,           \* the unit files the installer drops (units.Names)
    Enablable,      \* those that can be enabled (disableUnits)
    Legacy,         \* the units of a former release (legacyUnits)
    Daemon,         \* rec-deploy.service
    MaxRuns,        \* bound on runs of uninstall
    MaxTrouble      \* bound on failures, cancellations, kills, registrations and
                    \* reinstallations

Binary  == "binary"
Helper  == "helper"                 \* legacyDir
DataDir == {"config", "state"}      \* the token; the database and the deploy keys
Managed == Enablable \cup Legacy

ASSUME UninstallAssumption ==
    /\ Enablable \subseteq Unit /\ Daemon \in Enablable /\ Unit \cap Legacy = {}
    /\ IsFiniteSet(Repo) /\ IsFiniteSet(Unit) /\ IsFiniteSet(Legacy)
    /\ MaxRuns \in Nat /\ MaxTrouble \in Nat

VARIABLES
    github,     \* what each repository has at GitHub
    rows,       \* the repositories with a row, and so with the ids to clean up
    dirs,       \* the data directories there are
    service,    \* what systemd says of each unit
    files,      \* the unit files under UnitsDir
    helper, binary,
    host,       \* systemd: is it running; packaged: what a package owns
    updating,   \* a self-update, started earlier, is watching the daemon
    run,
    runs, trouble,
    accepted,   \* history: left at GitHub with the operator's consent
    late,       \* history: registered after the inventory
    back        \* history: put back by the daemon or the update

registry == <<github, rows>>
local    == <<service, files, helper, binary>>
counts   == <<runs, trouble>>
history  == <<accepted, late, back>>
vars     == <<registry, dirs, local, host, updating, run, counts, history>>

Artifact == {"hook", "key"}
Target   == ({"service"} \X Managed) \cup ({"file"} \X (Unit \cup Legacy))
            \cup ({"dir"} \X DataDir) \cup {<<"path", Helper>>, <<"path", Binary>>}
            \cup {<<"reload", "systemd">>}
Outcome  == {"none", "removed", "kept", "already gone", "failed", "deferred"}

\* repos: the inventory.  todo: what is left of this phase; now:
\* the repository being cleaned.
\* stripped: a unit file was removed.  misled: systemctl or dpkg did not answer and was
\* taken at its silence.  start is history: the troubles so far when it began.
NoRun == [at |-> "idle", keepGitHub |-> FALSE, keepData |-> FALSE,
          repos |-> {}, now |-> {}, failed |-> {}, todo |-> {}, package |-> FALSE,
          stripped |-> FALSE, report |-> [t \in Target |-> "none"], cancelled |-> FALSE,
          exit |-> "none", misled |-> FALSE, start |-> 0]

Step == {"idle", "inventory", "ask", "client", "github", "hook", "key", "file", "row",
         "gate", "package", "services", "files", "data", "helper", "binary",
         "report", "ended"}

\* A server set up by install.sh or by a package, perhaps updated from a former release,
\* perhaps with the daemon stopped by hand.
Init ==
    /\ rows \in SUBSET Repo
    /\ github = [r \in Repo |-> IF r \in rows THEN Artifact ELSE {}]
    /\ dirs = DataDir
    /\ \E legacy \in BOOLEAN, packaged \in {{}, {Binary}, {Binary, Daemon}},
          systemd \in BOOLEAN :
        /\ host = [systemd |-> systemd, packaged |-> packaged]
        /\ files = (IF packaged = {Binary} THEN {} ELSE Unit)
                   \cup (IF legacy THEN Legacy ELSE {})
        /\ helper = legacy
        /\ \E state \in {{"enabled", "active"}, {"enabled"}} :
             service = [u \in Managed |->
                 IF systemd /\ (u \in Enablable \/ legacy) THEN state ELSE {}]
    /\ binary = TRUE
    /\ updating \in BOOLEAN
    /\ run = NoRun
    /\ runs = 0 /\ trouble = 0
    /\ accepted = {} /\ late = {} /\ back = {}

At(at) == run.at = at
Goto(at) == run' = [run EXCEPT !.at = at]
End(exit) == run' = [run EXCEPT !.at = "ended", !.exit = exit]

Running == run.at \notin {"idle", "ended"}

Trouble == trouble < MaxTrouble /\ trouble' = trouble + 1 /\ UNCHANGED runs

\* A call fails, by itself or because the context of the run is cancelled.
Fails == IF run.cancelled THEN UNCHANGED counts ELSE Trouble
Works == ~ run.cancelled /\ UNCHANGED counts

-----------------------------------------------------------------------------
(* runUninstall: the inventory and the questions. *)

Begin(keepGitHub, keepData) ==
    /\ run.at \in {"idle", "ended"}
    /\ binary
    /\ runs < MaxRuns
    /\ runs' = runs + 1
    /\ run' = [NoRun EXCEPT !.at = "inventory", !.keepGitHub = keepGitHub,
                            !.keepData = keepData, !.start = trouble]
    /\ UNCHANGED <<registry, dirs, local, host, updating, trouble, history>>

\* What of the inventory the operator agrees to leave at GitHub.
Leaves(repos) ==
    /\ accepted' = (accepted \ rows) \cup repos
    /\ late' = late \ rows
    /\ back' = {}

\* registeredRepos.  No database reads as no repository; the clean-up follows only if
\* there is one and --keep-github was not given.
Inventory ==
    /\ At("inventory")
    /\ ~ run.cancelled \/ rows = {}
    /\ run' = [run EXCEPT !.repos = rows, !.at = "ask"]
    /\ Leaves(IF run.keepGitHub THEN rows ELSE {})
    /\ UNCHANGED <<registry, dirs, local, host, updating, counts>>

\* A database that cannot be read stops the run, or with --keep-github reads as none.
InventoryFails ==
    /\ At("inventory")
    /\ "state" \in dirs
    /\ Fails
    /\ IF run.keepGitHub THEN Goto("ask") ELSE End("error")
    /\ Leaves(IF run.keepGitHub THEN rows ELSE {})
    /\ UNCHANGED <<registry, dirs, local, host, updating>>

AfterAsking(keepGitHub) ==
    IF ~ keepGitHub /\ run.repos # {} THEN "client" ELSE "package"

\* With --yes, straight on.  Without it the run is refused where nobody can be asked,
\* called off, or goes on with more of it kept.
Ask ==
    /\ At("ask")
    /\ \/ Goto(AfterAsking(run.keepGitHub)) /\ UNCHANGED history
       \/ End("back") /\ UNCHANGED history
       \/ \E keepGitHub, keepData \in BOOLEAN :
            /\ run.keepGitHub \/ run.repos = {} => keepGitHub = run.keepGitHub
            /\ run.keepData => keepData
            /\ run' = [run EXCEPT !.keepGitHub = keepGitHub, !.keepData = keepData,
                                  !.at = AfterAsking(keepGitHub)]
            /\ accepted' = IF keepGitHub THEN accepted \cup run.repos ELSE accepted
            /\ UNCHANGED <<late, back>>
    /\ UNCHANGED <<registry, dirs, local, host, updating, counts>>

-----------------------------------------------------------------------------
(* Phase 1: GitHub, while the token and the ids still exist. *)

\* githubClient and openStore.  Without config there may still be a token elsewhere.
Client ==
    /\ At("client")
    /\ ~ run.cancelled
    /\ run' = [run EXCEPT !.todo = run.repos, !.at = "github"]
    /\ UNCHANGED <<registry, dirs, local, host, updating, counts, history>>

ClientFails ==
    /\ At("client")
    /\ IF "config" \in dirs THEN Fails ELSE UNCHANGED counts
    /\ End("error")
    /\ UNCHANGED <<registry, dirs, local, host, updating, history>>

NextRepo(r) ==
    /\ At("github") /\ r \in run.todo
    /\ run' = [run EXCEPT !.todo = @ \ {r}, !.now = {r}, !.at = "hook"]
    /\ UNCHANGED <<registry, dirs, local, host, updating, counts, history>>

\* Mutant of Forgets: deleteRepoArtifacts drops the row before the key at GitHub.
Forgets_Early(at) == at = "hook"

\* The row goes last, so that what fails before it can be repeated.
Forgets(at) == at = "row"

\* deleteRepoArtifacts, call by call.  A 404 is the answer asked for.
CleanStep(r, at, next) ==
    /\ At(at) /\ run.now = {r}
    /\ IF at = "file" THEN UNCHANGED counts ELSE Works  \* sshkey.Remove takes no context
    /\ github' = [github EXCEPT ![r] = @ \ {at}]
    /\ rows' = IF Forgets(at) THEN rows \ {r} ELSE rows
    /\ run' = [run EXCEPT !.at = next, !.now = IF at = "row" THEN {} ELSE @]
    /\ UNCHANGED <<dirs, local, host, updating, history>>

DeleteHook(r) == CleanStep(r, "hook", "key")
DeleteKey(r)  == CleanStep(r, "key", "file")
RemoveKey(r)  == CleanStep(r, "file", "row")      \* the key pair on disk
DeleteRow(r)  == CleanStep(r, "row", "github")

\* A call fails, at GitHub perhaps after it took effect; the others get their turn.
CleanFails(r) ==
    /\ run.at \in {"hook", "key", "file", "row"} /\ run.now = {r}
    /\ IF At("file") THEN Trouble ELSE Fails
    /\ \/ UNCHANGED github
       \/ run.at \in Artifact /\ github' = [github EXCEPT ![r] = @ \ {run.at}]
    /\ run' = [run EXCEPT !.failed = @ \cup {r}, !.now = {}, !.at = "github"]
    /\ UNCHANGED <<rows, dirs, local, host, updating, history>>

GitHubDone ==
    /\ At("github") /\ run.todo = {}
    /\ Goto("gate")
    /\ UNCHANGED <<registry, dirs, local, host, updating, counts, history>>

\* What failed would stay at GitHub, with nothing left here to remove it.
Orphans == run.failed # {}

\* The gate: the data below holds the ids.  Anything but a yes at a terminal stops here.
Gate ==
    /\ At("gate")
    /\ \/ /\ ~ Orphans \/ run.keepData
          /\ Goto("package")
          /\ UNCHANGED history
       \/ /\ Orphans /\ ~ run.keepData
          /\ End("error")
          /\ UNCHANGED history
       \/ /\ Orphans /\ ~ run.keepData
          /\ Goto("package")
          /\ accepted' = accepted \cup run.failed
          /\ UNCHANGED <<late, back>>
    /\ UNCHANGED <<registry, dirs, local, host, updating, counts>>

-----------------------------------------------------------------------------
(* Phase 2: uninstall.Run.  Nothing here ends the run. *)

\* The targets of a phase are taken in an order of the code's own: what a former release
\* left comes last, and the state directory after the config directory.
Later == Legacy \cup {"state"}
Turn(x) ==
    LET first == IF run.todo \subseteq Later THEN run.todo ELSE run.todo \ Later
    IN x \in run.todo /\ x = CHOOSE y \in first : TRUE

Report(t, o) == [run EXCEPT !.report[t] = o, !.todo = @ \ {t[2]}]

\* queryPackageOwner: a tool that fails, or is not started, reads as no owner.
Owned(name, owned) ==
    \/ Works /\ owned = (name \in host.packaged)
    \/ Fails /\ owned = FALSE

Package ==
    /\ At("package")
    /\ \E owned \in BOOLEAN :
         /\ Owned(Binary, owned)
         /\ run' = [run EXCEPT !.package = owned, !.at = "services", !.todo = Managed,
                               !.misled = owned # (Binary \in host.packaged)]
    /\ UNCHANGED <<registry, dirs, local, host, updating, history>>

\* Mutant of Runs: only a unit that is enabled and active is stopped.
Runs_Both(u) == service[u] = {"enabled", "active"}

Runs(u) == service[u] # {}

\* IsEnabled or IsActive; no answer reads as no.
Service(u) ==
    /\ At("services") /\ host.systemd /\ Turn(u)
    /\ LET skipped == IF u \in Legacy THEN "none" ELSE "already gone" IN
       \/ /\ Works /\ Runs(u)                       \* DisableNow
          /\ service' = [service EXCEPT ![u] = {}]
          /\ run' = Report(<<"service", u>>, "removed")
       \/ /\ Trouble /\ ~ run.cancelled /\ Runs(u)
          /\ service' \in {service, [service EXCEPT ![u] = @ \ {"enabled"}]}
          /\ run' = Report(<<"service", u>>, "failed")
       \/ /\ Works /\ ~ Runs(u)
          /\ run' = Report(<<"service", u>>, skipped)
          /\ UNCHANGED service
       \/ /\ Fails
          /\ run' = [Report(<<"service", u>>, skipped) EXCEPT !.misled = TRUE]
          /\ UNCHANGED service
    /\ UNCHANGED <<registry, dirs, files, helper, binary, host, updating, history>>

ServicesDone ==
    /\ At("services")
    /\ ~ host.systemd \/ run.todo = {}
    /\ run' = [run EXCEPT !.at = "files", !.todo = Unit \cup {u \in Legacy : u \in files}]
    /\ UNCHANGED <<registry, dirs, local, host, updating, counts, history>>

\* Mutant of Fate: what is not there counts as a failure.
Fate_Failed(present) == IF present THEN "removed" ELSE "failed"

\* Mutant of Fate: a step is written down without its outcome.
Fate_Empty(present) == IF present THEN "removed" ELSE ""

\* What os.Remove came to: ErrNotExist is no failure, or no second run would be clean.
Fate(present) == IF present THEN "removed" ELSE "already gone"

\* Ownership is asked of each file, not taken from the binary's.
UnitFile(u) ==
    /\ At("files") /\ Turn(u)
    /\ \E owned \in BOOLEAN :
         /\ Owned(u, owned)
         /\ run' = [Report(<<"file", u>>, IF owned THEN "deferred" ELSE Fate(u \in files)) EXCEPT
                      !.stripped = run.stripped \/ (~ owned /\ u \in files),
                      !.misled = run.misled \/ owned # (u \in host.packaged)]
         /\ files' = IF owned THEN files ELSE files \ {u}
    /\ UNCHANGED <<registry, dirs, service, helper, binary, host, updating, history>>

UnitFileFails(u) ==
    /\ At("files") /\ Turn(u) /\ u \in files
    /\ u \in host.packaged => run.cancelled
    /\ Trouble
    /\ run' = Report(<<"file", u>>, "failed")
    /\ UNCHANGED <<registry, dirs, local, host, updating, history>>

\* daemon-reload, if a file went; only its failure is reported.
Reload ==
    /\ At("files") /\ run.todo = {}
    /\ LET next == [run EXCEPT !.at = "data", !.todo = DataDir] IN
       \/ ~ (run.stripped /\ host.systemd) /\ run' = next /\ UNCHANGED counts
       \/ run.stripped /\ host.systemd /\ Works /\ run' = next
       \/ /\ run.stripped /\ host.systemd /\ Fails
          /\ run' = [next EXCEPT !.report[<<"reload", "systemd">>] = "failed"]
    /\ UNCHANGED <<registry, dirs, local, host, updating, history>>

\* The database is in the state directory.
Wipes(d) == rows' = IF d = "state" THEN {} ELSE rows

Data(d) ==
    /\ At("data") /\ Turn(d)
    /\ IF run.keepData THEN
         /\ run' = Report(<<"dir", d>>, "kept")
         /\ UNCHANGED <<rows, dirs>>
       ELSE
         /\ run' = Report(<<"dir", d>>, Fate(d \in dirs))
         /\ dirs' = dirs \ {d}
         /\ Wipes(d)
    /\ UNCHANGED <<github, local, host, updating, counts, history>>

\* RemoveAll fails, before or after it removed what the directory holds.
DataFails(d) ==
    /\ At("data") /\ Turn(d) /\ d \in dirs
    /\ ~ run.keepData
    /\ Trouble
    /\ run' = Report(<<"dir", d>>, "failed")
    /\ Wipes(d) \/ UNCHANGED rows
    /\ UNCHANGED <<github, dirs, local, host, updating, history>>

DataDone ==
    /\ At("data") /\ run.todo = {}
    /\ Goto("helper")
    /\ UNCHANGED <<registry, dirs, local, host, updating, counts, history>>

\* binary: what a former release downloaded goes first, and only if it is there.
HelperDir ==
    /\ At("helper")
    /\ \/ /\ helper' = FALSE /\ UNCHANGED counts
          /\ run' = [run EXCEPT !.at = "binary",
                                !.report[<<"path", Helper>>] = IF helper THEN "removed" ELSE "none"]
       \/ /\ helper /\ Trouble /\ UNCHANGED helper
          /\ run' = [run EXCEPT !.at = "binary", !.report[<<"path", Helper>>] = "failed"]
    /\ UNCHANGED <<registry, dirs, service, files, binary, host, updating, history>>

\* The executable goes last, whatever failed before, unless a package owns it.
BinaryFile ==
    /\ At("binary")
    /\ LET Ends(o) == run' = [run EXCEPT !.at = "report", !.report[<<"path", Binary>>] = o] IN
       \/ run.package /\ Ends("deferred") /\ UNCHANGED <<binary, counts>>
       \/ ~ run.package /\ Ends(Fate(binary)) /\ binary' = FALSE /\ UNCHANGED counts
       \/ ~ run.package /\ binary /\ Ends("failed") /\ Trouble /\ UNCHANGED binary
    /\ UNCHANGED <<registry, dirs, service, files, helper, host, updating, history>>

Failed == run.failed # {} \/ \E t \in Target : run.report[t] = "failed"

\* With --json the report is printed, and the status is zero whatever it says.
Finish ==
    /\ At("report")
    /\ End("printed") \/ End(IF Failed THEN "error" ELSE "ok")
    /\ UNCHANGED <<registry, dirs, local, host, updating, counts, history>>

-----------------------------------------------------------------------------
(* What else happens on the server. *)

\* The first Ctrl+C, or SIGTERM, cancels the context and ends nothing by itself.
Cancel ==
    /\ Running /\ ~ run.cancelled
    /\ Trouble
    /\ run' = [run EXCEPT !.cancelled = TRUE]
    /\ UNCHANGED <<registry, dirs, local, host, updating, history>>

Kill ==
    /\ Running
    /\ Trouble
    /\ run' = NoRun
    /\ UNCHANGED <<registry, dirs, local, host, updating, history>>

\* repo add, from the call at GitHub to the row; the store is opened, hence made.
Register(r) ==
    /\ binary /\ "config" \in dirs
    /\ r \notin rows /\ github[r] = {}
    /\ Trouble
    /\ github' = [github EXCEPT ![r] = Artifact]
    /\ rows' = rows \cup {r}
    /\ dirs' = dirs \cup {"state"}
    /\ accepted' = accepted \ {r}
    /\ late' = late \cup {r}
    /\ back' = back \cup {<<"dir", "state">>}
    /\ UNCHANGED <<local, host, updating, run>>

\* An update under watch finds the daemon stopped, takes it for a bad release, puts the
\* kept binary back by a rename and opens the store to remember the tag.
UpdateLands ==
    /\ updating /\ updating' = FALSE
    /\ binary' \in {binary, TRUE}
    /\ dirs' \in {dirs, dirs \cup {"state"}}
    /\ back' = back \cup {<<"path", Binary>>, <<"dir", "state">>}
    /\ UNCHANGED <<registry, service, files, helper, host, run, counts, accepted, late>>

\* The operator puts the binary back: without it no further run can start.
PutBack ==
    /\ ~ Running /\ ~ binary
    /\ Trouble
    /\ binary' = TRUE
    /\ back' = back \cup {<<"path", Binary>>}
    /\ UNCHANGED <<registry, dirs, service, files, helper, host, updating, run, accepted, late>>

\* A daemon that still runs makes the directory of its locks again.
DaemonLocks ==
    /\ "active" \in service[Daemon] /\ "state" \notin dirs
    /\ dirs' = dirs \cup {"state"}
    /\ back' = back \cup {<<"dir", "state">>}
    /\ UNCHANGED <<registry, local, host, updating, run, counts, accepted, late>>

Start == \E keepGitHub, keepData \in BOOLEAN : Begin(keepGitHub, keepData)

Clean(r) == \/ NextRepo(r) \/ DeleteHook(r) \/ DeleteKey(r) \/ RemoveKey(r) \/ DeleteRow(r)
            \/ CleanFails(r)

Strip(u) == Service(u) \/ UnitFile(u) \/ UnitFileFails(u)

Uninstalling ==
    \/ Inventory \/ InventoryFails \/ Ask \/ Client \/ ClientFails
    \/ \E r \in Repo : Clean(r)
    \/ GitHubDone \/ Gate \/ Package \/ ServicesDone \/ Reload \/ DataDone
    \/ \E u \in Unit \cup Legacy : Strip(u)
    \/ \E d \in DataDir : Data(d) \/ DataFails(d)
    \/ HelperDir \/ BinaryFile \/ Finish

Elsewhere ==
    \/ Cancel \/ Kill \/ UpdateLands \/ PutBack \/ DaemonLocks
    \/ \E r \in Repo : Register(r)

Next == Start \/ Uninstalling \/ Elsewhere

Spec == Init /\ [][Next]_vars

-----------------------------------------------------------------------------
RunType ==
    [at : Step, keepGitHub : BOOLEAN, keepData : BOOLEAN,
     repos : SUBSET Repo, now : SUBSET Repo, failed : SUBSET Repo,
     todo : SUBSET (Repo \cup Unit \cup Legacy \cup DataDir), package : BOOLEAN,
     stripped : BOOLEAN, report : [Target -> Outcome], cancelled : BOOLEAN,
     exit : {"none", "ok", "printed", "error", "back"}, misled : BOOLEAN, start : Nat]

TypeOK ==
    /\ github \in [Repo -> SUBSET Artifact]
    /\ rows \subseteq Repo /\ dirs \subseteq DataDir
    /\ service \in [Managed -> SUBSET {"enabled", "active"}]
    /\ files \subseteq Unit \cup Legacy /\ helper \in BOOLEAN /\ binary \in BOOLEAN
    /\ host \in [systemd : BOOLEAN, packaged : SUBSET ({Binary} \cup Unit)]
    /\ updating \in BOOLEAN
    /\ run \in RunType
    /\ runs \in 0 .. MaxRuns /\ trouble \in 0 .. MaxTrouble
    /\ accepted \subseteq Repo /\ late \subseteq Repo /\ back \subseteq Target

\* README.md: "uninstall stops before destroying the data they live in".  What is left of
\* a repository at GitHub has its ids in the database, whatever failed, was killed or was
\* run again; unless the operator agreed to leave it, or registered it after the
\* inventory of the run that removed the data.
OrphansAreAccepted ==
    \A r \in Repo : github[r] # {} => r \in rows \cup accepted \cup late

\* What is no longer here, by what systemd and the disk say.
Gone(t) == CASE t[1] = "service" -> service[t[2]] = {}
             [] t[1] = "file" -> t[2] \notin files
             [] t[1] = "dir" -> t[2] \notin dirs
             [] t = <<"path", Helper>> -> ~ helper
             [] t = <<"path", Binary>> -> ~ binary
             [] OTHER -> TRUE

Finished == At("ended") /\ run.exit \in {"ok", "printed"}

\* "The report is the full account of a run -- nothing the engine did is silent": when it
\* was printed, each target is gone or the report says why not, and a status of zero
\* without --json means nothing failed.  Except for what the update or the daemon put
\* back, and for a run to which systemctl or dpkg did not answer: it takes no answer for
\* "not running" and "not owned".
ReportAccountsForAll ==
    /\ Finished /\ ~ run.misled =>
         \A t \in Target \ back : Gone(t) \/ run.report[t] \in {"kept", "failed", "deferred"}
    /\ run.exit = "ok" => ~ Failed

\* "A half-removed install must be finishable by a second run": a run that goes on
\* and meets no trouble ends well and leaves nothing but what was to be kept or is the
\* package manager's, whatever earlier runs left; only a database without its token
\* stops it, and --keep-github gets it past that.  This is of a run that starts.  The code
\* removes the binary last whatever failed before it, so after a failed step the operator
\* has to put the binary back before "a re-run finishes what is left".
HalfRemovedIsFinishable ==
    At("ended") /\ run.start = trouble /\ run.exit # "back" =>
      \/ /\ Finished /\ ~ Failed
         /\ \A t \in Target \ back :
              \/ Gone(t)
              \/ run.report[t] = "kept" /\ run.keepData
              \/ run.report[t] = "deferred" /\ t[2] \in host.packaged
         /\ run.keepGitHub \/ \A r \in run.repos : github[r] = {}
      \/ ~ run.keepGitHub /\ run.repos # {} /\ "config" \notin dirs

=============================================================================
