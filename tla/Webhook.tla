------------------------------ MODULE Webhook -------------------------------
(***************************************************************************)
(* The webhook receiver: internal/server together with the deploy rows of  *)
(* internal/store and the start-up of cmd/serve.go.                        *)
(*                                                                         *)
(* A request is a connection slot of Conn.  hook() looks the repository up *)
(* and verifies the request, then decides it under mu; an accepted push is *)
(* answered 200 and the same slot goes on as the deploy goroutine, which   *)
(* ends by recording the outcome and taking itself off the in-flight       *)
(* count.  Shutdown, Drain, an expired budget and a kill come in between   *)
(* at any point, and the rows survive in SQLite for the next process.      *)
(*                                                                         *)
(* One action is one critical section, one SQL statement, or one response. *)
(* What a deploy does to the checkouts is Checkout.tla's subject; here it  *)
(* is an arbitrary verdict after an arbitrary time.                        *)
(***************************************************************************)
EXTENDS Naturals, FiniteSets

CONSTANTS
    Delivery,     \* X-GitHub-Delivery GUIDs of branch pushes
    Token,        \* webhook URL tokens, one per registration of a repository
    TokenOf,      \* the token in the URL each delivery is sent to
    Removable,    \* the registrations an operator removes while the daemon runs
    Conn,         \* requests and deploy goroutines alive at one time
    MaxRepoId,    \* bound on repos.id
    MaxDeployId,  \* bound on deploys.id
    MaxCrashes,   \* bound on process ends that skip the drain
    MaxFaults,    \* bound on failing SQLite writes
    NoToken, NoDelivery, NoConn

RepoId   == 1 .. MaxRepoId
DeployId == 1 .. MaxDeployId

ASSUME ConnAssumption == IsFiniteSet(Conn) /\ NoConn \notin Conn

ASSUME DeliveryAssumption ==
    /\ NoDelivery \notin Delivery
    /\ NoToken \notin Token
    /\ TokenOf \in [Delivery -> Token]
    /\ Removable \subseteq Token

ASSUME BoundAssumption ==
    /\ MaxRepoId \in Nat
    /\ MaxDeployId \in Nat
    /\ MaxCrashes \in Nat
    /\ MaxFaults \in Nat

VARIABLES
    phase,      \* where ListenAndServe is, or how the process ended
    inflight,   \* Server.inflight
    cancels,    \* Server.cancels: the goroutine each deploy id cancels
    conn,       \* the request or goroutine in each slot
    deploys,    \* the deploys table
    repos,      \* the repos table: the token registered under each id
    issued,     \* tokens ever issued; newToken never repeats one
    acked,      \* deliveries GitHub has seen a 200 for
    runs,       \* how often deploy.Run was started for each delivery
    crashes,    \* process ends that skipped the drain, so far
    faults      \* SQLite writes that failed, so far

server == <<phase, inflight, cancels>>
store  == <<deploys, repos, issued>>
counts == <<crashes, faults>>
vars   == <<server, conn, store, acked, runs, counts>>

-----------------------------------------------------------------------------
(* The rows and the slots. *)

Outcome == {"success", "failed", "skipped"}
Status  == {"absent", "running", "interrupted"} \cup Outcome

NoRow == [repo |-> 0, delivery |-> NoDelivery, status |-> "absent"]

Row == [repo : RepoId \cup {0}, delivery : Delivery \cup {NoDelivery}, status : Status]

Idle == [at |-> "idle", delivery |-> NoDelivery, repo |-> 0, id |-> 0,
         cancelled |-> FALSE, outcome |-> "absent"]

Admitted(g, r) == [at |-> "admit", delivery |-> g, repo |-> r, id |-> 0,
                   cancelled |-> FALSE, outcome |-> "absent"]

Slot == [at : {"idle", "admit", "ack", "run", "record", "leave"},
         delivery : Delivery \cup {NoDelivery},
         repo : RepoId \cup {0},
         id : DeployId \cup {0},
         cancelled : BOOLEAN,
         outcome : Status]

\* A slot the in-flight count stands for: from the hold of mu that accepted the
\* push to the deferred hold that takes it off the count.
InFlight(c) == conn[c].at \in {"ack", "run", "record", "leave"}

Draining == phase \in {"draining", "expired"}

\* No process runs.  One that drained is "stopped"; one that did not is "failed", and
\* systemd starts it again, or "killed" when systemd had been told to stop it.
Down == phase \in {"stopped", "failed", "killed"}

\* Mutant of MayAdmit: hook does not look at draining.
MayAdmit_Unchecked == TRUE

MayAdmit == ~ Draining

\* Mutant of Drained: Drain does not wait for the deploys it has cancelled.
Drained_AfterCancelling == inflight = 0 \/ phase = "expired"

Drained == inflight = 0

\* SQLite's choice for an INTEGER PRIMARY KEY without AUTOINCREMENT: one more
\* than the largest id present, so the id of a deleted last row is used again.
IsNextRowid(id, present) ==
    /\ \A i \in present : i < id
    /\ id = 1 \/ id - 1 \in present

DeployIds == {i \in DeployId : deploys[i].status # "absent"}
RepoIds   == {i \in RepoId : repos[i] # NoToken}

\* Mutant of Spent: only a delivery still being deployed is a duplicate.
Spent_WhileRunning(g) ==
    \E i \in DeployId : deploys[i].delivery = g /\ deploys[i].status = "running"

\* The unique index deploys_delivery_id.
Spent(g) == \E i \in DeployId : deploys[i].delivery = g

\* The registration whose hook sent g is still there.
Registered(g) == \E r \in RepoId : repos[r] = TokenOf[g]

-----------------------------------------------------------------------------

Init ==
    /\ phase = "stopped"
    /\ inflight = 0
    /\ cancels = [i \in DeployId |-> NoConn]
    /\ conn = [c \in Conn |-> Idle]
    /\ deploys = [i \in DeployId |-> NoRow]
    /\ repos = [i \in RepoId |-> NoToken]
    /\ issued = {}
    /\ acked = {}
    /\ runs = [g \in Delivery |-> 0]
    /\ crashes = 0
    /\ faults = 0

-----------------------------------------------------------------------------
(* The process starts. *)

\* Mutant of ReconcileInterrupted: the WHERE clause is lost.
ReconcileInterrupted_AllRows ==
    deploys' = [i \in DeployId |->
                  IF deploys[i] = NoRow
                  THEN NoRow
                  ELSE [deploys[i] EXCEPT !.status = "interrupted"]]

\* Mutant of ReconcileInterrupted: the daemon starts without settling anything.
ReconcileInterrupted_Skipped == UNCHANGED deploys

ReconcileInterrupted ==
    deploys' = [i \in DeployId |->
                  IF deploys[i].status = "running"
                  THEN [deploys[i] EXCEPT !.status = "interrupted"]
                  ELSE deploys[i]]

\* serve: settle what the previous process stranded, then listen.
Start ==
    /\ Down
    /\ ReconcileInterrupted
    /\ phase' = "serving"
    /\ UNCHANGED <<inflight, cancels, conn, repos, issued, acked, runs, counts>>

-----------------------------------------------------------------------------
(* hook: one request. *)

\* The checks before mu: a registered token, a good signature, a branch push and
\* a delivery id.  A request that fails one is answered and changes nothing, so
\* the requests received here are the ones that pass.  The repository is read now
\* and used below, by value.
Receive(c, g) ==
    /\ phase = "serving"
    /\ conn[c].at = "idle"
    /\ \E r \in RepoId :
         /\ repos[r] = TokenOf[g]
         /\ conn' = [conn EXCEPT ![c] = Admitted(g, r)]
    /\ UNCHANGED <<server, store, acked, runs, counts>>

\* Mutant of Refuse: a draining server answers 200.
Refuse_With200(c) ==
    /\ conn[c].at = "admit"
    /\ Draining
    /\ acked' = acked \cup {conn[c].delivery}
    /\ conn' = [conn EXCEPT ![c] = Idle]
    /\ UNCHANGED <<server, store, runs, counts>>

\* 503 while draining: no row, so GitHub keeps the delivery redeliverable.
Refuse(c) ==
    /\ conn[c].at = "admit"
    /\ Draining
    /\ conn' = [conn EXCEPT ![c] = Idle]
    /\ UNCHANGED <<server, store, acked, runs, counts>>

\* A GUID already in the table: 200, no work.
Duplicate(c) ==
    /\ conn[c].at = "admit"
    /\ MayAdmit
    /\ Spent(conn[c].delivery)
    /\ acked' = acked \cup {conn[c].delivery}
    /\ conn' = [conn EXCEPT ![c] = Idle]
    /\ UNCHANGED <<server, store, runs, counts>>

\* DeployStart fails for another reason: 500, no row.  Either the repository is
\* gone since it was looked up (the foreign key) or the write itself failed.
StartError(c) ==
    /\ conn[c].at = "admit"
    /\ MayAdmit
    /\ ~ Spent(conn[c].delivery)
    /\ \/ /\ repos[conn[c].repo] = NoToken
          /\ UNCHANGED faults
       \/ /\ faults < MaxFaults
          /\ faults' = faults + 1
    /\ conn' = [conn EXCEPT ![c] = Idle]
    /\ UNCHANGED <<server, store, acked, runs, crashes>>

\* The drain check, the row, the count and the cancel, in one hold of mu.
Accept(c) ==
    /\ conn[c].at = "admit"
    /\ MayAdmit
    /\ ~ Spent(conn[c].delivery)
    /\ repos[conn[c].repo] # NoToken
    /\ \E id \in DeployId :
         /\ IsNextRowid(id, DeployIds)
         /\ deploys' = [deploys EXCEPT ![id] =
                          [repo |-> conn[c].repo, delivery |-> conn[c].delivery,
                           status |-> "running"]]
         /\ conn' = [conn EXCEPT ![c].at = "ack", ![c].id = id]
         /\ cancels' = [cancels EXCEPT ![id] = c]
    /\ inflight' = inflight + 1
    /\ UNCHANGED <<phase, repos, issued, acked, runs, counts>>

\* The 200 goes out and the goroutine calls Options.Deploy.
Ack(c) ==
    /\ conn[c].at = "ack"
    /\ acked' = acked \cup {conn[c].delivery}
    /\ runs' = [runs EXCEPT ![conn[c].delivery] = @ + 1]
    /\ conn' = [conn EXCEPT ![c].at = "run"]
    /\ UNCHANGED <<server, store, counts>>

-----------------------------------------------------------------------------
(* The deploy goroutine. *)

\* deploy.Run returns, cancelled or not.
EndRun(c) ==
    /\ conn[c].at = "run"
    /\ \E o \in Outcome : conn' = [conn EXCEPT ![c].at = "record", ![c].outcome = o]
    /\ UNCHANGED <<server, store, acked, runs, counts>>

\* UPDATE deploys ... WHERE id = ?: whatever row has the id now, if any.
DeployFinish(id, outcome) ==
    deploys' = [deploys EXCEPT ![id].status =
                  IF @ = "absent" THEN @ ELSE outcome]

\* Mutant of Record: the row is written on the deploy's own context.
Record_OnDeployContext(c) ==
    /\ conn[c].at = "record"
    /\ IF conn[c].cancelled
       THEN UNCHANGED deploys
       ELSE DeployFinish(conn[c].id, conn[c].outcome)
    /\ conn' = [conn EXCEPT ![c].at = "leave"]
    /\ UNCHANGED <<server, repos, issued, acked, runs, counts>>

\* recordResult: a failing write is logged and the goroutine goes on.
Record(c) ==
    /\ conn[c].at = "record"
    /\ \/ /\ DeployFinish(conn[c].id, conn[c].outcome)
          /\ UNCHANGED faults
       \/ /\ faults < MaxFaults
          /\ faults' = faults + 1
          /\ UNCHANGED deploys
    /\ conn' = [conn EXCEPT ![c].at = "leave"]
    /\ UNCHANGED <<server, repos, issued, acked, runs, crashes>>

\* Mutant of Leave: a goroutine takes itself off the count more than once.
Leave_Again(c) ==
    /\ conn[c].at = "leave"
    /\ inflight' = inflight - 1
    /\ UNCHANGED <<phase, cancels, conn, store, acked, runs, counts>>

\* Mutant of Leave: the count is not taken down.
Leave_Counted(c) ==
    /\ conn[c].at = "leave"
    /\ conn' = [conn EXCEPT ![c] = Idle]
    /\ UNCHANGED <<server, store, acked, runs, counts>>

\* The deferred hold of mu.
Leave(c) ==
    /\ conn[c].at = "leave"
    /\ inflight' = inflight - 1
    /\ cancels' = [cancels EXCEPT ![conn[c].id] = NoConn]
    /\ conn' = [conn EXCEPT ![c] = Idle]
    /\ UNCHANGED <<phase, store, acked, runs, counts>>

-----------------------------------------------------------------------------
(* The process ends. *)

\* Every goroutine and every open connection dies with the process.
ProcessEnds(how) ==
    /\ phase' = how
    /\ inflight' = 0
    /\ cancels' = [i \in DeployId |-> NoConn]
    /\ conn' = [c \in Conn |-> Idle]

\* SIGTERM: the listener closes.
Stop ==
    /\ phase = "serving"
    /\ phase' = "shutdown"
    /\ UNCHANGED <<inflight, cancels, conn, store, acked, runs, counts>>

\* Shutdown returns, after its ten seconds at the latest, and Drain sets draining.
BeginDrain ==
    /\ phase = "shutdown"
    /\ phase' = "draining"
    /\ UNCHANGED <<inflight, cancels, conn, store, acked, runs, counts>>

\* drainTimeout expires: every registered cancel is called.
Expire ==
    /\ phase = "draining"
    /\ inflight > 0
    /\ phase' = "expired"
    /\ conn' = [c \in Conn |->
                  [conn[c] EXCEPT !.cancelled =
                     @ \/ \E i \in DeployId : cancels[i] = c]]
    /\ UNCHANGED <<inflight, cancels, store, acked, runs, counts>>

\* Drain has seen inflight reach zero; serve returns and the process exits.
Return ==
    /\ Draining
    /\ Drained
    /\ ProcessEnds("stopped")
    /\ UNCHANGED <<store, acked, runs, counts>>

\* The process ends without a drain: SIGKILL, an OOM kill, power loss, or the
\* listener failing, which ListenAndServe returns at once.  In a stop that an operator
\* asked for it may be systemd itself, at TimeoutStopSec.
Crash ==
    /\ ~ Down
    /\ crashes < MaxCrashes
    /\ crashes' = crashes + 1
    /\ ProcessEnds(IF phase = "serving" THEN "failed" ELSE "killed")
    /\ UNCHANGED <<store, acked, runs, faults>>

\* systemctl stop in the seconds before systemd starts a failed daemon again.
CallOff ==
    /\ phase = "failed"
    /\ phase' = "killed"
    /\ UNCHANGED <<inflight, cancels, conn, store, acked, runs, counts>>

-----------------------------------------------------------------------------
(* The command line, in another process. *)

\* repo add.
RepoInsert(t) ==
    /\ t \notin issued
    /\ issued' = issued \cup {t}
    /\ \E r \in RepoId :
         /\ IsNextRowid(r, RepoIds)
         /\ repos' = [repos EXCEPT ![r] = t]
    /\ UNCHANGED <<server, conn, deploys, acked, runs, counts>>

\* repo remove: the row goes, and its deploys with it (ON DELETE CASCADE).
RepoDelete(r) ==
    /\ repos[r] \in Removable
    /\ repos' = [repos EXCEPT ![r] = NoToken]
    /\ deploys' = [i \in DeployId |->
                     IF deploys[i].repo = r THEN NoRow ELSE deploys[i]]
    /\ UNCHANGED <<server, conn, issued, acked, runs, counts>>

-----------------------------------------------------------------------------

Goroutine(c) == Ack(c) \/ EndRun(c) \/ Record(c) \/ Leave(c)

Request(c) ==
    \/ \E g \in Delivery : Receive(c, g)
    \/ Refuse(c)
    \/ Duplicate(c)
    \/ StartError(c)
    \/ Accept(c)

Next ==
    \/ \E c \in Conn : Request(c) \/ Goroutine(c)
    \/ Start \/ Stop \/ BeginDrain \/ Expire \/ Return \/ Crash \/ CallOff
    \/ \E t \in Token : RepoInsert(t)
    \/ \E r \in RepoId : RepoDelete(r)

Spec == Init /\ [][Next]_vars

\* Every goroutine is bounded by deployTimeout and its own step timeouts, Shutdown
\* by ten seconds; systemd restarts a daemon that failed by itself (Restart=on-failure),
\* and never one that it was told to stop, however that one ended.
Fairness ==
    /\ \A c \in Conn : WF_vars(Goroutine(c))
    /\ WF_vars(BeginDrain)
    /\ WF_vars(Return)
    /\ WF_vars(phase = "failed" /\ Start)

FairSpec == Spec /\ Fairness

-----------------------------------------------------------------------------
(* Properties. *)

TypeOK ==
    /\ phase \in {"stopped", "serving", "shutdown", "draining", "expired", "failed", "killed"}
    /\ inflight \in Nat
    /\ cancels \in [DeployId -> Conn \cup {NoConn}]
    /\ conn \in [Conn -> Slot]
    /\ deploys \in [DeployId -> Row]
    /\ repos \in [RepoId -> Token \cup {NoToken}]
    /\ issued \subseteq Token
    /\ acked \subseteq Delivery
    /\ runs \in [Delivery -> Nat]
    /\ crashes \in 0 .. MaxCrashes
    /\ faults \in 0 .. MaxFaults

\* As long as its repository is registered, a push is deployed at most once,
\* however often it is sent again and across restarts: hook's dedup guard.
AtMostOnce == \A g \in Delivery : Registered(g) => runs[g] <= 1

\* A delivery GitHub was told 200 for has a row, so the dedup index never hides a
\* push that was not recorded: why a draining hook answers 503.
AckedIsRecorded == \A g \in acked : Registered(g) => Spent(g)

\* As long as no process was killed and no write failed, a row says running only
\* while its deploy is alive in a process: what Drain and the recording context of
\* deployAndRecord are for.
NoZombieRow ==
    crashes = 0 /\ faults = 0 =>
        \A i \in DeployId :
            deploys[i].status = "running" =>
                \E c \in Conn : InFlight(c) /\ conn[c].id = i

\* Once the drain budget has expired, every deploy still running has been
\* cancelled: none is left that Drain can count but not cancel.  Checked where no
\* registration is removed; WebhookRemoval.cfg shows what a removal does to it.
DrainCancelsAll ==
    phase = "expired" =>
        \A c \in Conn : conn[c].at \in {"ack", "run"} => conn[c].cancelled

\* A process that ends by draining ends with no deploy in flight: the count that
\* Drain waits on stands for all of them.
ReturnAbandonsNothing ==
    [][phase' = "stopped" => \A c \in Conn : ~ InFlight(c)]_phase

\* Seen from outside, the receiver and its restarts keep the ledger of Ledger.tla:
\* one opening, one final outcome for each delivery.
LedgerOf(g) ==
    IF Spent(g)
    THEN deploys[CHOOSE i \in DeployId : deploys[i].delivery = g].status
    ELSE "unseen"

L == INSTANCE Ledger WITH ledger <- [g \in Delivery |-> LedgerOf(g)]

RefinesLedger == L!Spec

\* A delivery taken by a process that fails, or by one that drains, does not stay
\* running, unless a write failed: the next start settles what the process could not.
\* Only a daemon that was told to stop and did not drain may leave it so: systemd does
\* not start it again by itself.
RowsSettle ==
    \A g \in Delivery :
        (LedgerOf(g) = "running") ~>
            (LedgerOf(g) # "running" \/ faults > 0 \/ phase = "killed")

\* A shutdown comes to an end.
ShutdownEnds == (phase = "shutdown") ~> Down

=============================================================================
