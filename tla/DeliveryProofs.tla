--------------------------- MODULE DeliveryProofs ---------------------------
(***************************************************************************)
(* Proofs about deliveries in Webhook.tla: a push is deployed at most once *)
(* and a 200 has a row, however registrations come and go meanwhile; a row *)
(* says running while its deploy is alive, an expired drain reaches every  *)
(* deploy, and the receiver implements Ledger.  The last two are about     *)
(* daemons whose registrations stay: WebhookRemoval.cfg shows what a       *)
(* removal does.                                                           *)
(*                                                                         *)
(* The invariant says where the parts of the system agree on a delivery    *)
(* whose registration still stands: the table of repositories, the copy a  *)
(* request holds, the row, the run counter and what GitHub was told.       *)
(***************************************************************************)
EXTENDS WebhookProofs

-----------------------------------------------------------------------------

\* A goroutine that is about to record has a verdict.
VerdictIsKnown == \A c \in Conn : conn[c].at = "record" => conn[c].outcome \in Outcome

SoundInv == CountInv /\ VerdictIsKnown

\* A token is registered under one id, and was issued.
TokensAreOnce ==
    /\ \A r \in RepoId : repos[r] # NoToken => repos[r] \in issued
    /\ \A r, s \in RepoId : repos[r] = repos[s] /\ repos[r] # NoToken => r = s

\* The registration that sent g exists or existed, and if it stands it is row r.
Belongs(g, r) == TokenOf[g] \in issued /\ (Registered(g) => repos[r] = TokenOf[g])

RequestsBelong ==
    \A c \in Conn : conn[c].at # "idle" => Belongs(conn[c].delivery, conn[c].repo)

RowsBelong ==
    \A i \in DeployId :
        \/ deploys[i] = NoRow
        \/ /\ deploys[i].status # "absent"
           /\ deploys[i].delivery \in Delivery
           /\ deploys[i].repo \in RepoId
           /\ Belongs(deploys[i].delivery, deploys[i].repo)

\* Nothing was done for g yet, and no goroutine is about to.
Untouched(g) ==
    /\ runs[g] = 0
    /\ g \notin acked
    /\ \A c \in Conn : conn[c].at = "ack" => conn[c].delivery # g

\* Nothing is done for a delivery before its row is written.
FreshIsUntouched ==
    \A g \in Delivery :
        TokenOf[g] \notin issued \/ (Registered(g) /\ ~ Spent(g)) => Untouched(g)

\* The run and the goroutine that is about to start one count together.
RunsOnce ==
    \A g \in Delivery : Registered(g) =>
        /\ runs[g] <= 1
        /\ \A c \in Conn : conn[c].at = "ack" /\ conn[c].delivery = g =>
             /\ runs[g] = 0
             /\ \A d \in Conn : conn[d].at = "ack" /\ conn[d].delivery = g => d = c

DeliveryInv ==
    /\ SoundInv
    /\ TokensAreOnce
    /\ RequestsBelong /\ RowsBelong
    /\ FreshIsUntouched /\ RunsOnce

\* Only EndRun brings a slot to record, with the verdict of the run.
LEMMA SoundStep == SoundInv /\ [Next]_vars => SoundInv'
  <1> SUFFICES ASSUME SoundInv, [Next]_vars PROVE SoundInv'
    OBVIOUS
  <1>1. CountInv'
    BY CountStep DEF SoundInv
  <1>2. ASSUME NEW d \in Conn, conn'[d].at = "record" PROVE conn'[d].outcome \in Outcome
    <2>1. conn \in [Conn -> Slot] /\ conn[d] \in Slot /\ Idle.at = "idle"
      BY IdleIsASlot DEF SoundInv, CountInv, TypeOK
    <2>2. ASSUME NEW c \in Conn, Request(c) \/ Goroutine(c)
          PROVE  conn'[d].outcome \in Outcome
      BY <1>2, <2>1, <2>2
         DEF Request, Receive, Refuse, Duplicate, StartError, Accept, Goroutine, Ack, EndRun,
             Record, Leave, Admitted, Slot, SoundInv, VerdictIsKnown
    <2>3. CASE Expire
      BY <1>2, <2>1, <2>3 DEF Expire, Slot, SoundInv, VerdictIsKnown
    <2>4. CASE Return \/ Crash
      BY <1>2, <2>1, <2>4 DEF Return, Crash, ProcessEnds
    <2>5. CASE UNCHANGED conn
      BY <1>2, <2>5 DEF SoundInv, VerdictIsKnown
    <2>6. QED
      BY <2>2, <2>3, <2>4, <2>5 DEF Next, vars, Start, Stop, BeginDrain, CallOff, RepoInsert,
                                       RepoDelete
  <1>3. QED
    BY <1>1, <1>2 DEF SoundInv, VerdictIsKnown

-----------------------------------------------------------------------------
(* The state functions the invariant is built from, across a step. *)

\* A step that leaves the table of repositories alone leaves what it says alone.
LEMMA RegistryUnchanged ==
  ASSUME UNCHANGED <<repos, issued>>
  PROVE  /\ \A g \in Delivery : Registered(g)' <=> Registered(g)
         /\ \A g \in Delivery, r \in RepoId : Belongs(g, r)' <=> Belongs(g, r)
         /\ TokensAreOnce => TokensAreOnce'
  BY DEF Registered, Belongs, TokensAreOnce

\* What a request holds in its slot, and what a row holds, is of the types the
\* registry speaks of.
LEMMA Typed ==
  ASSUME DeliveryInv
  PROVE  /\ \A c \in Conn : conn[c].at # "idle" => conn[c].delivery \in Delivery /\ conn[c].repo \in RepoId
         /\ \A g \in Delivery : TokenOf[g] \in Token /\ TokenOf[g] # NoToken
         /\ NoDelivery \notin Delivery
         /\ conn \in [Conn -> Slot] /\ deploys \in [DeployId -> Row]
         /\ runs \in [Delivery -> Nat] /\ acked \subseteq Delivery
         /\ NoRow.delivery \notin Delivery /\ NoRow.status = "absent"
  BY DeliveryAssumption DEF DeliveryInv, SoundInv, CountInv, SlotsFilled, TypeOK, NoRow

\* A step that leaves the rows' deliveries and repositories, the registry, the run
\* counters and acked alone, and lets no slot on to a start, keeps the invariant.
LEMMA QuietStep ==
  ASSUME DeliveryInv, SoundInv', UNCHANGED <<repos, issued, runs, acked>>,
         \A i \in DeployId :
            \/ deploys'[i] = deploys[i]
            \/ /\ deploys[i] # NoRow /\ deploys'[i].status # "absent"
               /\ deploys'[i].delivery = deploys[i].delivery
               /\ deploys'[i].repo = deploys[i].repo,
         \A c \in Conn :
            \/ conn'[c].at = "idle"
            \/ /\ conn[c].at # "idle"
               /\ conn'[c].at = "ack" => conn[c].at = "ack"
               /\ conn'[c].delivery = conn[c].delivery /\ conn'[c].repo = conn[c].repo
  PROVE  DeliveryInv'
  <1> USE Typed DEF DeliveryInv
  <1>1. RequestsBelong'
    BY RegistryUnchanged DEF RequestsBelong
  <1>2. RowsBelong'
    BY RegistryUnchanged DEF RowsBelong
  <1>3. \A g \in Delivery : Spent(g)' <=> Spent(g)
    BY DEF Spent
  <1>4. FreshIsUntouched'
    BY <1>3, RegistryUnchanged DEF FreshIsUntouched, Untouched
  <1>5. RunsOnce'
    BY RegistryUnchanged DEF RunsOnce
  <1>6. QED
    BY <1>1, <1>2, <1>4, <1>5, RegistryUnchanged

-----------------------------------------------------------------------------
(* The actions. *)

\* A process that has not started has promised nothing.
LEMMA DeliveryInit == Init => DeliveryInv
  <1> SUFFICES ASSUME Init PROVE DeliveryInv
    OBVIOUS
  <1>1. SoundInv
    BY CountInit DEF Init, Idle, SoundInv, VerdictIsKnown
  <1>2. TokensAreOnce /\ RequestsBelong /\ RowsBelong
    BY DEF Init, TokensAreOnce, RequestsBelong, RowsBelong, Idle
  <1>3. FreshIsUntouched /\ RunsOnce
    BY DEF Init, FreshIsUntouched, Untouched, RunsOnce, Idle
  <1>4. QED
    BY <1>1, <1>2, <1>3 DEF DeliveryInv

\* The life of the process, and what a goroutine does after its run has started,
\* promise nothing new.
LEMMA QuietActions ==
  ASSUME DeliveryInv, SoundInv',
         \/ Start \/ Stop \/ BeginDrain \/ Expire \/ Return \/ Crash \/ CallOff
         \/ \E c \in Conn : Refuse(c) \/ StartError(c) \/ EndRun(c) \/ Record(c) \/ Leave(c)
  PROVE  DeliveryInv'
  <1>1. UNCHANGED <<repos, issued, runs, acked>>
    BY DEF Start, Stop, BeginDrain, Expire, Return, Crash, CallOff, Refuse,
           StartError, EndRun, Record, Leave, store
  <1>2. ASSUME NEW i \in DeployId
        PROVE  \/ deploys'[i] = deploys[i]
               \/ /\ deploys[i] # NoRow /\ deploys'[i].status # "absent"
                  /\ deploys'[i].delivery = deploys[i].delivery
                  /\ deploys'[i].repo = deploys[i].repo
    <2> deploys \in [DeployId -> Row] /\ conn \in [Conn -> Slot]
      BY Typed
    <2>1. CASE UNCHANGED deploys
      BY <2>1
    <2>2. CASE Start
      BY <2>2, Typed DEF Start, ReconcileInterrupted, Row
    <2>3. CASE \E c \in Conn : Record(c) /\ DeployFinish(conn[c].id, conn[c].outcome)
      <3> PICK c \in Conn : Record(c) /\ DeployFinish(conn[c].id, conn[c].outcome)
        BY <2>3
      <3>1. conn[c].id \in DeployId
        BY DEF Record, InFlight, DeliveryInv, SoundInv, CountInv, SlotsFilled
      <3>2. deploys[i] \in Row
        OBVIOUS
      <3>3. CASE i # conn[c].id \/ deploys[i].status = "absent"
        BY <3>1, <3>2, <3>3 DEF DeployFinish, Row
      <3>4. CASE i = conn[c].id /\ deploys[i].status # "absent"
        <4>1. deploys'[i] = [deploys[i] EXCEPT !.status = conn[c].outcome]
          BY <3>1, <3>4 DEF DeployFinish
        <4>2. conn[c].outcome # "absent"
          BY DEF Record, Outcome, DeliveryInv, SoundInv, VerdictIsKnown
        <4>3. QED
          BY <3>2, <3>4, <4>1, <4>2, Typed DEF Row
      <3>5. QED
        BY <3>3, <3>4
    <2>4. QED
      BY <2>1, <2>2, <2>3
         DEF Start, Stop, BeginDrain, Expire, Return, Crash, CallOff, Refuse,
             StartError, EndRun, Record, Leave, store
  <1>3. ASSUME NEW d \in Conn
        PROVE  \/ conn'[d].at = "idle"
               \/ /\ conn[d].at # "idle"
                  /\ conn'[d].at = "ack" => conn[d].at = "ack"
                  /\ conn'[d].delivery = conn[d].delivery
                  /\ conn'[d].repo = conn[d].repo
    <2>1. conn \in [Conn -> Slot] /\ conn[d] \in Slot
      BY Typed
    <2>2. CASE Start \/ Stop \/ BeginDrain \/ CallOff
      BY <2>2 DEF Start, Stop, BeginDrain, CallOff
    <2>3. CASE Expire
      BY <2>1, <2>3 DEF Expire, Slot
    <2>4. CASE Return \/ Crash
      BY <2>4, IdleIsASlot DEF Return, Crash, ProcessEnds
    <2>5. CASE \E c \in Conn : Refuse(c) \/ StartError(c) \/ EndRun(c) \/ Record(c) \/ Leave(c)
      BY <2>1, <2>5, IdleIsASlot DEF Refuse, StartError, EndRun, Record, Leave, Slot
    <2>6. QED
      BY <2>2, <2>3, <2>4, <2>5
  <1>4. QED
    BY <1>1, <1>2, <1>3, QuietStep

\* A request holds the registration it was sent to.
LEMMA ReceiveKeepsPromise ==
  ASSUME DeliveryInv, SoundInv', NEW c \in Conn, NEW g \in Delivery, Receive(c, g)
  PROVE  DeliveryInv'
  <1> USE Typed DEF DeliveryInv
  <1> PICK r \in RepoId : repos[r] = TokenOf[g] /\ conn' = [conn EXCEPT ![c] = Admitted(g, r)]
    BY DEF Receive
  <1>1. UNCHANGED <<repos, issued, runs, acked, deploys>> /\ conn[c].at = "idle"
    BY DEF Receive, store
  <1>2. Belongs(g, r)
    BY DEF TokensAreOnce, Belongs
  <1>3. RequestsBelong'
    BY <1>1, <1>2, RegistryUnchanged DEF RequestsBelong, Admitted
  <1>4. RowsBelong'
    BY <1>1, RegistryUnchanged DEF RowsBelong
  <1>5. FreshIsUntouched' /\ RunsOnce'
    BY <1>1, RegistryUnchanged DEF FreshIsUntouched, Untouched, RunsOnce, Spent, Admitted
  <1>6. QED
    BY <1>1, <1>3, <1>4, <1>5, RegistryUnchanged

\* A duplicate is answered 200 because its row is there.
LEMMA DuplicateKeepsPromise ==
  ASSUME DeliveryInv, SoundInv', NEW c \in Conn, Duplicate(c)
  PROVE  DeliveryInv'
  <1> USE Typed DEF DeliveryInv
  <1>1. /\ UNCHANGED <<repos, issued, runs, deploys>>
        /\ conn[c].at = "admit" /\ Spent(conn[c].delivery)
        /\ acked' = acked \cup {conn[c].delivery}
        /\ conn' = [conn EXCEPT ![c] = Idle]
    BY DEF Duplicate, store
  <1>2. Idle.at = "idle" /\ Belongs(conn[c].delivery, conn[c].repo)
    BY <1>1, IdleIsASlot DEF RequestsBelong
  <1>3. RequestsBelong' /\ RowsBelong'
    BY <1>1, <1>2, RegistryUnchanged DEF RequestsBelong, RowsBelong
  <1>4. FreshIsUntouched'
    BY <1>1, <1>2, RegistryUnchanged DEF FreshIsUntouched, Untouched, Spent, Belongs
  <1>5. RunsOnce'
    BY <1>1, <1>2, RegistryUnchanged DEF RunsOnce
  <1>6. QED
    BY <1>1, <1>3, <1>4, <1>5, RegistryUnchanged

\* The hold of mu that accepts a push spends its delivery: the new row takes the
\* place of none, and the goroutine is the first of the delivery.
LEMMA AcceptKeepsPromise ==
  ASSUME DeliveryInv, SoundInv', NEW c \in Conn, Accept(c)
  PROVE  DeliveryInv'
  <1> USE Typed DEF DeliveryInv
  <1> PICK id \in DeployId :
        /\ IsNextRowid(id, DeployIds)
        /\ deploys' = [deploys EXCEPT ![id] =
                         [repo |-> conn[c].repo, delivery |-> conn[c].delivery,
                          status |-> "running"]]
        /\ conn' = [conn EXCEPT ![c].at = "ack", ![c].id = id]
    BY DEF Accept
  <1> DEFINE g == conn[c].delivery
  <1>1. /\ UNCHANGED <<repos, issued, runs, acked>>
        /\ conn[c].at = "admit" /\ ~ Spent(g) /\ g \in Delivery /\ conn[c].repo \in RepoId
    BY DEF Accept
  <1>2. Belongs(g, conn[c].repo)
    BY <1>1 DEF RequestsBelong
  <1>3. deploys[id] = NoRow
    BY DEF IsNextRowid, DeployIds, DeployId, RowsBelong
  <1>4. /\ conn'[c].at = "ack" /\ conn'[c].delivery = g /\ conn'[c].repo = conn[c].repo
        /\ \A d \in Conn \ {c} : conn'[d] = conn[d]
    BY DEF Slot
  <1>5. RequestsBelong'
    BY <1>1, <1>2, <1>4, RegistryUnchanged DEF RequestsBelong
  <1>6. RowsBelong'
    BY <1>1, <1>2, RegistryUnchanged DEF RowsBelong
  <1>7. \A h \in Delivery : Spent(h)' <=> Spent(h) \/ h = g
    BY <1>1, <1>3 DEF Spent
  <1>8. FreshIsUntouched'
    BY <1>1, <1>2, <1>4, <1>7, RegistryUnchanged DEF FreshIsUntouched, Untouched, Belongs
  <1>9. RunsOnce'
    <2>1. ASSUME NEW h \in Delivery, Registered(h), h # g
          PROVE  /\ runs[h] <= 1
                 /\ \A d \in Conn : conn'[d].at = "ack" /\ conn'[d].delivery = h =>
                      /\ runs[h] = 0
                      /\ \A e \in Conn : conn'[e].at = "ack" /\ conn'[e].delivery = h => e = d
      BY <1>4, <2>1 DEF RunsOnce
    <2>2. ASSUME Registered(g)
          PROVE  /\ runs[g] <= 1
                 /\ \A d \in Conn : conn'[d].at = "ack" /\ conn'[d].delivery = g =>
                      /\ runs[g] = 0
                      /\ \A e \in Conn : conn'[e].at = "ack" /\ conn'[e].delivery = g => e = d
      <3>1. Untouched(g)
        BY <1>1, <2>2 DEF FreshIsUntouched
      <3>2. QED
        BY <1>1, <1>4, <3>1 DEF Untouched
    <2>3. QED
      BY <1>1, <2>1, <2>2, RegistryUnchanged DEF RunsOnce
  <1>10. QED
    BY <1>1, <1>5, <1>6, <1>8, <1>9, RegistryUnchanged

\* The 200 and the start of the run: the only goroutine of the delivery that had
\* not started yet.
LEMMA AckKeepsPromise ==
  ASSUME DeliveryInv, SoundInv', NEW c \in Conn, Ack(c)
  PROVE  DeliveryInv'
  <1> USE Typed DEF DeliveryInv
  <1> DEFINE g == conn[c].delivery
  <1>1. /\ UNCHANGED <<repos, issued, deploys>>
        /\ conn[c].at = "ack" /\ g \in Delivery
        /\ acked' = acked \cup {g}
        /\ runs' = [runs EXCEPT ![g] = @ + 1]
        /\ conn' = [conn EXCEPT ![c].at = "run"]
    BY DEF Ack, store
  <1>2. /\ conn'[c].at = "run" /\ conn'[c].delivery = g /\ conn'[c].repo = conn[c].repo
        /\ \A d \in Conn \ {c} : conn'[d] = conn[d]
    BY <1>1 DEF Slot
  <1>3. RequestsBelong' /\ RowsBelong'
    BY <1>1, <1>2, RegistryUnchanged DEF RequestsBelong, RowsBelong
  <1>4. ~ Untouched(g)
    BY <1>1 DEF Untouched
  <1>5. \A h \in Delivery : Spent(h)' <=> Spent(h)
    BY <1>1 DEF Spent
  <1>6. FreshIsUntouched'
    BY <1>1, <1>2, <1>4, <1>5, RegistryUnchanged DEF FreshIsUntouched, Untouched
  <1>7. RunsOnce'
    <2>1. ASSUME NEW h \in Delivery, Registered(h)
          PROVE  /\ runs'[h] <= 1
                 /\ \A d \in Conn : conn'[d].at = "ack" /\ conn'[d].delivery = h =>
                      /\ runs'[h] = 0
                      /\ \A e \in Conn : conn'[e].at = "ack" /\ conn'[e].delivery = h => e = d
      <3>1. CASE h = g
        BY <1>1, <1>2, <2>1, <3>1 DEF RunsOnce
      <3>2. CASE h # g
        BY <1>1, <1>2, <2>1, <3>2 DEF RunsOnce
      <3>3. QED
        BY <3>1, <3>2
    <2>2. QED
      BY <1>1, <2>1, RegistryUnchanged DEF RunsOnce
  <1>8. QED
    BY <1>1, <1>3, <1>6, <1>7, RegistryUnchanged

\* repo add registers a token nothing was ever sent to, under an id that is free.
LEMMA RepoInsertKeepsPromise ==
  ASSUME DeliveryInv, SoundInv', NEW t \in Token, RepoInsert(t)
  PROVE  DeliveryInv'
  <1> USE Typed DEF DeliveryInv
  <1> PICK r \in RepoId : IsNextRowid(r, RepoIds) /\ repos' = [repos EXCEPT ![r] = t]
    BY DEF RepoInsert
  <1>1. /\ UNCHANGED <<conn, deploys, acked, runs>>
        /\ t \notin issued /\ issued' = issued \cup {t} /\ t # NoToken
    BY DeliveryAssumption DEF RepoInsert
  <1>2. repos \in [RepoId -> Token \cup {NoToken}] /\ repos[r] = NoToken
    BY DEF IsNextRowid, RepoIds, RepoId, SoundInv, CountInv, TypeOK
  <1>3. TokensAreOnce'
    BY <1>1, <1>2 DEF TokensAreOnce
  <1>4. \A g \in Delivery : Registered(g)' <=> Registered(g) \/ TokenOf[g] = t
    BY <1>1, <1>2 DEF Registered
  <1>5. \A g \in Delivery, s \in RepoId : Belongs(g, s) => Belongs(g, s)'
    BY <1>1, <1>2, <1>4 DEF Belongs
  <1>6. RequestsBelong' /\ RowsBelong'
    BY <1>1, <1>5 DEF RequestsBelong, RowsBelong
  <1>7. \A g \in Delivery : Spent(g)' <=> Spent(g)
    BY <1>1 DEF Spent
  <1>8. \A g \in Delivery : TokenOf[g] = t => Untouched(g)
    BY <1>1 DEF FreshIsUntouched
  <1>9. FreshIsUntouched'
    BY <1>1, <1>4, <1>7, <1>8 DEF FreshIsUntouched, Untouched
  <1>10. RunsOnce'
    BY <1>1, <1>4, <1>8 DEF RunsOnce, Untouched
  <1>11. QED
    BY <1>3, <1>6, <1>9, <1>10

\* repo remove takes the rows of its own registration only.
LEMMA RepoDeleteKeepsPromise ==
  ASSUME DeliveryInv, SoundInv', NEW r \in RepoId, RepoDelete(r)
  PROVE  DeliveryInv'
  <1> USE Typed DEF DeliveryInv
  <1>1. /\ UNCHANGED <<conn, issued, acked, runs>>
        /\ repos' = [repos EXCEPT ![r] = NoToken]
        /\ deploys' = [i \in DeployId |->
                         IF deploys[i].repo = r THEN NoRow ELSE deploys[i]]
    BY DEF RepoDelete, server
  <1>2. repos \in [RepoId -> Token \cup {NoToken}] /\ repos[r] # NoToken
    BY DeliveryAssumption DEF RepoDelete, SoundInv, CountInv, TypeOK
  <1>3. TokensAreOnce'
    BY <1>1, <1>2 DEF TokensAreOnce
  <1>4. \A g \in Delivery : Registered(g)' <=> Registered(g) /\ repos[r] # TokenOf[g]
    BY <1>1, <1>2 DEF Registered, TokensAreOnce
  <1>5. \A g \in Delivery, s \in RepoId : Belongs(g, s) => Belongs(g, s)'
    BY <1>1, <1>2, <1>4 DEF Belongs
  <1>6. RequestsBelong' /\ RowsBelong'
    BY <1>1, <1>5 DEF RequestsBelong, RowsBelong
  <1>7. \A g \in Delivery : Registered(g)' /\ Spent(g) => Spent(g)'
    BY <1>1, <1>4 DEF Spent, RowsBelong, Belongs
  <1>8. FreshIsUntouched'
    BY <1>1, <1>4, <1>7 DEF FreshIsUntouched, Untouched
  <1>9. RunsOnce'
    BY <1>1, <1>4 DEF RunsOnce
  <1>10. QED
    BY <1>3, <1>6, <1>8, <1>9

-----------------------------------------------------------------------------
(* The invariant, and what it says to GitHub. *)

\* Every step keeps the promises made about deliveries.
LEMMA DeliveryStep == DeliveryInv /\ [Next]_vars => DeliveryInv'
  <1> SUFFICES ASSUME DeliveryInv, [Next]_vars PROVE DeliveryInv'
    OBVIOUS
  <1>1. SoundInv'
    BY SoundStep DEF DeliveryInv
  <1>2. ASSUME NEW c \in Conn, Request(c) \/ Goroutine(c) PROVE DeliveryInv'
    BY <1>1, <1>2, ReceiveKeepsPromise, DuplicateKeepsPromise, AcceptKeepsPromise,
       AckKeepsPromise, QuietActions DEF Request, Goroutine
  <1>3. ASSUME NEW t \in Token, RepoInsert(t) PROVE DeliveryInv'
    BY <1>1, <1>3, RepoInsertKeepsPromise
  <1>4. ASSUME NEW r \in RepoId, RepoDelete(r) PROVE DeliveryInv'
    BY <1>1, <1>4, RepoDeleteKeepsPromise
  <1>5. CASE UNCHANGED vars
    BY <1>1, <1>5, QuietStep DEF vars, store
  <1>6. QED
    BY <1>1, <1>2, <1>3, <1>4, <1>5, QuietActions DEF Next

\* The invariant holds throughout.
LEMMA DeliveryInvariant == Spec => []DeliveryInv
  BY DeliveryInit, DeliveryStep, PTL DEF Spec

\* A push is deployed at most once while its repository is registered, whatever is
\* sent again, killed, restarted, added or removed.
THEOREM DeployedAtMostOnce == Spec => []AtMostOnce
  <1>1. DeliveryInv => AtMostOnce
    BY DEF DeliveryInv, RunsOnce, AtMostOnce
  <1>2. QED
    BY <1>1, DeliveryInvariant, PTL

\* A 200 means that the push is recorded, in every process and through every kill.
THEOREM AcknowledgedIsRecorded == Spec => []AckedIsRecorded
  <1>1. DeliveryInv => AckedIsRecorded
    BY Typed DEF DeliveryInv, FreshIsUntouched, Untouched, AckedIsRecorded
  <1>2. QED
    BY <1>1, DeliveryInvariant, PTL

-----------------------------------------------------------------------------
(* Rows that say running. *)

\* The goroutine behind a running row has not recorded yet.
RunningIsAlive ==
    crashes = 0 /\ faults = 0 =>
        \A i \in DeployId : deploys[i].status = "running" =>
            \E c \in Conn : conn[c].at \in {"ack", "run", "record"} /\ conn[c].id = i

AliveInv == SoundInv /\ RunningIsAlive

\* A step that makes no row running, and takes no unrecorded goroutine away, keeps
\* every running row alive.
LEMMA AliveFrame ==
  ASSUME AliveInv,
         crashes' = 0 /\ faults' = 0 => crashes = 0 /\ faults = 0,
         \A i \in DeployId : deploys'[i].status = "running" => deploys[i].status = "running",
         \A c \in Conn : conn[c].at \in {"ack", "run", "record"} =>
            \/ conn'[c].at \in {"ack", "run", "record"} /\ conn'[c].id = conn[c].id
            \/ deploys'[conn[c].id].status # "running"
  PROVE  RunningIsAlive'
  BY DEF AliveInv, RunningIsAlive

\* What a drain that returns, or a start, leaves behind: no row says running unless
\* a process was killed or a write failed.
LEMMA AliveEnds ==
  ASSUME AliveInv, Start \/ Return \/ Crash
  PROVE  RunningIsAlive'
  <1> deploys \in [DeployId -> Row] /\ crashes \in Nat
    BY BoundAssumption DEF AliveInv, SoundInv, CountInv, TypeOK
  <1>1. CASE Start
    BY <1>1 DEF Start, ReconcileInterrupted, RunningIsAlive, Row
  <1>2. CASE Crash
    BY <1>2 DEF Crash, RunningIsAlive
  <1>3. CASE Return
    <2>1. Cardinality(LiveConns) = 0
      BY <1>3 DEF Return, Drained, AliveInv, SoundInv, CountInv, InflightCounts
    <2>2. LiveConns = {}
      BY <2>1, LiveConnsFinite, FS_EmptySet
    <2>3. QED
      BY <1>3, <2>2 DEF Return, store, counts, AliveInv, RunningIsAlive, LiveConns, InFlight
  <1>4. QED
    BY <1>1, <1>2, <1>3

\* The row and the goroutine behind it begin in one step.
LEMMA AliveAccept ==
  ASSUME AliveInv, NEW c \in Conn, Accept(c)
  PROVE  RunningIsAlive'
  <1> conn \in [Conn -> Slot] /\ deploys \in [DeployId -> Row]
    BY DEF AliveInv, SoundInv, CountInv, TypeOK
  <1> PICK id \in DeployId :
        /\ deploys' = [deploys EXCEPT ![id] =
                         [repo |-> conn[c].repo, delivery |-> conn[c].delivery,
                          status |-> "running"]]
        /\ conn' = [conn EXCEPT ![c].at = "ack", ![c].id = id]
    BY DEF Accept
  <1>1. conn[c].at = "admit" /\ UNCHANGED <<crashes, faults>>
    BY DEF Accept, counts
  <1>2. conn'[c].at = "ack" /\ conn'[c].id = id /\ \A d \in Conn \ {c} : conn'[d] = conn[d]
    BY DEF Slot
  <1>3. \A i \in DeployId \ {id} : deploys'[i] = deploys[i]
    OBVIOUS
  <1>4. QED
    BY <1>1, <1>2, <1>3 DEF AliveInv, RunningIsAlive

\* Every other step of a slot: only Record lets go of a row, and it settles it.
LEMMA AliveSlot ==
  ASSUME AliveInv, NEW c \in Conn,
         \/ \E g \in Delivery : Receive(c, g)
         \/ Refuse(c) \/ Duplicate(c) \/ StartError(c)
         \/ Goroutine(c)
  PROVE  RunningIsAlive'
  <1> conn \in [Conn -> Slot] /\ deploys \in [DeployId -> Row] /\ faults \in Nat
    BY BoundAssumption DEF AliveInv, SoundInv, CountInv, TypeOK
  <1>1. CASE Record(c)
    <2>1. conn[c].id \in DeployId /\ conn[c].at = "record" /\ conn[c].outcome # "running"
      BY <1>1 DEF Record, AliveInv, SoundInv, CountInv, SlotsFilled, InFlight,
                  VerdictIsKnown, Outcome
    <2>2. conn' = [conn EXCEPT ![c].at = "leave"] /\ crashes' = crashes
      BY <1>1 DEF Record
    <2>3. \A d \in Conn \ {c} : conn'[d] = conn[d]
      BY <2>2
    <2>4. CASE faults' = faults + 1
      BY <2>4 DEF RunningIsAlive
    <2>5. CASE DeployFinish(conn[c].id, conn[c].outcome) /\ UNCHANGED faults
      <3>1. deploys'[conn[c].id].status # "running"
        BY <2>1, <2>5 DEF DeployFinish, Row
      <3>2. \A i \in DeployId : deploys'[i].status = "running" => deploys[i].status = "running"
        BY <2>1, <2>5, <3>1 DEF DeployFinish
      <3>3. QED
        BY <2>2, <2>3, <2>5, <3>1, <3>2, AliveFrame
    <2>6. QED
      BY <1>1, <2>4, <2>5 DEF Record
  <1>2. CASE ~ Record(c)
    <2>1. deploys' = deploys /\ crashes' = crashes /\ faults' \in {faults, faults + 1}
      BY <1>2 DEF Receive, Refuse, Duplicate, StartError, Goroutine, Ack, EndRun, Leave,
                  store, counts
    <2>2. \A d \in Conn : conn[d].at \in {"ack", "run", "record"} =>
            conn'[d].at \in {"ack", "run", "record"} /\ conn'[d].id = conn[d].id
      BY <1>2 DEF Receive, Refuse, Duplicate, StartError, Goroutine, Ack, EndRun, Leave, Slot
    <2>3. QED
      BY <2>1, <2>2, AliveFrame
  <1>3. QED
    BY <1>1, <1>2

\* Every step keeps a goroutine behind every running row.
LEMMA AliveStep == AliveInv /\ [Next]_vars => AliveInv'
  <1> SUFFICES ASSUME AliveInv, [Next]_vars PROVE RunningIsAlive'
    BY SoundStep DEF AliveInv
  <1> conn \in [Conn -> Slot] /\ deploys \in [DeployId -> Row]
    BY DEF AliveInv, SoundInv, CountInv, TypeOK
  <1>1. ASSUME NEW c \in Conn, Request(c) \/ Goroutine(c) PROVE RunningIsAlive'
    BY <1>1, AliveAccept, AliveSlot DEF Request
  <1>2. CASE Stop \/ BeginDrain \/ CallOff \/ UNCHANGED vars \/ \E t \in Token : RepoInsert(t)
    BY <1>2, AliveFrame DEF Stop, BeginDrain, CallOff, RepoInsert, vars, store, counts
  <1>3. CASE Expire
    <2>1. \A d \in Conn : conn'[d].at = conn[d].at /\ conn'[d].id = conn[d].id
      BY <1>3 DEF Expire, Slot
    <2>2. QED
      BY <1>3, <2>1, AliveFrame DEF Expire, store, counts
  <1>4. CASE \E r \in RepoId : RepoDelete(r)
    BY <1>4, NoRowIsARow, AliveFrame DEF RepoDelete, counts, NoRow
  <1>5. QED
    BY <1>1, <1>2, <1>3, <1>4, AliveEnds DEF Next

\* While nothing was killed and no write failed, a row that says running has a live
\* deploy: the drain and the recording context leave none behind.
THEOREM RunningHasADeploy == Spec => []NoZombieRow
  <1>1. Init => AliveInv
    BY DeliveryInit DEF Init, DeliveryInv, AliveInv, RunningIsAlive, NoRow
  <1>2. AliveInv => NoZombieRow
    BY DEF AliveInv, RunningIsAlive, NoZombieRow, InFlight
  <1>3. QED
    BY <1>1, <1>2, AliveStep, PTL DEF Spec

-----------------------------------------------------------------------------
(* Registrations that stay: every goroutine has a row and a cancel of its own. *)

OwnsItsEntry ==
    \A c \in Conn : InFlight(c) =>
        /\ cancels[conn[c].id] = c
        /\ deploys[conn[c].id].status # "absent"
        /\ deploys[conn[c].id].delivery = conn[c].delivery

OwnsItsRow ==
    \A c \in Conn : conn[c].at \in {"ack", "run", "record"} =>
        deploys[conn[c].id].status = "running"

\* The dedup index.
OneRowEach ==
    \A i, j \in DeployId :
        deploys[i].delivery \in Delivery /\ deploys[i].delivery = deploys[j].delivery => i = j

DownIsIdle == Down => \A c \in Conn : conn[c].at = "idle"

KeptInv ==
    /\ DeliveryInv
    /\ OwnsItsEntry /\ OwnsItsRow /\ OneRowEach
    /\ DownIsIdle
    /\ DrainCancelsAll

\* The types the steps below rest on.
LEMMA KeptTyped ==
  ASSUME KeptInv
  PROVE  /\ conn \in [Conn -> Slot] /\ deploys \in [DeployId -> Row]
         /\ cancels \in [DeployId -> Conn \cup {NoConn}]
         /\ \A c \in Conn : InFlight(c) => conn[c].id \in DeployId
         /\ NoConn \notin Conn
  BY ConnAssumption
     DEF KeptInv, DeliveryInv, SoundInv, CountInv, TypeOK, SlotsFilled

\* An accepted push gets an id, and a place in cancels, that no other goroutine has.
LEMMA AcceptKeepsOwn ==
  ASSUME KeptInv, NEW c \in Conn, Accept(c)
  PROVE  OwnsItsEntry' /\ OwnsItsRow' /\ OneRowEach' /\ DownIsIdle' /\ DrainCancelsAll'
  <1> USE KeptTyped DEF KeptInv
  <1> PICK id \in DeployId :
        /\ IsNextRowid(id, DeployIds)
        /\ deploys' = [deploys EXCEPT ![id] =
                         [repo |-> conn[c].repo, delivery |-> conn[c].delivery,
                          status |-> "running"]]
        /\ conn' = [conn EXCEPT ![c].at = "ack", ![c].id = id]
        /\ cancels' = [cancels EXCEPT ![id] = c]
    BY DEF Accept
  <1>1. conn[c].at = "admit" /\ ~ Draining /\ ~ Spent(conn[c].delivery) /\ phase' = phase
    BY DEF Accept, MayAdmit
  <1>2. deploys[id].status = "absent"
    BY DEF IsNextRowid, DeployIds, DeployId
  <1>3. /\ conn'[c].at = "ack" /\ conn'[c].id = id /\ conn'[c].delivery = conn[c].delivery
        /\ \A d \in Conn \ {c} : conn'[d] = conn[d]
    BY DEF Slot
  <1>4. \A d \in Conn \ {c} : InFlight(d) => conn[d].id \in DeployId \ {id}
    BY <1>2 DEF OwnsItsEntry
  <1>5. OwnsItsEntry' /\ OwnsItsRow'
    BY <1>1, <1>3, <1>4 DEF OwnsItsEntry, OwnsItsRow, InFlight
  <1>6. OneRowEach'
    BY <1>1 DEF OneRowEach, Spent
  <1>7. DownIsIdle' /\ DrainCancelsAll'
    BY <1>1 DEF DownIsIdle, Down, DrainCancelsAll, Draining
  <1>8. QED
    BY <1>5, <1>6, <1>7

\* Requests that are not accepted touch no row and no entry.
LEMMA RequestKeepsOwn ==
  ASSUME KeptInv, NEW c \in Conn,
         (\E g \in Delivery : Receive(c, g)) \/ Refuse(c) \/ Duplicate(c) \/ StartError(c)
  PROVE  OwnsItsEntry' /\ OwnsItsRow' /\ OneRowEach' /\ DownIsIdle' /\ DrainCancelsAll'
  <1> USE KeptTyped DEF KeptInv
  <1>1. UNCHANGED <<phase, cancels, deploys>> /\ ~ InFlight(c)
    BY DEF Receive, Refuse, Duplicate, StartError, server, store, InFlight
  <1>2. conn'[c].at \in {"idle", "admit"} /\ \A d \in Conn \ {c} : conn'[d] = conn[d]
    BY IdleIsASlot DEF Receive, Refuse, Duplicate, StartError, Admitted
  <1>3. Down => conn'[c].at = "idle"
    BY DEF DownIsIdle, Down, Receive, Refuse, Duplicate, StartError
  <1>4. QED
    BY <1>1, <1>2, <1>3
       DEF OwnsItsEntry, OwnsItsRow, OneRowEach, DownIsIdle, Down, DrainCancelsAll, InFlight

\* A goroutine touches its own row and its own entry.
LEMMA GoroutineKeepsOwn ==
  ASSUME KeptInv, NEW c \in Conn, Goroutine(c)
  PROVE  OwnsItsEntry' /\ OwnsItsRow' /\ OneRowEach' /\ DownIsIdle' /\ DrainCancelsAll'
  <1> USE KeptTyped DEF KeptInv
  <1> DEFINE id == conn[c].id
  <1>1. InFlight(c) /\ id \in DeployId /\ phase' = phase
    BY DEF Goroutine, Ack, EndRun, Record, Leave, InFlight, server
  <1>2. \A d \in Conn \ {c} : conn'[d] = conn[d] /\ (InFlight(d) => conn[d].id # id)
    BY <1>1 DEF Goroutine, Ack, EndRun, Record, Leave, OwnsItsEntry
  <1>3. \A i \in DeployId \ {id} : deploys'[i] = deploys[i] /\ cancels'[i] = cancels[i]
    BY <1>1 DEF Goroutine, Ack, EndRun, Record, Leave, DeployFinish, server, store
  <1>4. /\ deploys'[id].delivery = deploys[id].delivery
        /\ deploys[id].status # "absent" => deploys'[id].status # "absent"
    <2>1. CASE Record(c) /\ DeployFinish(id, conn[c].outcome)
      <3>1. conn[c].outcome # "absent"
        BY <2>1 DEF Record, Outcome, DeliveryInv, SoundInv, VerdictIsKnown
      <3>2. deploys[id] \in Row
        BY <1>1
      <3>3. QED
        BY <1>1, <2>1, <3>1, <3>2 DEF DeployFinish, Row
    <2>2. CASE UNCHANGED deploys
      BY <2>2
    <2>3. QED
      BY <2>1, <2>2 DEF Goroutine, Ack, EndRun, Record, Leave, store
  <1>5. OneRowEach'
    BY <1>3, <1>4 DEF OneRowEach
  <1>6. /\ conn'[c].at \in {"run", "record", "leave"} =>
             /\ cancels' = cancels /\ conn'[c].id = id
             /\ conn'[c].delivery = conn[c].delivery
        /\ conn'[c].at \in {"run", "record"} => deploys' = deploys /\ conn[c].at \in {"ack", "run"}
        /\ conn'[c].at = "run" => conn[c].at = "ack" /\ conn'[c].cancelled = conn[c].cancelled
        /\ conn'[c].at \in {"idle", "run", "record", "leave"}
    BY IdleIsASlot DEF Goroutine, Ack, EndRun, Record, Leave, server, store, Slot
  <1>7. OwnsItsEntry'
    BY <1>1, <1>2, <1>3, <1>4, <1>6 DEF OwnsItsEntry, InFlight
  <1>8. OwnsItsRow'
    BY <1>1, <1>2, <1>3, <1>6 DEF OwnsItsRow, InFlight
  <1>9. DownIsIdle' /\ DrainCancelsAll'
    BY <1>1, <1>2, <1>6 DEF DownIsIdle, Down, DrainCancelsAll, InFlight
  <1>10. QED
    BY <1>5, <1>7, <1>8, <1>9

\* The life of the process.  The expired budget calls the cancel of each goroutine,
\* since each has its own entry.
LEMMA LifecycleKeepsOwn ==
  ASSUME KeptInv, Start \/ Stop \/ BeginDrain \/ Expire \/ Return \/ Crash \/ CallOff
  PROVE  OwnsItsEntry' /\ OwnsItsRow' /\ OneRowEach' /\ DownIsIdle' /\ DrainCancelsAll'
  <1> USE KeptTyped DEF KeptInv
  <1>1. CASE Start
    <2>1. \A c \in Conn : conn'[c].at = "idle"
      BY <1>1 DEF Start, DownIsIdle, Down
    <2>2. OneRowEach'
      BY <1>1 DEF Start, ReconcileInterrupted, OneRowEach, Row
    <2>3. QED
      BY <1>1, <2>1, <2>2
         DEF Start, OwnsItsEntry, OwnsItsRow, InFlight, DownIsIdle, Down, DrainCancelsAll
  <1>2. CASE Stop \/ BeginDrain \/ CallOff
    BY <1>2 DEF Stop, BeginDrain, CallOff, store, OwnsItsEntry, OwnsItsRow, OneRowEach, InFlight,
                DownIsIdle, Down, DrainCancelsAll
  <1>3. CASE Expire
    <2>1. UNCHANGED <<cancels, deploys>> /\ phase' = "expired"
      BY <1>3 DEF Expire, store
    <2>2. \A c \in Conn : /\ conn'[c].at = conn[c].at
                          /\ conn'[c].id = conn[c].id
                          /\ conn'[c].delivery = conn[c].delivery
      BY <1>3 DEF Expire, Slot
    <2>3. ASSUME NEW c \in Conn, conn[c].at \in {"ack", "run"} PROVE conn'[c].cancelled
      <3>1. cancels[conn[c].id] = c /\ conn[c].id \in DeployId
        BY <2>3 DEF OwnsItsEntry, InFlight
      <3>2. conn'[c] = [conn[c] EXCEPT !.cancelled = TRUE]
        BY <1>3, <3>1 DEF Expire
      <3>3. conn[c] \in Slot
        OBVIOUS
      <3>4. QED
        BY <3>2, <3>3 DEF Slot
    <2>4. QED
      BY <2>1, <2>2, <2>3
         DEF OwnsItsEntry, OwnsItsRow, OneRowEach, InFlight, DownIsIdle, Down, DrainCancelsAll
  <1>4. CASE Return \/ Crash
    <2>1. \A c \in Conn : conn'[c].at = "idle"
      BY <1>4, IdleIsASlot DEF Return, Crash, ProcessEnds
    <2>2. UNCHANGED deploys
      BY <1>4 DEF Return, Crash, store
    <2>3. QED
      BY <2>1, <2>2 DEF OwnsItsEntry, OwnsItsRow, OneRowEach, InFlight, DownIsIdle, Down, DrainCancelsAll
  <1>5. QED
    BY <1>1, <1>2, <1>3, <1>4

\* Every step of a daemon whose registrations stay keeps each goroutine's own.
LEMMA KeptStep ==
  ASSUME Removable = {}
  PROVE  KeptInv /\ [Next]_vars => KeptInv'
  <1> SUFFICES ASSUME KeptInv, [Next]_vars
               PROVE  /\ OwnsItsEntry' /\ OwnsItsRow' /\ OneRowEach'
                      /\ DownIsIdle' /\ DrainCancelsAll'
    BY DeliveryStep DEF KeptInv
  <1>1. ASSUME NEW c \in Conn, Request(c) \/ Goroutine(c)
        PROVE  OwnsItsEntry' /\ OwnsItsRow' /\ OneRowEach' /\ DownIsIdle' /\ DrainCancelsAll'
    BY <1>1, RequestKeepsOwn, AcceptKeepsOwn, GoroutineKeepsOwn DEF Request
  <1>2. ASSUME NEW r \in RepoId, RepoDelete(r) PROVE FALSE
    BY <1>2 DEF RepoDelete
  <1>3. CASE UNCHANGED vars \/ \E t \in Token : RepoInsert(t)
    BY <1>3 DEF vars, server, store, RepoInsert, KeptInv, OwnsItsEntry, OwnsItsRow,
                OneRowEach, InFlight, DownIsIdle, Down, DrainCancelsAll
  <1>4. QED
    BY <1>1, <1>2, <1>3, LifecycleKeepsOwn DEF Next

\* The invariant of a daemon whose registrations stay.
LEMMA KeptInvariant == ASSUME Removable = {} PROVE Spec => []KeptInv
  <1>1. Init => KeptInv
    BY DeliveryInit, DeliveryAssumption, BoundAssumption
       DEF Init, KeptInv, OwnsItsEntry, OwnsItsRow, OneRowEach, InFlight, DownIsIdle, Down,
           DrainCancelsAll, Idle, NoRow
  <1>2. KeptInv /\ [Next]_vars => KeptInv'
    BY KeptStep
  <1>3. QED
    BY <1>1, <1>2, PTL DEF Spec

\* As long as no registration is removed, a drain whose budget has expired has
\* cancelled every deploy that still runs.
THEOREM ExpiredDrainReachesAll == ASSUME Removable = {} PROVE Spec => []DrainCancelsAll
  <1>1. KeptInv => DrainCancelsAll
    BY DEF KeptInv
  <1>2. QED
    BY <1>1, KeptInvariant, PTL

-----------------------------------------------------------------------------
(* The receiver implements the ledger. *)

\* The rows answer for each delivery: its one row where there is one.
LEMMA LedgerReads ==
  ASSUME KeptInv, NEW g \in Delivery
  PROVE  /\ ~ Spent(g) => LedgerOf(g) = "unseen"
         /\ \A i \in DeployId : deploys[i].delivery = g => LedgerOf(g) = deploys[i].status
  BY DEF KeptInv, OneRowEach, LedgerOf, Spent

\* A step that leaves the rows alone, or changes no row's delivery and status, is
\* not seen in the ledger.
LEMMA LedgerUnseen ==
  ASSUME KeptInv, KeptInv', NEW g \in Delivery,
         \A i \in DeployId : /\ deploys'[i].delivery = g <=> deploys[i].delivery = g
                             /\ deploys[i].delivery = g => deploys'[i].status = deploys[i].status
  PROVE  LedgerOf(g)' = LedgerOf(g)
  <1>1. CASE Spent(g)
    <2> PICK i \in DeployId : deploys[i].delivery = g
      BY <1>1 DEF Spent
    <2>1. LedgerOf(g) = deploys[i].status
      BY LedgerReads
    <2>2. LedgerOf(g)' = deploys'[i].status
      BY DEF KeptInv, OneRowEach, LedgerOf, Spent
    <2>3. QED
      BY <2>1, <2>2
  <1>2. CASE ~ Spent(g)
    BY <1>2 DEF LedgerOf, Spent
  <1>3. QED
    BY <1>1, <1>2

\* Accepting a push opens its entry.
LEMMA AcceptOpens ==
  ASSUME KeptInv, KeptInv', NEW c \in Conn, Accept(c)
  PROVE  L!Next
  <1> USE KeptTyped
  <1> PICK g \in Delivery : g = conn[c].delivery
    BY Typed DEF Accept, KeptInv
  <1> PICK id \in DeployId :
        /\ IsNextRowid(id, DeployIds)
        /\ deploys' = [deploys EXCEPT ![id] =
                         [repo |-> conn[c].repo, delivery |-> g, status |-> "running"]]
    BY DEF Accept
  <1>1. ~ Spent(g)
    BY DEF Accept
  <1>2. deploys[id].delivery \notin Delivery
    BY Typed DEF IsNextRowid, DeployIds, DeployId, KeptInv, DeliveryInv, RowsBelong
  <1>3. LedgerOf(g) = "unseen"
    BY <1>1, LedgerReads
  <1>4. LedgerOf(g)' = "running"
    BY <1>1 DEF KeptInv, OneRowEach, LedgerOf, Spent
  <1>5. ASSUME NEW h \in Delivery, h # g PROVE LedgerOf(h)' = LedgerOf(h)
    BY <1>2, <1>5, LedgerUnseen
  <1>6. L!Open(g)
    BY <1>1, <1>3, <1>4, <1>5 DEF L!Open
  <1>7. QED
    BY <1>1, <1>6 DEF L!Next

\* A goroutine that records settles the entry of its delivery, unless the write fails.
LEMMA RecordSettles ==
  ASSUME KeptInv, KeptInv', NEW c \in Conn, Record(c), UNCHANGED faults
  PROVE  L!Next
  <1> USE KeptTyped
  <1> PICK g \in Delivery, id \in DeployId : g = conn[c].delivery /\ id = conn[c].id
    BY Typed DEF Record, InFlight, KeptInv
  <1>1. conn[c].at = "record" /\ conn[c].outcome \in Outcome
    BY DEF Record, KeptInv, DeliveryInv, SoundInv, VerdictIsKnown
  <1>2. deploys[id].delivery = g /\ deploys[id].status = "running" /\ deploys[id] \in Row
    BY <1>1 DEF KeptInv, OwnsItsEntry, OwnsItsRow, InFlight
  <1>3. DeployFinish(id, conn[c].outcome)
    <2>1. faults \in Nat
      BY BoundAssumption DEF KeptInv, DeliveryInv, SoundInv, CountInv, TypeOK
    <2>2. QED
      BY <2>1 DEF Record
  <1>4. deploys' = [deploys EXCEPT ![id].status = conn[c].outcome]
    BY <1>1, <1>2, <1>3 DEF DeployFinish
  <1>5. LedgerOf(g) = "running"
    BY <1>1, <1>2, LedgerReads
  <1>6. deploys'[id].delivery = g /\ deploys'[id].status = conn[c].outcome
    BY <1>1, <1>2, <1>4 DEF Row
  <1>7. LedgerOf(g)' = conn[c].outcome
    BY <1>1, <1>6 DEF KeptInv, OneRowEach, LedgerOf, Spent
  <1>8. ASSUME NEW h \in Delivery, h # g PROVE LedgerOf(h)' = LedgerOf(h)
    <2>1. \A i \in DeployId \ {id} : deploys'[i] = deploys[i]
      BY <1>1, <1>4
    <2>2. QED
      BY <1>2, <1>6, <1>8, <2>1, LedgerUnseen
  <1>9. L!Settle(g)
    BY <1>1, <1>5, <1>7, <1>8 DEF L!Settle, L!Verdict, Outcome
  <1>10. QED
    BY <1>1, <1>9 DEF L!Next

\* A starting daemon writes off what says running.
LEMMA StartWritesOff ==
  ASSUME KeptInv, KeptInv', Start
  PROVE  L!Next
  <1> USE KeptTyped
  <1>1. ASSUME NEW g \in Delivery
        PROVE  LedgerOf(g)' = IF LedgerOf(g) = "running" THEN "interrupted" ELSE LedgerOf(g)
    <2>1. CASE Spent(g)
      <3> PICK i \in DeployId : deploys[i].delivery = g
        BY <2>1 DEF Spent
      <3>1. LedgerOf(g) = deploys[i].status
        BY LedgerReads
      <3>2. /\ deploys'[i].delivery = g
            /\ deploys'[i].status = IF deploys[i].status = "running"
                                    THEN "interrupted" ELSE deploys[i].status
        BY DEF Start, ReconcileInterrupted, Row
      <3>3. LedgerOf(g)' = deploys'[i].status
        BY <3>2 DEF KeptInv, OneRowEach, LedgerOf, Spent
      <3>4. QED
        BY <3>1, <3>2, <3>3
    <2>2. CASE ~ Spent(g)
      <3>1. \A i \in DeployId : deploys'[i].delivery = deploys[i].delivery
        BY DEF Start, ReconcileInterrupted, Row
      <3>2. QED
        BY <2>2, <3>1 DEF LedgerOf, Spent
    <2>3. QED
      BY <2>1, <2>2
  <1>2. L!WriteOff
    BY <1>1 DEF L!WriteOff
  <1>3. QED
    BY <1>2 DEF L!Next

\* The receiver, its restarts and its database implement the ledger of deliveries,
\* as long as no registration is removed.
THEOREM ReceiverKeepsLedger == ASSUME Removable = {} PROVE Spec => RefinesLedger
  <1>1. Init => L!Init
    BY DeliveryAssumption DEF Init, L!Init, LedgerOf, Spent, NoRow
  <1>2. KeptInv /\ KeptInv' /\ [Next]_vars => [L!Next]_([g \in Delivery |-> LedgerOf(g)])
    <2> SUFFICES ASSUME KeptInv, KeptInv', [Next]_vars,
                        ~ L!Next
                 PROVE  \A g \in Delivery : LedgerOf(g)' = LedgerOf(g)
      OBVIOUS
    <2>1. ASSUME NEW c \in Conn, Record(c), deploys' # deploys PROVE FALSE
      <3>1. UNCHANGED faults
        BY <2>1 DEF Record
      <3>2. QED
        BY <2>1, <3>1, RecordSettles
    <2>2. UNCHANGED deploys
      BY <2>1, AcceptOpens, StartWritesOff
         DEF Next, Request, Goroutine, Receive, Refuse, Duplicate, StartError, Ack, EndRun,
             Leave, Stop, BeginDrain, Expire, Return, Crash, CallOff, RepoInsert, RepoDelete,
             vars, store
    <2>3. QED
      BY <2>2 DEF LedgerOf, Spent
  <1>3. QED
    BY <1>1, <1>2, KeptInvariant, PTL DEF Spec, RefinesLedger, L!Spec

=============================================================================
