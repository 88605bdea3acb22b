--------------------------- MODULE WebhookProofs ----------------------------
(***************************************************************************)
(* Proofs about Webhook.tla, for every set of deliveries, registrations    *)
(* and connections and every bound.                                        *)
(***************************************************************************)
EXTENDS Webhook, FiniteSetTheorems, TLAPS

-----------------------------------------------------------------------------
(* The in-flight count. *)

LiveConns == {c \in Conn : InFlight(c)}

\* What Server.inflight is worth: one for every deploy between the hold of mu that
\* accepted it and the hold that ends it.
InflightCounts == inflight = Cardinality(LiveConns)

\* A slot in use has a request; a counted one has a row id.
SlotsFilled ==
    \A c \in Conn :
        /\ conn[c].at # "idle" => conn[c].delivery \in Delivery /\ conn[c].repo \in RepoId
        /\ InFlight(c) => conn[c].id \in DeployId

CountInv == TypeOK /\ SlotsFilled /\ InflightCounts

\* The counted slots are finitely many, so that Cardinality counts them.
LEMMA LiveConnsFinite == IsFiniteSet(LiveConns)
  BY ConnAssumption, FS_Subset DEF LiveConns

\* A free slot is a slot, and is not counted.
LEMMA IdleIsASlot == Idle \in Slot /\ Idle.at = "idle"
  BY DEF Idle, Slot, Status

\* What DELETE leaves in place of a row is a value of the table.
LEMMA NoRowIsARow == NoRow \in Row
  BY DEF NoRow, Row, Status

-----------------------------------------------------------------------------
(* Type correctness together with the count: Leave stays in Nat only because a *)
(* slot that leaves was counted.                                             *)

\* A process that has not started counts nothing.
LEMMA CountInit == Init => CountInv
  <1> SUFFICES ASSUME Init PROVE CountInv
    OBVIOUS
  <1>1. TypeOK
    BY IdleIsASlot, NoRowIsARow, BoundAssumption DEF Init, TypeOK
  <1>2. SlotsFilled /\ LiveConns = {}
    BY IdleIsASlot DEF Init, LiveConns, InFlight, SlotsFilled
  <1>3. QED
    BY <1>1, <1>2, FS_EmptySet DEF Init, CountInv, InflightCounts

\* A step that leaves the process alone and gives one slot, which is not counted,
\* an admitted request or takes it back.
LEMMA UncountedSlot ==
  ASSUME CountInv, NEW c \in Conn, ~ InFlight(c), NEW s \in Slot,
         \/ s.at = "idle"
         \/ s.at = "admit" /\ s.delivery \in Delivery /\ s.repo \in RepoId,
         conn' = [conn EXCEPT ![c] = s], inflight' = inflight
  PROVE  conn' \in [Conn -> Slot] /\ SlotsFilled' /\ InflightCounts'
  <1> USE DEF CountInv
  <1>1. conn' \in [Conn -> Slot]
    BY DEF TypeOK
  <1>2. SlotsFilled'
    BY DEF TypeOK, SlotsFilled, InFlight
  <1>3. LiveConns' = LiveConns
    BY DEF TypeOK, LiveConns, InFlight
  <1>4. QED
    BY <1>1, <1>2, <1>3 DEF InflightCounts

\* A step of a counted slot that stays counted.
LEMMA CountedSlot ==
  ASSUME CountInv, NEW c \in Conn, InFlight(c), NEW s \in Slot,
         s.at \in {"ack", "run", "record", "leave"},
         s.delivery = conn[c].delivery, s.repo = conn[c].repo, s.id = conn[c].id,
         conn' = [conn EXCEPT ![c] = s], inflight' = inflight
  PROVE  conn' \in [Conn -> Slot] /\ SlotsFilled' /\ InflightCounts'
  <1> USE DEF CountInv
  <1>1. conn' \in [Conn -> Slot]
    BY DEF TypeOK
  <1>2. SlotsFilled'
    BY DEF TypeOK, SlotsFilled, InFlight
  <1>3. LiveConns' = LiveConns
    BY DEF TypeOK, LiveConns, InFlight
  <1>4. QED
    BY <1>1, <1>2, <1>3 DEF InflightCounts

\* hook's answers other than an acceptance (503, 200 for a duplicate, 500) and the
\* arrival of a request leave the count alone.
LEMMA RequestKeepsCount ==
  ASSUME CountInv, NEW c \in Conn,
         (\E g \in Delivery : Receive(c, g)) \/ Refuse(c) \/ Duplicate(c) \/ StartError(c)
  PROVE  CountInv'
  <1>1. CASE \E g \in Delivery : Receive(c, g)
    <2> PICK g \in Delivery : Receive(c, g)
      BY <1>1
    <2> PICK r \in RepoId : conn' = [conn EXCEPT ![c] = Admitted(g, r)]
      BY DEF Receive
    <2>1. /\ Admitted(g, r) \in Slot
          /\ Admitted(g, r).at = "admit"
          /\ Admitted(g, r).delivery \in Delivery
          /\ Admitted(g, r).repo \in RepoId
      BY DEF Admitted, Slot, Status
    <2>2. ~ InFlight(c) /\ inflight' = inflight
      BY DEF Receive, InFlight, server
    <2>3. conn' \in [Conn -> Slot] /\ SlotsFilled' /\ InflightCounts'
      BY <2>1, <2>2, UncountedSlot
    <2>4. TypeOK'
      BY <2>3 DEF CountInv, TypeOK, Receive, server, store, counts
    <2>5. QED
      BY <2>3, <2>4 DEF CountInv
  <1>2. CASE Refuse(c) \/ Duplicate(c) \/ StartError(c)
    <2>1. conn' = [conn EXCEPT ![c] = Idle] /\ ~ InFlight(c) /\ inflight' = inflight
      BY <1>2 DEF Refuse, Duplicate, StartError, InFlight, server
    <2>2. conn' \in [Conn -> Slot] /\ SlotsFilled' /\ InflightCounts'
      BY <2>1, IdleIsASlot, UncountedSlot
    <2>3. acked' \subseteq Delivery /\ faults' \in 0 .. MaxFaults
      BY <1>2, BoundAssumption
         DEF CountInv, TypeOK, SlotsFilled, Refuse, Duplicate, StartError, counts
    <2>4. UNCHANGED <<server, store, runs, crashes>>
      BY <1>2 DEF Refuse, Duplicate, StartError, counts
    <2>5. TypeOK'
      BY <2>2, <2>3, <2>4 DEF CountInv, TypeOK, server, store
    <2>6. QED
      BY <2>2, <2>5 DEF CountInv
  <1>3. QED
    BY <1>1, <1>2

\* The hold of mu that accepts a push adds one to the count and to the counted slots.
LEMMA AcceptKeepsCount ==
  ASSUME CountInv, NEW c \in Conn, Accept(c)
  PROVE  CountInv'
  <1> USE DEF CountInv
  <1> PICK id \in DeployId :
        /\ deploys' = [deploys EXCEPT ![id] =
                         [repo |-> conn[c].repo, delivery |-> conn[c].delivery,
                          status |-> "running"]]
        /\ conn' = [conn EXCEPT ![c].at = "ack", ![c].id = id]
        /\ cancels' = [cancels EXCEPT ![id] = c]
    BY DEF Accept
  <1>1. /\ conn[c].at = "admit" /\ inflight' = inflight + 1
        /\ UNCHANGED <<phase, repos, issued, acked, runs, counts>>
    BY DEF Accept
  <1>2. conn[c] \in Slot
    BY DEF TypeOK
  <1>3. conn' \in [Conn -> Slot] /\ cancels' \in [DeployId -> Conn \cup {NoConn}]
    BY <1>2 DEF TypeOK, Slot
  <1>4. deploys' \in [DeployId -> Row]
    BY <1>2 DEF TypeOK, Slot, Row, Status
  <1>5. SlotsFilled'
    BY <1>1, <1>2 DEF TypeOK, SlotsFilled, InFlight, Slot
  <1>6. LiveConns' = LiveConns \cup {c} /\ c \notin LiveConns
    BY <1>1, <1>2 DEF TypeOK, LiveConns, InFlight, Slot
  <1>7. InflightCounts'
    BY <1>1, <1>6, LiveConnsFinite, FS_AddElement DEF InflightCounts
  <1>8. TypeOK'
    BY <1>1, <1>3, <1>4 DEF TypeOK, counts
  <1>9. QED
    BY <1>5, <1>7, <1>8

\* The 200, the end of the deploy and the write of its row leave its slot counted.
LEMMA GoroutineKeepsCount ==
  ASSUME CountInv, NEW c \in Conn, Ack(c) \/ EndRun(c) \/ Record(c)
  PROVE  CountInv'
  <1> USE DEF CountInv
  <1>1. conn[c] \in Slot /\ InFlight(c) /\ conn[c].delivery \in Delivery /\ conn[c].id \in DeployId
    BY DEF TypeOK, SlotsFilled, InFlight, Ack, EndRun, Record
  <1>2. PICK s \in Slot : /\ s.at \in {"ack", "run", "record", "leave"}
                          /\ s.delivery = conn[c].delivery
                          /\ s.repo = conn[c].repo
                          /\ s.id = conn[c].id
                          /\ conn' = [conn EXCEPT ![c] = s]
    <2>1. CASE Ack(c)
      <3>1. [conn[c] EXCEPT !.at = "run"] \in Slot
        BY <1>1 DEF Slot
      <3>2. conn' = [conn EXCEPT ![c] = [conn[c] EXCEPT !.at = "run"]]
        BY <2>1 DEF Ack, TypeOK
      <3>3. QED
        BY <1>1, <3>1, <3>2 DEF Slot
    <2>2. CASE EndRun(c)
      <3> PICK o \in Outcome : conn' = [conn EXCEPT ![c].at = "record", ![c].outcome = o]
        BY <2>2 DEF EndRun
      <3>1. [conn[c] EXCEPT !.at = "record", !.outcome = o] \in Slot
        BY <1>1 DEF Slot, Status
      <3>2. conn' = [conn EXCEPT ![c] = [conn[c] EXCEPT !.at = "record", !.outcome = o]]
        BY DEF TypeOK
      <3>3. QED
        BY <1>1, <3>1, <3>2 DEF Slot
    <2>3. CASE Record(c)
      <3>1. [conn[c] EXCEPT !.at = "leave"] \in Slot
        BY <1>1 DEF Slot
      <3>2. conn' = [conn EXCEPT ![c] = [conn[c] EXCEPT !.at = "leave"]]
        BY <2>3 DEF Record, TypeOK
      <3>3. QED
        BY <1>1, <3>1, <3>2 DEF Slot
    <2>4. QED
      BY <2>1, <2>2, <2>3
  <1>3. UNCHANGED <<server, repos, issued, crashes>>
    BY DEF Ack, EndRun, Record, store, counts
  <1>4. conn' \in [Conn -> Slot] /\ SlotsFilled' /\ InflightCounts'
    BY <1>1, <1>2, <1>3, CountedSlot DEF server
  <1>5. acked' \subseteq Delivery /\ runs' \in [Delivery -> Nat]
    BY <1>1 DEF TypeOK, Ack, EndRun, Record
  <1>6. deploys' \in [DeployId -> Row] /\ faults' \in 0 .. MaxFaults
    <2>1. CASE Ack(c) \/ EndRun(c)
      BY <2>1 DEF TypeOK, Ack, EndRun, store, counts
    <2>2. CASE Record(c)
      <3>1. faults' \in 0 .. MaxFaults
        BY <2>2, BoundAssumption DEF TypeOK, Record
      <3>2. CASE UNCHANGED deploys
        BY <3>1, <3>2 DEF TypeOK
      <3>3. CASE DeployFinish(conn[c].id, conn[c].outcome)
        <4>1. deploys[conn[c].id] \in Row /\ conn[c].outcome \in Status
          BY <1>1 DEF TypeOK, Slot
        <4>2. deploys' \in [DeployId -> Row]
          BY <1>1, <3>3, <4>1 DEF TypeOK, Row, DeployFinish
        <4>3. QED
          BY <3>1, <4>2
      <3>4. QED
        BY <2>2, <3>2, <3>3 DEF Record
    <2>3. QED
      BY <2>1, <2>2
  <1>7. TypeOK'
    BY <1>3, <1>4, <1>5, <1>6 DEF TypeOK, server
  <1>8. QED
    BY <1>4, <1>7

\* The deferred hold of mu takes one off the count and off the counted slots.
LEMMA LeaveKeepsCount ==
  ASSUME CountInv, NEW c \in Conn, Leave(c)
  PROVE  CountInv'
  <1> USE DEF CountInv
  <1>1. /\ conn' = [conn EXCEPT ![c] = Idle] /\ inflight' = inflight - 1
        /\ cancels' = [cancels EXCEPT ![conn[c].id] = NoConn]
        /\ UNCHANGED <<phase, store, acked, runs, counts>>
    BY DEF Leave
  <1>2. LiveConns' = LiveConns \ {c} /\ c \in LiveConns
    BY <1>1, IdleIsASlot DEF TypeOK, LiveConns, InFlight, Leave
  <1>3. /\ Cardinality(LiveConns') = Cardinality(LiveConns) - 1
        /\ Cardinality(LiveConns') \in Nat
    BY <1>2, LiveConnsFinite, FS_RemoveElement, FS_CardinalityType
  <1>4. InflightCounts' /\ inflight' \in Nat
    BY <1>1, <1>3 DEF InflightCounts
  <1>5. SlotsFilled' /\ conn' \in [Conn -> Slot]
    BY <1>1, IdleIsASlot DEF TypeOK, SlotsFilled, InFlight
  <1>6. TypeOK'
    BY <1>1, <1>4, <1>5 DEF TypeOK, store, counts
  <1>7. QED
    BY <1>4, <1>5, <1>6

\* A process end, by draining or not, leaves nothing counted.
LEMMA ProcessEndKeepsCount ==
  ASSUME CountInv, Return \/ Crash
  PROVE  CountInv'
  <1> USE DEF CountInv
  <1>1. /\ phase' \in {"stopped", "failed", "killed"} /\ inflight' = 0
        /\ cancels' = [i \in DeployId |-> NoConn]
        /\ conn' = [c \in Conn |-> Idle]
        /\ UNCHANGED <<store, acked, runs>>
    BY DEF Return, Crash, ProcessEnds
  <1>2. crashes' \in 0 .. MaxCrashes /\ faults' = faults
    BY BoundAssumption DEF Return, Crash, TypeOK, counts
  <1>3. SlotsFilled' /\ LiveConns' = {} /\ conn' \in [Conn -> Slot]
    BY <1>1, IdleIsASlot DEF SlotsFilled, LiveConns, InFlight
  <1>4. InflightCounts'
    BY <1>1, <1>3, FS_EmptySet DEF InflightCounts
  <1>5. TypeOK'
    BY <1>1, <1>2, <1>3 DEF TypeOK, store
  <1>6. QED
    BY <1>3, <1>4, <1>5

\* Starting, stopping and the expiry of the drain budget move no slot on.
LEMMA LifecycleKeepsCount ==
  ASSUME CountInv, Start \/ Stop \/ BeginDrain \/ Expire \/ CallOff
  PROVE  CountInv'
  <1> USE DEF CountInv
  <1>1. /\ inflight' = inflight /\ UNCHANGED <<cancels, repos, issued, acked, runs, counts>>
        /\ phase' \in {"serving", "shutdown", "draining", "expired", "killed"}
    BY DEF Start, Stop, BeginDrain, Expire, CallOff, store
  <1>2. conn' \in [Conn -> Slot] /\ SlotsFilled' /\ LiveConns' = LiveConns
    <2>1. CASE conn' = conn
      BY <2>1 DEF TypeOK, SlotsFilled, LiveConns, InFlight
    <2>2. CASE Expire
      <3>1. \A c \in Conn : conn[c] \in Slot
        BY DEF TypeOK
      <3>2. \A c \in Conn : /\ conn'[c] \in Slot
                            /\ conn'[c].at = conn[c].at
                            /\ conn'[c].delivery = conn[c].delivery
                            /\ conn'[c].repo = conn[c].repo
                            /\ conn'[c].id = conn[c].id
        BY <2>2, <3>1 DEF Expire, Slot
      <3>3. conn' \in [Conn -> Slot]
        BY <2>2, <3>2 DEF Expire
      <3>4. QED
        BY <3>2, <3>3 DEF SlotsFilled, LiveConns, InFlight
    <2>3. QED
      BY <2>1, <2>2 DEF Start, Stop, BeginDrain, CallOff
  <1>3. deploys' \in [DeployId -> Row]
    <2>1. CASE deploys' = deploys
      BY <2>1 DEF TypeOK
    <2>2. CASE ReconcileInterrupted
      <3>1. \A i \in DeployId : deploys[i] \in Row
        BY DEF TypeOK
      <3>2. \A i \in DeployId : [deploys[i] EXCEPT !.status = "interrupted"] \in Row
        BY <3>1 DEF Row, Status
      <3>3. QED
        BY <2>2, <3>1, <3>2 DEF ReconcileInterrupted
    <2>3. QED
      BY <2>1, <2>2 DEF Start, Stop, BeginDrain, Expire, CallOff, store
  <1>4. TypeOK' /\ InflightCounts'
    BY <1>1, <1>2, <1>3 DEF TypeOK, InflightCounts, counts
  <1>5. QED
    BY <1>2, <1>4

\* repo add and repo remove, in their own process, touch rows only.
LEMMA RegistryKeepsCount ==
  ASSUME CountInv, (\E t \in Token : RepoInsert(t)) \/ (\E r \in RepoId : RepoDelete(r))
  PROVE  CountInv'
  <1> USE DEF CountInv
  <1>1. UNCHANGED <<server, conn, acked, runs, counts>>
    BY DEF RepoInsert, RepoDelete
  <1>2. /\ repos' \in [RepoId -> Token \cup {NoToken}]
        /\ issued' \subseteq Token
        /\ deploys' \in [DeployId -> Row]
    BY NoRowIsARow DEF TypeOK, RepoInsert, RepoDelete
  <1>3. TypeOK' /\ SlotsFilled' /\ InflightCounts'
    BY <1>1, <1>2
       DEF TypeOK, server, counts, SlotsFilled, InFlight, InflightCounts, LiveConns
  <1>4. QED
    BY <1>3

\* Every step of the daemon, its database and the command line keeps the count.
LEMMA CountStep == CountInv /\ [Next]_vars => CountInv'
  <1> SUFFICES ASSUME CountInv, [Next]_vars PROVE CountInv'
    OBVIOUS
  <1>1. ASSUME NEW c \in Conn, Request(c) PROVE CountInv'
    BY <1>1, RequestKeepsCount, AcceptKeepsCount DEF Request
  <1>2. ASSUME NEW c \in Conn, Goroutine(c) PROVE CountInv'
    BY <1>2, GoroutineKeepsCount, LeaveKeepsCount DEF Goroutine
  <1>3. CASE UNCHANGED vars
    BY <1>3 DEF vars, server, store, counts, CountInv, TypeOK, SlotsFilled,
                InFlight, InflightCounts, LiveConns
  <1>4. QED
    BY <1>1, <1>2, <1>3, LifecycleKeepsCount, ProcessEndKeepsCount, RegistryKeepsCount
       DEF Next

\* inflight is the number of deploys between their acceptance and their end, always.
LEMMA CountInvariant == Spec => []CountInv
  BY CountInit, CountStep, PTL DEF Spec

\* The state stays well typed: the count never falls below zero, a row and a slot
\* hold a status, a delivery and ids of their tables.
THEOREM TypeCorrect == Spec => []TypeOK
  <1>1. CountInv => TypeOK
    BY DEF CountInv
  <1>2. QED
    BY <1>1, CountInvariant, PTL

-----------------------------------------------------------------------------
(* Drain. *)

\* A process that returns from Drain has no deploy goroutine left, for any number
\* of connections and whatever is registered or removed meanwhile.
THEOREM DrainWaitsForAll == Spec => ReturnAbandonsNothing
  <1>1. CountInv /\ [Next]_vars => [phase' = "stopped" => \A c \in Conn : ~ InFlight(c)]_phase
    <2> SUFFICES ASSUME CountInv, [Next]_vars, phase' # phase, phase' = "stopped"
                 PROVE  \A c \in Conn : ~ InFlight(c)
      OBVIOUS
    <2>1. Return
      BY DEF Next, vars, server, Request, Goroutine, Receive, Refuse, Duplicate,
             StartError, Accept, Ack, EndRun, Record, Leave, Start, Stop, BeginDrain,
             Expire, Crash, CallOff, ProcessEnds, RepoInsert, RepoDelete
    <2>2. Cardinality(LiveConns) = 0
      BY <2>1 DEF Return, Drained, CountInv, InflightCounts
    <2>3. LiveConns = {}
      BY <2>2, LiveConnsFinite, FS_EmptySet
    <2>4. QED
      BY <2>3 DEF LiveConns
  <1>2. QED
    BY <1>1, CountInvariant, PTL DEF Spec, ReturnAbandonsNothing

=============================================================================
