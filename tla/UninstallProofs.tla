-------------------------- MODULE UninstallProofs --------------------------
(***************************************************************************)
(* Proofs about Uninstall, for any repositories and units, any number of   *)
(* runs and any trouble.                                                   *)
(***************************************************************************)
EXTENDS Uninstall, TLAPS

-----------------------------------------------------------------------------
(* The types *)

LEMMA Nothing ==
  NoRun \in RunType
BY DEF NoRun, RunType, Step, Outcome

\* Every way of going on and of failing keeps the counters in bounds.
LEMMA Counted ==
  ASSUME TypeOK, Trouble \/ Fails \/ Works \/ UNCHANGED counts
  PROVE  runs' \in 0 .. MaxRuns /\ trouble' \in 0 .. MaxTrouble
BY UninstallAssumption DEF TypeOK, Trouble, Fails, Works, counts

\* Writing one field of a run keeps it a run.
LEMMA Setting ==
  ASSUME NEW r \in RunType
  PROVE  /\ \A at \in Step : [r EXCEPT !.at = at] \in RunType
         /\ \A b \in BOOLEAN : /\ [r EXCEPT !.keepGitHub = b] \in RunType
                               /\ [r EXCEPT !.keepData = b] \in RunType
                               /\ [r EXCEPT !.package = b] \in RunType
                               /\ [r EXCEPT !.stripped = b] \in RunType
                               /\ [r EXCEPT !.misled = b] \in RunType
         /\ \A n \in Nat : [r EXCEPT !.start = n] \in RunType
         /\ \A t \in SUBSET (Repo \cup Unit \cup Legacy \cup DataDir) :
              [r EXCEPT !.todo = t] \in RunType
         /\ \A e \in {"ok", "printed", "error", "back"} : [r EXCEPT !.exit = e] \in RunType
         /\ \A t : \A o \in Outcome : [r EXCEPT !.report[t] = o] \in RunType
  <1>1. \A at \in Step : [r EXCEPT !.at = at] \in RunType
    BY DEF RunType
  <1>2. \A b \in BOOLEAN : /\ [r EXCEPT !.keepGitHub = b] \in RunType
                               /\ [r EXCEPT !.keepData = b] \in RunType
                               /\ [r EXCEPT !.package = b] \in RunType
                               /\ [r EXCEPT !.stripped = b] \in RunType
                               /\ [r EXCEPT !.misled = b] \in RunType
    BY DEF RunType
  <1>3. \A n \in Nat : [r EXCEPT !.start = n] \in RunType
    BY DEF RunType
  <1>4. \A t \in SUBSET (Repo \cup Unit \cup Legacy \cup DataDir) :
              [r EXCEPT !.todo = t] \in RunType
    BY DEF RunType
  <1>5. \A e \in {"ok", "printed", "error", "back"} : [r EXCEPT !.exit = e] \in RunType
    BY DEF RunType
  <1>6. ASSUME NEW t, NEW o \in Outcome PROVE [r EXCEPT !.report[t] = o] \in RunType
    <2>1. [r.report EXCEPT ![t] = o] \in [Target -> Outcome]
      BY DEF RunType
    <2>2. QED BY <2>1 DEF RunType
  <1>7. QED BY <1>1, <1>2, <1>3, <1>4, <1>5, <1>6

LEMMA Going ==
  ASSUME run \in RunType
  PROVE  /\ \A at \in Step : [run EXCEPT !.at = at] \in RunType
         /\ \A exit \in {"ok", "printed", "error", "back"} :
              [run EXCEPT !.at = "ended", !.exit = exit] \in RunType
BY DEF RunType, Step

\* A target is reported, whether it is one or not.
LEMMA Reported ==
  ASSUME run \in RunType, NEW t, NEW o \in Outcome
  PROVE  /\ Report(t, o) \in RunType
         /\ [Report(t, o) EXCEPT !.misled = TRUE] \in RunType
  <1>1. [run.report EXCEPT ![t] = o] \in [Target -> Outcome]
    BY DEF RunType
  <1>2. run.todo \ {t[2]} \in SUBSET (Repo \cup Unit \cup Legacy \cup DataDir)
    BY DEF RunType
  <1>3. QED
    BY <1>1, <1>2 DEF RunType, Report

LEMMA Targets ==
  /\ <<"dir", "state">> \in Target /\ <<"path", Binary>> \in Target
BY DEF Target, DataDir

\* Each step leaves every variable in its type.
LEMMA TypesKept ==
  ASSUME TypeOK, [Next]_vars
  PROVE  TypeOK'
  <1>1. ASSUME NEW keepGitHub \in BOOLEAN, NEW keepData \in BOOLEAN, Begin(keepGitHub, keepData)
       PROVE  TypeOK'
    <2>1. run' \in RunType
      <3>1. trouble \in Nat /\ "inventory" \in Step
        BY UninstallAssumption DEF TypeOK, Step
      <3>2. run' = [[[[NoRun EXCEPT !.at = "inventory"] EXCEPT !.keepGitHub = keepGitHub]
                      EXCEPT !.keepData = keepData] EXCEPT !.start = trouble]
        BY <1>1 DEF Begin
      <3>3. QED
        BY <3>1, <3>2, Setting, Nothing
    <2>2. runs' \in 0 .. MaxRuns
      BY <1>1, UninstallAssumption DEF Begin, TypeOK
    <2>3. QED
      BY <1>1, <2>1, <2>2 DEF Begin, TypeOK, registry, local, counts, history
  <1>2. ASSUME Inventory
       PROVE  TypeOK'
    BY <1>2 DEF Inventory, Leaves, RunType, Step, TypeOK, registry, local, counts, history
  <1>3. ASSUME InventoryFails
       PROVE  TypeOK'
    BY <1>3, Counted, Going DEF InventoryFails, Leaves, Goto, End, Step, TypeOK, registry,
        local, counts, history
  <1>4. ASSUME Ask
       PROVE  TypeOK'
    <2>1. run' \in RunType /\ accepted' \subseteq Repo
      <3>1. run \in RunType /\ \A k : AfterAsking(k) \in Step
        BY DEF TypeOK, Step, AfterAsking
      <3>2. accepted' \subseteq Repo
        BY <1>4 DEF Ask, TypeOK, RunType, history
      <3>3. CASE Goto(AfterAsking(run.keepGitHub)) \/ End("back")
        BY <3>1, <3>2, <3>3, Setting DEF Goto, End, Step
      <3>4. CASE \E keepGitHub, keepData \in BOOLEAN :
                   run' = [run EXCEPT !.keepGitHub = keepGitHub, !.keepData = keepData,
                                      !.at = AfterAsking(keepGitHub)]
        <4>1. PICK keepGitHub \in BOOLEAN, keepData \in BOOLEAN :
                run' = [[[run EXCEPT !.keepGitHub = keepGitHub] EXCEPT !.keepData = keepData]
                         EXCEPT !.at = AfterAsking(keepGitHub)]
          BY <3>4
        <4>2. QED
          BY <3>1, <3>2, <4>1, Setting
      <3>5. QED
        BY <1>4, <3>3, <3>4 DEF Ask
    <2>2. QED
      BY <1>4, <2>1 DEF Ask, history, TypeOK, registry, local, counts, history
  <1>5. ASSUME Client
       PROVE  TypeOK'
    BY <1>5 DEF Client, RunType, Step, TypeOK, registry, local, counts, history
  <1>6. ASSUME ClientFails
       PROVE  TypeOK'
    BY <1>6, Counted, Going DEF ClientFails, End, TypeOK, registry, local, counts, history
  <1>7. ASSUME NEW r \in Repo, NextRepo(r)
       PROVE  TypeOK'
    BY <1>7 DEF NextRepo, RunType, Step, TypeOK, registry, local, counts, history
  <1>8. ASSUME NEW r \in Repo, DeleteHook(r)
       PROVE  TypeOK'
    BY <1>8, Counted DEF DeleteHook, CleanStep, Forgets, RunType, Step, TypeOK, registry,
        local, counts, history
  <1>9. ASSUME NEW r \in Repo, DeleteKey(r)
       PROVE  TypeOK'
    BY <1>9, Counted DEF DeleteKey, CleanStep, Forgets, RunType, Step, TypeOK, registry,
        local, counts, history
  <1>10. ASSUME NEW r \in Repo, RemoveKey(r)
       PROVE  TypeOK'
    BY <1>10, Counted DEF RemoveKey, CleanStep, Forgets, RunType, Step, TypeOK, registry,
        local, counts, history
  <1>11. ASSUME NEW r \in Repo, DeleteRow(r)
       PROVE  TypeOK'
    BY <1>11, Counted DEF DeleteRow, CleanStep, Forgets, RunType, Step, TypeOK, registry,
        local, counts, history
  <1>12. ASSUME NEW r \in Repo, CleanFails(r)
       PROVE  TypeOK'
    <2>1. run' \in RunType
      BY <1>12 DEF CleanFails, RunType, Step, TypeOK
    <2>2. github' \in [Repo -> SUBSET Artifact]
      BY <1>12 DEF CleanFails, TypeOK
    <2>3. QED
      BY <1>12, <2>1, <2>2, Counted DEF CleanFails, TypeOK, registry, local, counts, history
  <1>13. ASSUME GitHubDone
       PROVE  TypeOK'
    BY <1>13, Going DEF GitHubDone, Goto, Step, TypeOK, registry, local, counts, history
  <1>14. ASSUME Gate
       PROVE  TypeOK'
    <2>1. run' \in RunType /\ accepted' \subseteq Repo
      <3>1. run \in RunType /\ "package" \in Step
        BY DEF TypeOK, Step
      <3>2. accepted' \subseteq Repo
        BY <1>14 DEF Gate, TypeOK, RunType, history
      <3>3. QED
        BY <1>14, <3>1, <3>2, Going DEF Gate, Goto, End
    <2>2. QED
      BY <1>14, <2>1 DEF Gate, history, TypeOK, registry, local, counts, history
  <1>15. ASSUME Package
       PROVE  TypeOK'
    <2>1. run' \in RunType
      <3>1. run \in RunType /\ "services" \in Step
        BY DEF TypeOK, Step
      <3>2. Managed \in SUBSET (Repo \cup Unit \cup Legacy \cup DataDir)
        BY UninstallAssumption DEF Managed
      <3>3. PICK owned \in BOOLEAN :
              run' = [[[[run EXCEPT !.package = owned] EXCEPT !.at = "services"]
                        EXCEPT !.todo = Managed]
                        EXCEPT !.misled = owned # (Binary \in host.packaged)]
        BY <1>15 DEF Package
      <3>4. (owned # (Binary \in host.packaged)) \in BOOLEAN
        OBVIOUS
      <3>5. QED
        BY <3>1, <3>2, <3>3, <3>4, Setting
    <2>2. QED
      BY <1>15, <2>1, Counted DEF Package, Owned, TypeOK, registry, local, counts, history
  <1>16. ASSUME ServicesDone
       PROVE  TypeOK'
    BY <1>16 DEF ServicesDone, RunType, Step, TypeOK, registry, local, counts, history
  <1>17. ASSUME Reload
       PROVE  TypeOK'
    <2>1. run' \in RunType
      <3> DEFINE next == [[run EXCEPT !.at = "data"] EXCEPT !.todo = DataDir]
      <3>1. run \in RunType /\ "data" \in Step /\ "failed" \in Outcome
        BY DEF TypeOK, Step, Outcome
      <3>2. next \in RunType
        BY <3>1, Setting
      <3>3. run' = next \/ run' = [next EXCEPT !.report[<<"reload", "systemd">>] = "failed"]
        BY <1>17 DEF Reload
      <3> HIDE DEF next
      <3>4. [next EXCEPT !.report[<<"reload", "systemd">>] = "failed"] \in RunType
        BY <3>1, <3>2, Setting
      <3>5. QED
        BY <3>2, <3>3, <3>4
    <2>2. QED
      BY <1>17, <2>1, Counted DEF Reload, TypeOK, registry, local, counts, history
  <1>18. ASSUME DataDone
       PROVE  TypeOK'
    BY <1>18, Going DEF DataDone, Goto, Step, TypeOK, registry, local, counts, history
  <1>19. ASSUME NEW u \in Unit \cup Legacy, Service(u)
       PROVE  TypeOK'
    <2>1. run' \in RunType
      <3>1. /\ run \in RunType
            /\ {"removed", "failed", "already gone", "none"} \subseteq Outcome
        BY DEF TypeOK, Outcome
      <3>2. \/ \E o \in {"removed", "failed", "already gone", "none"} :
                 run' = Report(<<"service", u>>, o)
            \/ \E o \in {"already gone", "none"} :
                 run' = [Report(<<"service", u>>, o) EXCEPT !.misled = TRUE]
        BY <1>19 DEF Service
      <3>3. CASE \E o \in {"removed", "failed", "already gone", "none"} :
                   run' = Report(<<"service", u>>, o)
        <4>1. PICK o \in Outcome : run' = Report(<<"service", u>>, o)
          BY <3>1, <3>3
        <4>2. QED
          BY <3>1, <4>1, Reported
      <3>4. CASE \E o \in {"already gone", "none"} :
                   run' = [Report(<<"service", u>>, o) EXCEPT !.misled = TRUE]
        <4>1. PICK o \in Outcome : run' = [Report(<<"service", u>>, o) EXCEPT !.misled = TRUE]
          BY <3>1, <3>4
        <4>2. QED
          BY <3>1, <4>1, Reported
      <3>5. QED
        BY <3>2, <3>3, <3>4
    <2>2. service' \in [Managed -> SUBSET {"enabled", "active"}]
      BY <1>19 DEF Service, TypeOK
    <2>3. QED
      BY <1>19, <2>1, <2>2, Counted DEF Service, TypeOK, registry, local, counts, history
  <1>20. ASSUME NEW u \in Unit \cup Legacy, UnitFile(u)
       PROVE  TypeOK'
    <2>1. run' \in RunType
      <3>1. run \in RunType /\ {"deferred", "removed", "already gone"} \subseteq Outcome
        BY DEF TypeOK, Outcome
      <3>2. PICK owned \in BOOLEAN :
              run' = [[Report(<<"file", u>>, IF owned THEN "deferred" ELSE Fate(u \in files))
                        EXCEPT !.stripped = run.stripped \/ (~ owned /\ u \in files)]
                        EXCEPT !.misled = run.misled \/ owned # (u \in host.packaged)]
        BY <1>20 DEF UnitFile
      <3> DEFINE o == IF owned THEN "deferred" ELSE Fate(u \in files)
                 b1 == run.stripped \/ (~ owned /\ u \in files)
                 b2 == run.misled \/ owned # (u \in host.packaged)
      <3>3. o \in Outcome
        BY <3>1 DEF Fate
      <3>4. b1 \in BOOLEAN /\ b2 \in BOOLEAN
        BY <3>1 DEF RunType
      <3>5. run' = [[Report(<<"file", u>>, o) EXCEPT !.stripped = b1] EXCEPT !.misled = b2]
        BY <3>2
      <3> HIDE DEF o, b1, b2
      <3>6. Report(<<"file", u>>, o) \in RunType
        BY <3>1, <3>3, Reported
      <3>7. QED
        BY <3>4, <3>5, <3>6, Setting
    <2>2. QED
      BY <1>20, <2>1, Counted DEF UnitFile, Owned, TypeOK, registry, local, counts, history
  <1>21. ASSUME NEW u \in Unit \cup Legacy, UnitFileFails(u)
       PROVE  TypeOK'
    BY <1>21, Counted, Reported DEF UnitFileFails, Outcome, TypeOK, registry, local, counts,
        history
  <1>22. ASSUME NEW d \in DataDir, Data(d)
       PROVE  TypeOK'
    BY <1>22, Reported DEF Data, Wipes, Fate, Outcome, TypeOK, registry, local, counts,
        history
  <1>23. ASSUME NEW d \in DataDir, DataFails(d)
       PROVE  TypeOK'
    BY <1>23, Counted, Reported DEF DataFails, Wipes, Outcome, TypeOK, registry, local,
        counts, history
  <1>24. ASSUME HelperDir
       PROVE  TypeOK'
    <2>1. run' \in RunType
      <3>1. /\ run \in RunType /\ "binary" \in Step
            /\ {"removed", "none", "failed"} \subseteq Outcome
        BY DEF TypeOK, Step, Outcome
      <3>2. PICK o \in {"removed", "none", "failed"} :
              run' = [[run EXCEPT !.at = "binary"] EXCEPT !.report[<<"path", Helper>>] = o]
        BY <1>24 DEF HelperDir
      <3>3. QED
        BY <3>1, <3>2, Setting
    <2>2. QED
      BY <1>24, <2>1, Counted DEF HelperDir, TypeOK, registry, local, counts, history
  <1>25. ASSUME BinaryFile
       PROVE  TypeOK'
    <2>1. run' \in RunType
      <3>1. /\ run \in RunType /\ "report" \in Step
            /\ {"deferred", "removed", "already gone", "failed"} \subseteq Outcome
        BY DEF TypeOK, Step, Outcome
      <3>2. PICK o \in {"deferred", "removed", "already gone", "failed"} :
              run' = [[run EXCEPT !.at = "report"] EXCEPT !.report[<<"path", Binary>>] = o]
        BY <1>25 DEF BinaryFile, Fate
      <3>3. QED
        BY <3>1, <3>2, Setting
    <2>2. QED
      BY <1>25, <2>1, Counted DEF BinaryFile, TypeOK, registry, local, counts, history
  <1>26. ASSUME Finish
       PROVE  TypeOK'
    BY <1>26, Going DEF Finish, End, RunType, TypeOK, registry, local, counts, history
  <1>27. ASSUME Cancel
       PROVE  TypeOK'
    BY <1>27, Counted DEF Cancel, RunType, TypeOK, registry, local, counts, history
  <1>28. ASSUME Kill
       PROVE  TypeOK'
    BY <1>28, Counted, Nothing DEF Kill, TypeOK, registry, local, counts, history
  <1>29. ASSUME NEW r \in Repo, Register(r)
       PROVE  TypeOK'
    BY <1>29, Counted, Targets DEF Register, DataDir, TypeOK, registry, local, counts,
        history
  <1>30. ASSUME UpdateLands
       PROVE  TypeOK'
    BY <1>30, Targets DEF UpdateLands, DataDir, TypeOK, registry, local, counts, history
  <1>31. ASSUME DaemonLocks
       PROVE  TypeOK'
    BY <1>31, Targets DEF DaemonLocks, DataDir, TypeOK, registry, local, counts, history
  <1>34. ASSUME PutBack
       PROVE  TypeOK'
    BY <1>34, Counted, Targets DEF PutBack, TypeOK, registry, counts
  <1>32. CASE UNCHANGED vars
    BY <1>32 DEF vars, TypeOK, registry, local, counts, history
  <1>33. QED
    BY <1>1, <1>2, <1>3, <1>4, <1>5, <1>6, <1>7, <1>8, <1>9, <1>10, <1>11, <1>12, <1>13,
        <1>14, <1>15, <1>16, <1>17, <1>18, <1>19, <1>20, <1>21, <1>22, <1>23, <1>24, <1>25,
        <1>26, <1>27, <1>28, <1>29, <1>30, <1>31, <1>32, <1>34 DEF Next, Start, Uninstalling,
        Clean, Strip, Elsewhere

\* The types hold in every state of every execution: the runs check it for two
\* repositories, two runs and two troubles.
THEOREM TypeCorrect ==
  Spec => []TypeOK
  <1>1. Init => TypeOK
    BY UninstallAssumption, Nothing
    DEF Init, TypeOK, Artifact, Managed, Binary
  <1>2. QED
    BY <1>1, TypesKept, PTL DEF Spec

-----------------------------------------------------------------------------
(* What stays at GitHub *)

Cleaning == {"github", "hook", "key", "file", "row"}
Wrecking == {"package", "services", "files", "data"}

\* The run works on repositories that have their row: a registration of the same
\* repository cannot come in between, and no repository is cleaned twice.
WorkHasItsRow ==
    /\ run.at \in {"inventory", "ask", "client", "github"} => run.now = {}
    /\ run.at = "inventory" => run.repos = {}
    /\ run.at \in {"ask", "client"} => run.repos \subseteq rows
    /\ run.at \in Cleaning => /\ run.todo \cup run.now \subseteq rows
                              /\ run.todo \cap run.now = {}

\* When the row of a repository goes, nothing of it is at GitHub.
CleanedSoFar ==
    \A r \in run.now :
      /\ run.at \in {"key", "file", "row"} => "hook" \notin github[r]
      /\ run.at \in {"file", "row"} => "key" \notin github[r]

\* Every row is still to be cleaned, has failed, is to be left or came later.
RowsAccounted ==
    /\ run.at \in {"ask", "client"} => rows \subseteq run.repos \cup accepted \cup late
    /\ run.at = "ask" /\ run.keepGitHub => run.repos \subseteq accepted \cup late
    /\ run.at \in Cleaning =>
         rows \subseteq run.todo \cup run.now \cup run.failed \cup accepted \cup late
    /\ run.at = "gate" => rows \subseteq run.failed \cup accepted \cup late
    /\ run.at \in Wrecking /\ ~ run.keepData => rows \subseteq accepted \cup late

CleanupInv ==
    WorkHasItsRow /\ CleanedSoFar /\ RowsAccounted /\ OrphansAreAccepted

LEMMA CleanupKept ==
  ASSUME TypeOK, CleanupInv, [Next]_vars
  PROVE  CleanupInv'
  <1>1. ASSUME NEW keepGitHub \in BOOLEAN, NEW keepData \in BOOLEAN, Begin(keepGitHub, keepData)
       PROVE  CleanupInv'
    BY <1>1 DEF Begin, NoRun, CleanupInv, WorkHasItsRow, CleanedSoFar,
        RowsAccounted, OrphansAreAccepted, At, Cleaning, Wrecking, TypeOK, RunType,
        registry, local, counts, history
  <1>2. ASSUME Inventory
       PROVE  CleanupInv'
    BY <1>2 DEF Inventory, Leaves, CleanupInv, WorkHasItsRow, CleanedSoFar,
        RowsAccounted, OrphansAreAccepted, At, Cleaning, Wrecking, TypeOK, RunType,
        registry, local, counts, history
  <1>3. ASSUME InventoryFails
       PROVE  CleanupInv'
    <2>1. /\ run.at = "inventory" /\ run.now = {} /\ run.repos = {}
          /\ UNCHANGED registry
      BY <1>3 DEF InventoryFails, At, CleanupInv, WorkHasItsRow
    <2>2. OrphansAreAccepted'
      BY <1>3, <2>1 DEF InventoryFails, Leaves, CleanupInv, OrphansAreAccepted, registry
    <2>3. CASE run.keepGitHub
      <3>1. /\ run'.at = "ask" /\ run'.now = {} /\ run'.repos = {}
            /\ rows' \subseteq accepted'
        BY <1>3, <2>1, <2>3 DEF InventoryFails, Leaves, Goto, TypeOK, RunType, registry
      <3>2. QED
        BY <2>2, <3>1 DEF CleanupInv, WorkHasItsRow, CleanedSoFar, RowsAccounted,
            OrphansAreAccepted,
           Cleaning, Wrecking
    <2>4. CASE ~ run.keepGitHub
      <3>1. run'.at = "ended" /\ run'.now = {}
        BY <1>3, <2>1, <2>4 DEF InventoryFails, End, TypeOK, RunType
      <3>2. QED
        BY <2>2, <3>1 DEF CleanupInv, WorkHasItsRow, CleanedSoFar, RowsAccounted,
            OrphansAreAccepted,
           Cleaning, Wrecking
    <2>5. QED
      BY <2>3, <2>4
  <1>4. ASSUME Ask
       PROVE  CleanupInv'
    <2>1. /\ run.at = "ask" /\ run.now = {} /\ run.repos \subseteq rows
          /\ rows \subseteq run.repos \cup accepted \cup late
          /\ run.keepGitHub => run.repos \subseteq accepted \cup late
          /\ UNCHANGED <<registry, late>>
      BY <1>4 DEF Ask, At, CleanupInv, WorkHasItsRow, RowsAccounted, history
    <2>2. accepted \subseteq accepted'
      BY <1>4 DEF Ask, history
    <2>3. OrphansAreAccepted'
      BY <2>1, <2>2 DEF CleanupInv, OrphansAreAccepted, registry
    <2>4. \/ run'.at = "ended"
          \/ run'.at = "client"
          \/ run'.at = "package" /\ rows' \subseteq accepted' \cup late'
      <3>1. CASE Goto(AfterAsking(run.keepGitHub))
        BY <2>1, <2>2, <3>1 DEF Goto, AfterAsking, TypeOK, RunType, registry
      <3>2. CASE End("back")
        BY <3>2 DEF End, TypeOK, RunType
      <3>3. ASSUME NEW keepGitHub \in BOOLEAN, NEW keepData \in BOOLEAN,
                   run.keepGitHub \/ run.repos = {} => keepGitHub = run.keepGitHub,
                   run' = [run EXCEPT !.keepGitHub = keepGitHub, !.keepData = keepData,
                                      !.at = AfterAsking(keepGitHub)],
                   accepted' = IF keepGitHub THEN accepted \cup run.repos ELSE accepted
            PROVE  \/ run'.at = "client"
                   \/ run'.at = "package" /\ rows' \subseteq accepted' \cup late'
        <4>1. run'.at = AfterAsking(keepGitHub)
          BY <3>3 DEF TypeOK, RunType
        <4>2. QED
          BY <2>1, <3>3, <4>1 DEF AfterAsking, registry
      <3>4. QED
        BY <1>4, <3>1, <3>2, <3>3 DEF Ask
    <2>5. run'.now = {} /\ run'.repos = run.repos
      BY <1>4, <2>1 DEF Ask, Goto, End, TypeOK, RunType
    <2>6. QED
      BY <2>1, <2>2, <2>3, <2>4, <2>5 DEF CleanupInv, WorkHasItsRow, CleanedSoFar,
          RowsAccounted, OrphansAreAccepted,
           Cleaning, Wrecking, registry
  <1>5. ASSUME Client
       PROVE  CleanupInv'
    BY <1>5 DEF Client, CleanupInv, WorkHasItsRow, CleanedSoFar,
        RowsAccounted, OrphansAreAccepted, At, Cleaning, Wrecking, TypeOK, RunType,
        registry, local, counts, history
  <1>6. ASSUME ClientFails
       PROVE  CleanupInv'
    BY <1>6 DEF ClientFails, End, CleanupInv, WorkHasItsRow, CleanedSoFar,
        RowsAccounted, OrphansAreAccepted, At, Cleaning, Wrecking, TypeOK, RunType,
        registry, local, counts, history
  <1>7. ASSUME NEW r \in Repo, NextRepo(r)
       PROVE  CleanupInv'
    BY <1>7 DEF NextRepo, CleanupInv, WorkHasItsRow, CleanedSoFar,
        RowsAccounted, OrphansAreAccepted, At, Cleaning, Wrecking, TypeOK, RunType,
        registry, local, counts, history
  <1>8. ASSUME NEW r \in Repo, DeleteHook(r)
       PROVE  CleanupInv'
    BY <1>8 DEF DeleteHook, CleanStep, Forgets, CleanupInv, WorkHasItsRow, CleanedSoFar,
        RowsAccounted, OrphansAreAccepted, At, Cleaning, Wrecking, TypeOK, RunType,
        registry, local, counts, history
  <1>9. ASSUME NEW r \in Repo, DeleteKey(r)
       PROVE  CleanupInv'
    BY <1>9 DEF DeleteKey, CleanStep, Forgets, CleanupInv, WorkHasItsRow, CleanedSoFar,
        RowsAccounted, OrphansAreAccepted, At, Cleaning, Wrecking, TypeOK, RunType,
        registry, local, counts, history
  <1>10. ASSUME NEW r \in Repo, RemoveKey(r)
       PROVE  CleanupInv'
    BY <1>10 DEF RemoveKey, CleanStep, Forgets, CleanupInv, WorkHasItsRow, CleanedSoFar,
        RowsAccounted, OrphansAreAccepted, At, Cleaning, Wrecking, TypeOK, RunType,
        registry, local, counts, history
  <1>11. ASSUME NEW r \in Repo, DeleteRow(r)
       PROVE  CleanupInv'
    BY <1>11 DEF DeleteRow, CleanStep, Forgets, Artifact, CleanupInv, WorkHasItsRow,
        CleanedSoFar,
        RowsAccounted, OrphansAreAccepted, At, Cleaning, Wrecking, TypeOK, RunType,
        registry, local, counts, history
  <1>12. ASSUME NEW r \in Repo, CleanFails(r)
       PROVE  CleanupInv'
    BY <1>12 DEF CleanFails, Artifact, CleanupInv, WorkHasItsRow, CleanedSoFar,
        RowsAccounted, OrphansAreAccepted, At, Cleaning, Wrecking, TypeOK, RunType,
        registry, local, counts, history
  <1>13. ASSUME GitHubDone
       PROVE  CleanupInv'
    BY <1>13 DEF GitHubDone, Goto, CleanupInv, WorkHasItsRow, CleanedSoFar,
        RowsAccounted, OrphansAreAccepted, At, Cleaning, Wrecking, TypeOK, RunType,
        registry, local, counts, history
  <1>14. ASSUME Gate
       PROVE  CleanupInv'
    <2>1. /\ run.at = "gate" /\ rows \subseteq run.failed \cup accepted \cup late
          /\ UNCHANGED <<registry, late>> /\ accepted \subseteq accepted'
      BY <1>14 DEF Gate, At, CleanupInv, RowsAccounted, history
    <2>2. OrphansAreAccepted'
      BY <2>1 DEF CleanupInv, OrphansAreAccepted, registry
    <2>3. \/ run'.at = "ended"
          \/ /\ run'.at = "package" /\ run'.keepData = run.keepData
             /\ run.keepData \/ run.failed \subseteq accepted'
      BY <1>14 DEF Gate, Orphans, Goto, End, TypeOK, RunType
    <2>4. CleanedSoFar'
      BY <2>3 DEF CleanedSoFar
    <2>5. QED
      BY <2>1, <2>2, <2>3, <2>4 DEF CleanupInv, WorkHasItsRow, CleanedSoFar, RowsAccounted,
          OrphansAreAccepted,
           Cleaning, Wrecking, registry
  <1>15. ASSUME Package
       PROVE  CleanupInv'
    BY <1>15 DEF Package, CleanupInv, WorkHasItsRow, CleanedSoFar,
        RowsAccounted, OrphansAreAccepted, At, Cleaning, Wrecking, TypeOK, RunType,
        registry, local, counts, history
  <1>16. ASSUME ServicesDone
       PROVE  CleanupInv'
    BY <1>16 DEF ServicesDone, CleanupInv, WorkHasItsRow, CleanedSoFar,
        RowsAccounted, OrphansAreAccepted, At, Cleaning, Wrecking, TypeOK, RunType,
        registry, local, counts, history
  <1>17. ASSUME Reload
       PROVE  CleanupInv'
    <2>1. run.at = "files" /\ UNCHANGED <<registry, accepted, late>>
      BY <1>17 DEF Reload, At, history
    <2>2. run'.at = "data" /\ run'.keepData = run.keepData
      BY <1>17 DEF Reload, TypeOK, RunType
    <2>3. QED
      BY <2>1, <2>2 DEF CleanupInv, WorkHasItsRow, CleanedSoFar, RowsAccounted,
          OrphansAreAccepted,
           Cleaning, Wrecking, registry
  <1>18. ASSUME DataDone
       PROVE  CleanupInv'
    BY <1>18 DEF DataDone, Goto, CleanupInv, WorkHasItsRow, CleanedSoFar,
        RowsAccounted, OrphansAreAccepted, At, Cleaning, Wrecking, TypeOK, RunType,
        registry, local, counts, history
  <1>19. ASSUME NEW u \in Unit \cup Legacy, Service(u)
       PROVE  CleanupInv'
    BY <1>19 DEF Service, Report, CleanupInv, WorkHasItsRow, CleanedSoFar,
        RowsAccounted, OrphansAreAccepted, At, Cleaning, Wrecking, TypeOK, RunType,
        registry, local, counts, history
  <1>20. ASSUME NEW u \in Unit \cup Legacy, UnitFile(u)
       PROVE  CleanupInv'
    BY <1>20 DEF UnitFile, Report, CleanupInv, WorkHasItsRow, CleanedSoFar,
        RowsAccounted, OrphansAreAccepted, At, Cleaning, Wrecking, TypeOK, RunType,
        registry, local, counts, history
  <1>21. ASSUME NEW u \in Unit \cup Legacy, UnitFileFails(u)
       PROVE  CleanupInv'
    BY <1>21 DEF UnitFileFails, Report, CleanupInv, WorkHasItsRow, CleanedSoFar,
        RowsAccounted, OrphansAreAccepted, At, Cleaning, Wrecking, TypeOK, RunType,
        registry, local, counts, history
  <1>22. ASSUME NEW d \in DataDir, Data(d)
       PROVE  CleanupInv'
    <2>1. /\ run.at = "data" /\ UNCHANGED <<github, accepted, late>>
          /\ run'.at = "data" /\ run'.keepData = run.keepData
      BY <1>22 DEF Data, Report, At, TypeOK, RunType, history
    <2>2. \/ UNCHANGED rows
          \/ ~ run.keepData /\ rows' = {}
      BY <1>22 DEF Data, Wipes
    <2>3. QED
      BY <2>1, <2>2 DEF CleanupInv, WorkHasItsRow, CleanedSoFar, RowsAccounted,
          OrphansAreAccepted,
           Cleaning, Wrecking
  <1>23. ASSUME NEW d \in DataDir, DataFails(d)
       PROVE  CleanupInv'
    BY <1>23 DEF DataFails, Wipes, Report, CleanupInv, WorkHasItsRow, CleanedSoFar,
        RowsAccounted, OrphansAreAccepted, At, Cleaning, Wrecking, TypeOK, RunType,
        registry, local, counts, history
  <1>24. ASSUME HelperDir
       PROVE  CleanupInv'
    BY <1>24 DEF HelperDir, CleanupInv, WorkHasItsRow, CleanedSoFar,
        RowsAccounted, OrphansAreAccepted, At, Cleaning, Wrecking, TypeOK, RunType,
        registry, local, counts, history
  <1>25. ASSUME BinaryFile
       PROVE  CleanupInv'
    BY <1>25 DEF BinaryFile, CleanupInv, WorkHasItsRow, CleanedSoFar,
        RowsAccounted, OrphansAreAccepted, At, Cleaning, Wrecking, TypeOK, RunType,
        registry, local, counts, history
  <1>26. ASSUME Finish
       PROVE  CleanupInv'
    <2>1. run'.at = "ended" /\ UNCHANGED <<registry, accepted, late>>
      <3>1. End("printed") \/ End("error") \/ End("ok")
        BY <1>26 DEF Finish
      <3>2. QED
        BY <1>26, <3>1 DEF Finish, End, TypeOK, RunType, history
    <2>2. QED
      BY <2>1 DEF CleanupInv, WorkHasItsRow, CleanedSoFar, RowsAccounted, OrphansAreAccepted,
           Cleaning, Wrecking, registry
  <1>27. ASSUME Cancel
       PROVE  CleanupInv'
    BY <1>27 DEF Cancel, CleanupInv, WorkHasItsRow, CleanedSoFar,
        RowsAccounted, OrphansAreAccepted, At, Cleaning, Wrecking, TypeOK, RunType,
        registry, local, counts, history
  <1>28. ASSUME Kill
       PROVE  CleanupInv'
    BY <1>28 DEF Kill, NoRun, CleanupInv, WorkHasItsRow, CleanedSoFar,
        RowsAccounted, OrphansAreAccepted, At, Cleaning, Wrecking, TypeOK, RunType,
        registry, local, counts, history
  <1>29. ASSUME NEW r \in Repo, Register(r)
       PROVE  CleanupInv'
    BY <1>29 DEF Register, CleanupInv, WorkHasItsRow, CleanedSoFar,
        RowsAccounted, OrphansAreAccepted, At, Cleaning, Wrecking, TypeOK, RunType,
        registry, local, counts, history
  <1>30. ASSUME UpdateLands
       PROVE  CleanupInv'
    BY <1>30 DEF UpdateLands, CleanupInv, WorkHasItsRow, CleanedSoFar,
        RowsAccounted, OrphansAreAccepted, At, Cleaning, Wrecking, TypeOK, RunType,
        registry, local, counts, history
  <1>31. ASSUME DaemonLocks
       PROVE  CleanupInv'
    BY <1>31 DEF DaemonLocks, CleanupInv, WorkHasItsRow, CleanedSoFar,
        RowsAccounted, OrphansAreAccepted, At, Cleaning, Wrecking, TypeOK, RunType,
        registry, local, counts, history
  <1>34. ASSUME PutBack
       PROVE  CleanupInv'
    BY <1>34 DEF PutBack, CleanupInv, WorkHasItsRow, CleanedSoFar,
        RowsAccounted, OrphansAreAccepted, At, Cleaning, Wrecking, TypeOK, RunType,
        registry, counts
  <1>32. CASE UNCHANGED vars
    BY <1>32 DEF vars, CleanupInv, WorkHasItsRow, CleanedSoFar, RowsAccounted,
        OrphansAreAccepted, registry, local, counts, history
  <1>33. QED
    BY <1>1, <1>2, <1>3, <1>4, <1>5, <1>6, <1>7, <1>8, <1>9, <1>10, <1>11, <1>12, <1>13,
        <1>14, <1>15, <1>16, <1>17, <1>18, <1>19, <1>20, <1>21, <1>22, <1>23, <1>24, <1>25,
        <1>26, <1>27, <1>28, <1>29, <1>30, <1>31, <1>32, <1>34 DEF Next, Start, Uninstalling,
        Clean, Strip, Elsewhere

\* What stays at GitHub without a row, the operator agreed to leave or registered after
\* the inventory: the clean-up of uninstall, its questions, its gate and the data it
\* destroys, over any number of runs that fail, are killed or cancelled (runUninstall,
\* deleteRepoArtifacts).
THEOREM OrphansAreConsented ==
  Spec => []OrphansAreAccepted
  <1>1. Init => CleanupInv
    BY DEF Init, NoRun, CleanupInv, WorkHasItsRow, CleanedSoFar, RowsAccounted,
        OrphansAreAccepted, Cleaning, Wrecking
  <1>2. CleanupInv => OrphansAreAccepted
    BY DEF CleanupInv
  <1>3. QED
    BY <1>1, <1>2, CleanupKept, TypeCorrect, PTL DEF Spec

-----------------------------------------------------------------------------
(* What the report says *)

\* Nothing has failed, been cancelled or killed since the run began.
Smooth == run.at # "idle" /\ run.start = trouble

\* Its turn over, a target is gone or the report says why not; and in a smooth run only
\* what the operator keeps or a package owns is still there.
Settled(t) ==
    /\ \/ run.misled
       \/ Gone(t)
       \/ run.report[t] \in {"kept", "failed", "deferred"}
    /\ Smooth =>
         \/ Gone(t)
         \/ run.report[t] = "kept" /\ run.keepData
         \/ run.report[t] = "deferred" /\ t[2] \in host.packaged

\* The turn of a unit, a unit file, a data directory and of the two paths is over.
ServiceOver(u) == \/ run.at = "services" /\ u \notin run.todo
                  \/ run.at \in {"files", "data", "helper", "binary", "report"}
                  \/ Finished
FileOver(u) == \/ run.at = "files" /\ u \notin run.todo
               \/ run.at \in {"data", "helper", "binary", "report"}
               \/ Finished
DirOver(d)  == \/ run.at = "data" /\ d \notin run.todo
               \/ run.at \in {"helper", "binary", "report"}
               \/ Finished
HelperOver  == run.at \in {"binary", "report"} \/ Finished
BinaryOver  == run.at = "report" \/ Finished

\* Every target whose turn is over is settled, unless the daemon or an update put it back.
Told ==
    /\ \A u \in Managed : ServiceOver(u) => Settled(<<"service", u>>)
    /\ \A u \in Unit \cup Legacy : FileOver(u) => Settled(<<"file", u>>)
    /\ \A d \in DataDir :
         DirOver(d) /\ <<"dir", d>> \notin back => Settled(<<"dir", d>>)
    /\ HelperOver => Settled(<<"path", Helper>>)
    /\ BinaryOver /\ <<"path", Binary>> \notin back => Settled(<<"path", Binary>>)

\* Without systemd no unit runs.
Quiet == ~ host.systemd => \A u \in Managed : service[u] = {}

\* Troubles are only added.
Begun == run.at # "idle" => run.start <= trouble

\* A smooth run has met no failure, was not cancelled, and dpkg and systemctl answered it.
Unhurt ==
    /\ ~ run.cancelled /\ ~ run.misled /\ run.failed = {}
    /\ \A t \in Target : run.report[t] # "failed"
    /\ run.package => Binary \in host.packaged

\* Only a missing token ends it early.
EndsEarly ==
    /\ run.at = "client" => ~ run.keepGitHub /\ run.repos # {}
    /\ run.at = "ended" /\ run.exit \notin {"ok", "printed", "back"} =>
         ~ run.keepGitHub /\ run.repos # {} /\ "config" \notin dirs

\* It leaves nothing of its inventory at GitHub.
LeavesNothing ==
    /\ run.at \in Cleaning =>
         \A r \in run.repos : r \in run.todo \cup run.now \/ github[r] = {}
    /\ \/ run.at \in {"gate", "package", "services", "files", "data", "helper", "binary", "report"}
       \/ Finished
       => run.keepGitHub \/ \A r \in run.repos : github[r] = {}

GoesWell == Smooth => Unhurt /\ EndsEarly /\ LeavesNothing

\* A status of zero without --json is told only of a run without failures.
Honest == run.at = "ended" /\ run.exit = "ok" => ~ Failed

AccountInv == Told /\ Quiet /\ Begun /\ GoesWell /\ Honest

\* What stands there, by kind.
LEMMA GoneOf ==
  /\ \A u : Gone(<<"service", u>>) <=> service[u] = {}
  /\ \A u : Gone(<<"file", u>>) <=> u \notin files
  /\ \A d : Gone(<<"dir", d>>) <=> d \notin dirs
  /\ Gone(<<"path", Helper>>) <=> ~ helper
  /\ Gone(<<"path", Binary>>) <=> ~ binary
  /\ Gone(<<"reload", "systemd">>)
BY DEF Gone, Helper, Binary

LEMMA GoneThen ==
  /\ \A u : Gone(<<"service", u>>)' <=> service'[u] = {}
  /\ \A u : Gone(<<"file", u>>)' <=> u \notin files'
  /\ \A d : Gone(<<"dir", d>>)' <=> d \notin dirs'
  /\ Gone(<<"path", Helper>>)' <=> ~ helper'
  /\ Gone(<<"path", Binary>>)' <=> ~ binary'
  /\ Gone(<<"reload", "systemd">>)'
BY DEF Gone, Helper, Binary

\* A target is a pair, of one of five kinds.
LEMMA Kinds ==
  /\ \A u \in Managed : <<"service", u>> \in Target
  /\ \A u \in Unit \cup Legacy : <<"file", u>> \in Target
  /\ \A d \in DataDir : <<"dir", d>> \in Target
  /\ <<"path", Helper>> \in Target /\ <<"path", Binary>> \in Target
  /\ \A t \in Target : \/ \E u \in Managed : t = <<"service", u>>
                       \/ \E u \in Unit \cup Legacy : t = <<"file", u>>
                       \/ \E d \in DataDir : t = <<"dir", d>>
                       \/ t \in {<<"path", Helper>>, <<"path", Binary>>, <<"reload", "systemd">>}
BY DEF Target

\* Where the inventory, the questions and GitHub are under way, or the run did not finish,
\* no target has had its turn.
LEMMA EarlyTold ==
  ASSUME run'.at \in {"idle", "inventory", "ask", "client", "gate", "package"} \cup Cleaning
         \/ (run'.at = "ended" /\ run'.exit \notin {"ok", "printed"})
  PROVE  Told'
BY DEF Told, ServiceOver, FileOver, DirOver, HelperOver, BinaryOver, Finished, At, Cleaning

\* A target stays settled while nobody puts it back or rewrites what the report says of it.
LEMMA SettledStays ==
  ASSUME NEW t, Settled(t), Gone(t) => Gone(t)', run'.report[t] = run.report[t],
         run'.keepData = run.keepData, UNCHANGED host, run.misled => run'.misled,
         Smooth' => Smooth
  PROVE  Settled(t)'
BY DEF Settled

\* No step takes a trouble back.
LEMMA TroublesAdd ==
  ASSUME TypeOK, Trouble \/ Fails \/ Works \/ UNCHANGED counts
  PROVE  /\ trouble \in Nat /\ trouble' \in Nat /\ trouble <= trouble'
         /\ run.cancelled \in BOOLEAN
         /\ Trouble => trouble' = trouble + 1
         /\ Fails /\ ~ run.cancelled => trouble' = trouble + 1
         /\ Works => ~ run.cancelled
  <1>1. trouble \in Nat
    BY UninstallAssumption DEF TypeOK
  <1>2. QED
    BY <1>1, UninstallAssumption DEF TypeOK, RunType, Trouble, Fails, Works, counts

\* After a step of the run it is smooth only if it was and met no trouble.
LEMMA SmoothBefore ==
  ASSUME Begun, run.at # "idle", run'.start = run.start, run.start \in Nat,
         trouble \in Nat, trouble' \in Nat, trouble <= trouble'
  PROVE  /\ Begun'
         /\ Smooth' => Smooth /\ trouble' = trouble
BY DEF Begun, Smooth

\* A run that has not finished and says nothing of failures is honest.
LEMMA HonestThen ==
  ASSUME ~ (run'.at = "ended" /\ run'.exit = "ok")
  PROVE  Honest'
BY DEF Honest

LEMMA QuietStays ==
  ASSUME Quiet, UNCHANGED <<service, host>>
  PROVE  Quiet'
BY DEF Quiet

LEMMA BeginAccounts ==
  ASSUME TypeOK, AccountInv, NEW keepGitHub \in BOOLEAN, NEW keepData \in BOOLEAN,
         Begin(keepGitHub, keepData)
  PROVE  AccountInv'
  <1>1. /\ run'.at = "inventory" /\ run'.start = trouble' /\ trouble' \in Nat
        /\ run'.cancelled = FALSE /\ run'.misled = FALSE /\ run'.failed = {}
        /\ run'.package = FALSE /\ run'.report = [t \in Target |-> "none"]
    BY UninstallAssumption DEF Begin, NoRun, TypeOK
  <1>2. Told'
    BY <1>1, EarlyTold
  <1>3. Quiet'
    BY QuietStays DEF AccountInv, Begin, local
  <1>4. Begun' /\ Honest'
    BY <1>1 DEF Begun, Honest
  <1>5. GoesWell'
    BY <1>1 DEF GoesWell, Unhurt, EndsEarly, LeavesNothing, Cleaning, Finished, At
  <1>6. QED
    BY <1>2, <1>3, <1>4, <1>5 DEF AccountInv

\* What the inventory, the questions and the work at GitHub leave for GoesWell to say.
LEMMA EarlyAccounts ==
  ASSUME TypeOK, CleanupInv, AccountInv,
         \/ Inventory \/ InventoryFails \/ Ask \/ Client \/ ClientFails
         \/ (\E r \in Repo : Clean(r)) \/ GitHubDone \/ Gate
  PROVE  AccountInv'
  <1>0. /\ run \in RunType /\ run.start \in Nat
        /\ run.at \in {"inventory", "ask", "client", "gate"} \cup Cleaning
    BY DEF TypeOK, RunType, Inventory, InventoryFails, Ask, Client, ClientFails, Clean,
           NextRepo, DeleteHook, DeleteKey, RemoveKey, DeleteRow, CleanStep, CleanFails,
           GitHubDone, Gate, At, Cleaning
  <1>1. Trouble \/ Fails \/ Works \/ UNCHANGED counts
    BY DEF Inventory, InventoryFails, Ask, Client, ClientFails, Clean,
           NextRepo, DeleteHook, DeleteKey, RemoveKey, DeleteRow, CleanStep, CleanFails,
           GitHubDone, Gate, counts
  <1>2. run'.start = run.start
    BY <1>0 DEF RunType, Inventory, InventoryFails, Ask, Client, ClientFails, Clean,
           NextRepo, DeleteHook, DeleteKey, RemoveKey, DeleteRow, CleanStep, CleanFails,
           GitHubDone, Gate, Goto, End
  <1>3. /\ run'.report = run.report /\ run'.cancelled = run.cancelled
        /\ run'.misled = run.misled /\ run'.package = run.package
    BY <1>0 DEF RunType, Inventory, InventoryFails, Ask, Client, ClientFails, Clean,
           NextRepo, DeleteHook, DeleteKey, RemoveKey, DeleteRow, CleanStep, CleanFails,
           GitHubDone, Gate, Goto, End
  <1>4. /\ Begun'
        /\ Smooth' => Smooth /\ trouble' = trouble
    BY <1>0, <1>1, <1>2, TroublesAdd, SmoothBefore DEF AccountInv, Cleaning
  <1>5. \/ run'.at \in {"ask", "client", "gate", "package"} \cup Cleaning
        \/ run'.at = "ended" /\ run'.exit \in {"error", "back"}
    BY <1>0 DEF RunType, Inventory, InventoryFails, Ask, Client, ClientFails, Clean,
           NextRepo, DeleteHook, DeleteKey, RemoveKey, DeleteRow, CleanStep, CleanFails,
           GitHubDone, Gate, Goto, End, AfterAsking, Cleaning
  <1>6. Told' /\ Honest'
    BY <1>5, EarlyTold, HonestThen DEF Cleaning
  <1>7. Quiet'
    BY QuietStays DEF AccountInv, Inventory, InventoryFails, Ask, Client, ClientFails, Clean,
           NextRepo, DeleteHook, DeleteKey, RemoveKey, DeleteRow, CleanStep, CleanFails,
           GitHubDone, Gate, local
  <1>8. GoesWell'
    <2> SUFFICES ASSUME Smooth' PROVE Unhurt' /\ EndsEarly' /\ LeavesNothing'
      BY DEF GoesWell
    <2>1. /\ Smooth /\ trouble' = trouble /\ ~ run.cancelled
          /\ ~ Trouble /\ ~ Fails
          /\ Unhurt /\ EndsEarly /\ LeavesNothing
      BY <1>1, <1>4, TroublesAdd DEF AccountInv, GoesWell, Unhurt
    <2>2. run'.failed = run.failed => Unhurt'
      <3>1. UNCHANGED host
        BY DEF Inventory, InventoryFails, Ask, Client, ClientFails, Clean,
           NextRepo, DeleteHook, DeleteKey, RemoveKey, DeleteRow, CleanStep, CleanFails,
           GitHubDone, Gate
      <3>2. QED
        BY <1>3, <2>1, <3>1 DEF Unhurt
    <2>3. CASE Inventory
      <3>1. run'.at = "ask" /\ run'.failed = run.failed
        BY <1>0, <2>3 DEF RunType, Inventory
      <3>2. QED
        BY <2>2, <3>1 DEF EndsEarly, LeavesNothing, Cleaning, Finished, At
    <2>4. CASE InventoryFails
      BY <2>1, <2>4 DEF InventoryFails
    <2>5. CASE Ask
      <3>1. run.at = "ask" /\ run'.failed = run.failed /\ run'.repos = run.repos
            /\ UNCHANGED dirs
        BY <1>0, <2>5 DEF RunType, Ask, Goto, End, At
      <3>2. \/ run'.at = "client" /\ ~ run'.keepGitHub /\ run.repos # {}
            \/ run'.at = "package" /\ (run'.keepGitHub \/ run.repos = {})
            \/ run'.at = "ended" /\ run'.exit = "back"
        BY <1>0, <2>5 DEF RunType, Ask, Goto, End, AfterAsking
      <3>3. QED
        BY <2>2, <3>1, <3>2 DEF EndsEarly, LeavesNothing, Cleaning, Finished, At
    <2>6. CASE Client
      <3>1. run'.at = "github" /\ run'.failed = run.failed /\ run'.repos = run.repos
            /\ run'.todo = run.repos
        BY <1>0, <2>6 DEF RunType, Client
      <3>2. QED
        BY <2>2, <3>1 DEF EndsEarly, LeavesNothing, Cleaning, Finished, At
    <2>7. CASE ClientFails
      <3>1. "config" \notin dirs /\ run.at = "client" /\ UNCHANGED dirs
        BY <2>1, <2>7 DEF ClientFails, At
      <3>2. run'.at = "ended" /\ run'.failed = run.failed /\ run'.repos = run.repos
            /\ run'.exit = "error" /\ run'.keepGitHub = run.keepGitHub
        BY <1>0, <2>7 DEF RunType, ClientFails, End
      <3>3. QED
        BY <2>1, <2>2, <3>1, <3>2 DEF EndsEarly, LeavesNothing, Cleaning, Finished, At
    <2>8. ASSUME NEW r \in Repo, NextRepo(r)
          PROVE  Unhurt' /\ EndsEarly' /\ LeavesNothing'
      <3>1. run.at = "github" /\ run'.at = "hook" /\ run'.failed = run.failed
            /\ run'.repos = run.repos /\ run'.todo = run.todo \ {r} /\ run'.now = {r}
            /\ UNCHANGED github
        BY <1>0, <2>8 DEF RunType, NextRepo, At, registry
      <3>2. run.now = {}
        BY <3>1 DEF CleanupInv, WorkHasItsRow
      <3>3. QED
        BY <2>1, <2>2, <3>1, <3>2 DEF EndsEarly, LeavesNothing, Cleaning, Finished, At
    <2>9. ASSUME NEW r \in Repo, DeleteHook(r) \/ DeleteKey(r) \/ RemoveKey(r)
          PROVE  Unhurt' /\ EndsEarly' /\ LeavesNothing'
      <3>1. /\ run.at \in Cleaning \ {"github"} /\ run'.at \in Cleaning \ {"github"}
            /\ run'.failed = run.failed /\ run'.repos = run.repos
            /\ run'.todo = run.todo /\ run'.now = run.now
            /\ github' = [github EXCEPT ![r] = @ \ {run.at}]
        BY <1>0, <2>9 DEF RunType, DeleteHook, DeleteKey, RemoveKey, CleanStep, At, Cleaning
      <3>2. \A q \in Repo : github'[q] \subseteq github[q]
        BY <3>1 DEF TypeOK
      <3>3. \A q \in run'.repos : q \in run'.todo \cup run'.now \/ github'[q] = {}
        BY <1>0, <2>1, <3>1, <3>2 DEF LeavesNothing, RunType
      <3>4. QED
        BY <2>2, <3>1, <3>3 DEF EndsEarly, LeavesNothing, Cleaning, Finished, At
    <2>10. ASSUME NEW r \in Repo, DeleteRow(r)
           PROVE  Unhurt' /\ EndsEarly' /\ LeavesNothing'
      <3>1. /\ run.at = "row" /\ run.now = {r} /\ run'.at = "github" /\ run'.now = {}
            /\ run'.todo = run.todo /\ run'.repos = run.repos /\ run'.failed = run.failed
            /\ github' = [github EXCEPT ![r] = @ \ {"row"}]
        BY <1>0, <2>10 DEF RunType, DeleteRow, CleanStep, At
      <3>2. github[r] = {}
        BY <3>1 DEF CleanupInv, CleanedSoFar, TypeOK, Artifact
      <3>3. \A q \in Repo : github'[q] \subseteq github[q]
        BY <3>1 DEF TypeOK
      <3>4. \A q \in run'.repos : q \in run'.todo \cup run'.now \/ github'[q] = {}
        BY <1>0, <2>1, <3>1, <3>2, <3>3 DEF LeavesNothing, Cleaning, RunType
      <3>5. QED
        BY <2>2, <3>1, <3>4 DEF EndsEarly, LeavesNothing, Cleaning, Finished, At
    <2>11. ASSUME NEW r \in Repo, CleanFails(r)
           PROVE  Unhurt' /\ EndsEarly' /\ LeavesNothing'
      BY <2>1, <2>11 DEF CleanFails
    <2>12. CASE GitHubDone
      <3>1. run.at = "github" /\ run.todo = {} /\ run'.at = "gate" /\ run'.failed = run.failed
            /\ run'.repos = run.repos /\ UNCHANGED github
        BY <1>0, <2>12 DEF RunType, GitHubDone, At, Goto, registry
      <3>2. run.now = {}
        BY <3>1 DEF CleanupInv, WorkHasItsRow
      <3>3. QED
        BY <2>1, <2>2, <3>1, <3>2 DEF EndsEarly, LeavesNothing, Cleaning, Finished, At
    <2>13. CASE Gate
      <3>1. ~ Orphans /\ run.at = "gate"
        BY <2>1, <2>13 DEF Unhurt, Orphans, Gate, At
      <3>2. run'.at = "package" /\ run'.repos = run.repos /\ run'.failed = run.failed
            /\ run'.keepGitHub = run.keepGitHub /\ UNCHANGED github
        BY <1>0, <2>13, <3>1 DEF RunType, Gate, Goto, registry
      <3>3. QED
        BY <2>1, <2>2, <3>1, <3>2 DEF EndsEarly, LeavesNothing, Cleaning, Finished, At
    <2>14. QED
      BY <2>3, <2>4, <2>5, <2>6, <2>7, <2>8, <2>9, <2>10, <2>11, <2>12, <2>13 DEF Clean
  <1>9. QED
    BY <1>4, <1>6, <1>7, <1>8 DEF AccountInv

\* The engine's phases.
Late == {"package", "services", "files", "data", "helper", "binary", "report"}

\* What a step of the engine leaves as it was.
Engine ==
    /\ run' \in RunType /\ run.at \in Late
    /\ run'.start = run.start /\ run'.keepGitHub = run.keepGitHub
    /\ run'.keepData = run.keepData /\ run'.repos = run.repos
    /\ run'.failed = run.failed /\ run'.cancelled = run.cancelled
    /\ UNCHANGED <<github, host, back>>

\* A step of the engine keeps AccountInv where its target is settled, other targets keep
\* what is said of them, and in a smooth run nothing failed.
LEMMA EngineAccounts ==
  ASSUME TypeOK, AccountInv, Engine, Told', Quiet',
         Trouble \/ Fails \/ Works \/ UNCHANGED counts,
         \/ run'.at \in Late
         \/ run'.at = "ended" /\ run'.exit \in {"ok", "printed", "error"},
         run'.at = "ended" /\ run'.exit = "error" => Failed,
         run'.at = "ended" => UNCHANGED <<run.report, dirs>>,
         run'.at = "ended" /\ run'.exit = "ok" => ~ Failed,
         Smooth /\ Unhurt /\ trouble' = trouble =>
           /\ ~ run'.misled
           /\ \A t \in Target : run'.report[t] # "failed"
           /\ run'.package => Binary \in host.packaged
  PROVE  AccountInv'
  <1>1. /\ Begun'
        /\ Smooth' => Smooth /\ trouble' = trouble
    <2>1. run.at # "idle" /\ run.start \in Nat
      BY DEF Engine, Late, TypeOK, RunType
    <2>2. QED
      BY <2>1, TroublesAdd, SmoothBefore DEF AccountInv, Engine
  <1>2. Honest'
    <2> SUFFICES ASSUME run'.at = "ended", run'.exit = "ok" PROVE ~ Failed'
      BY DEF Honest
    <2>1. QED
      BY DEF Failed, Engine
  <1>3. GoesWell'
    <2> SUFFICES ASSUME Smooth' PROVE Unhurt' /\ EndsEarly' /\ LeavesNothing'
      BY DEF GoesWell
    <2>1. Smooth /\ Unhurt /\ EndsEarly /\ LeavesNothing /\ trouble' = trouble
      BY <1>1 DEF AccountInv, GoesWell
    <2>2. Unhurt'
      BY <2>1 DEF Unhurt, Engine
    <2>3. ~ Failed
      BY <2>1 DEF Unhurt, Failed
    <2>4. run'.at \in Late \/ Finished'
      BY <2>3 DEF Finished, At
    <2>5. EndsEarly' /\ LeavesNothing'
      BY <2>1, <2>4 DEF EndsEarly, LeavesNothing, Engine, Late, Cleaning, Finished, At
    <2>6. QED
      BY <2>2, <2>5
  <1>4. QED
    BY <1>1, <1>2, <1>3 DEF AccountInv

\* What the engine does to one target leaves the others settled.
LEMMA OthersSettled ==
  ASSUME TypeOK, AccountInv, Engine, Trouble \/ Fails \/ Works \/ UNCHANGED counts,
         run.misled => run'.misled,
         NEW t, Settled(t), run'.report[t] = run.report[t], Gone(t) => Gone(t)'
  PROVE  Settled(t)'
  <1>1. run.at # "idle" /\ run.start \in Nat
    BY DEF Engine, Late, TypeOK, RunType
  <1>2. Smooth' => Smooth
    BY <1>1, TroublesAdd, SmoothBefore DEF AccountInv, Engine
  <1>3. QED
    BY <1>2, SettledStays DEF Engine

\* Report writes one target of the phase and takes it off the list.
LEMMA ReportIs ==
  ASSUME run \in RunType, NEW t, NEW o
  PROVE  /\ Report(t, o).todo = run.todo \ {t[2]}
         /\ Report(t, o).at = run.at /\ Report(t, o).start = run.start
         /\ Report(t, o).keepGitHub = run.keepGitHub /\ Report(t, o).keepData = run.keepData
         /\ Report(t, o).repos = run.repos /\ Report(t, o).failed = run.failed
         /\ Report(t, o).cancelled = run.cancelled /\ Report(t, o).package = run.package
         /\ Report(t, o).misled = run.misled
         /\ \A s \in Target : Report(t, o).report[s] = IF s = t THEN o ELSE run.report[s]
BY DEF Report, RunType

LEMMA ServiceAccounts ==
  ASSUME TypeOK, TypeOK', AccountInv, NEW u \in Unit \cup Legacy, Service(u)
  PROVE  AccountInv'
  <1> DEFINE t == <<"service", u>>
  <1>0. run \in RunType /\ run' \in RunType /\ run.at = "services" /\ u \in run.todo
        /\ t[2] = u
    BY DEF TypeOK, Service, Turn, At
  <1>1. PICK o \in Outcome :
          \/ /\ run' = Report(t, o) /\ o # "failed" /\ Works
             /\ service' = [service EXCEPT ![u] = {}] \/ (UNCHANGED service /\ service[u] = {})
          \/ /\ run' = Report(t, o) /\ o = "failed" /\ Trouble
             /\ service' \in {service, [service EXCEPT ![u] = @ \ {"enabled"}]}
          \/ /\ run' = [Report(t, o) EXCEPT !.misled = TRUE] /\ o # "failed" /\ Fails
             /\ UNCHANGED service
    BY DEF Service, Runs, Outcome
  <1>2. /\ run'.todo = run.todo \ {u} /\ run'.at = "services"
        /\ run.misled => run'.misled
        /\ run'.package = run.package
        /\ \A s \in Target : run'.report[s] = IF s = t THEN o ELSE run.report[s]
        /\ Engine
    <2>1. Report(t, o) \in RunType
      BY <1>0, <1>1, Reported
    <2>2. /\ run'.todo = Report(t, o).todo /\ run'.at = Report(t, o).at
          /\ run'.package = Report(t, o).package /\ run'.report = Report(t, o).report
          /\ run'.start = Report(t, o).start /\ run'.keepGitHub = Report(t, o).keepGitHub
          /\ run'.keepData = Report(t, o).keepData /\ run'.repos = Report(t, o).repos
          /\ run'.failed = Report(t, o).failed /\ run'.cancelled = Report(t, o).cancelled
          /\ Report(t, o).misled => run'.misled
      BY <1>1, <2>1 DEF RunType
    <2>3. UNCHANGED <<github, host, back>>
      BY DEF Service, registry, history
    <2>4. /\ Report(t, o).todo = run.todo \ {u}
          /\ Report(t, o).at = run.at /\ Report(t, o).start = run.start
          /\ Report(t, o).keepGitHub = run.keepGitHub /\ Report(t, o).keepData = run.keepData
          /\ Report(t, o).repos = run.repos /\ Report(t, o).failed = run.failed
          /\ Report(t, o).cancelled = run.cancelled /\ Report(t, o).package = run.package
          /\ Report(t, o).misled = run.misled
          /\ \A s \in Target : Report(t, o).report[s] = IF s = t THEN o ELSE run.report[s]
      BY <1>0, ReportIs
    <2> HIDE DEF t
    <2>5. QED
      BY <1>0, <2>2, <2>3, <2>4 DEF Engine, Late
  <1>3. Trouble \/ Fails \/ Works \/ UNCHANGED counts
    BY <1>1
  <1>4. /\ \A v \in Managed : service[v] = {} => service'[v] = {}
        /\ u \in Managed => o = "failed" \/ run'.misled \/ service'[u] = {}
        /\ Unhurt /\ trouble' = trouble =>
             /\ run' = Report(t, o) /\ o # "failed"
             /\ u \in Managed => service'[u] = {}
    <2>1. Report(t, o) \in RunType
      BY <1>0, <1>1, Reported
    <2>2. run' = [Report(t, o) EXCEPT !.misled = TRUE] => run'.misled
      BY <2>1 DEF RunType
    <2>3. service \in [Managed -> SUBSET {"enabled", "active"}]
      BY DEF TypeOK
    <2>4. \A v \in Managed : service[v] = {} => service'[v] = {}
      BY <1>1, <2>3
    <2>5. u \in Managed => o = "failed" \/ run'.misled \/ service'[u] = {}
      BY <1>1, <2>2, <2>3
    <2>6. Unhurt /\ trouble' = trouble => ~ Trouble /\ ~ Fails
      BY <1>3, TroublesAdd DEF Unhurt
    <2>7. QED
      BY <1>1, <2>3, <2>4, <2>5, <2>6
  <1>5. Quiet'
    BY <1>2, <1>4 DEF AccountInv, Quiet, Engine
  <1>6. ASSUME NEW v \in Managed, ServiceOver(v)' PROVE Settled(<<"service", v>>)'
    <2>1. CASE v = u
      <3>1. run'.report[t] = o
        BY <1>2, <2>1, Kinds
      <3>2. Smooth' => o # "failed" /\ service'[u] = {}
        <4>1. run.at # "idle" /\ run.start \in Nat
          BY <1>0 DEF RunType
        <4>2. Smooth' => Smooth /\ trouble' = trouble
          BY <1>2, <1>3, <4>1, TroublesAdd, SmoothBefore DEF AccountInv, Engine
        <4>3. Smooth => Unhurt
          BY DEF AccountInv, GoesWell
        <4>4. QED
          BY <1>4, <2>1, <4>2, <4>3
      <3>3. QED
        BY <1>4, <2>1, <3>1, <3>2, GoneThen DEF Settled
    <2>2. CASE v # u
      <3>1. ServiceOver(v)
        BY <1>0, <1>2, <1>6, <2>2 DEF ServiceOver, Finished, At
      <3>2. Settled(<<"service", v>>)
        BY <3>1 DEF AccountInv, Told
      <3>3. run'.report[<<"service", v>>] = run.report[<<"service", v>>]
        BY <1>2, <2>2, Kinds
      <3>4. QED
        BY <1>2, <1>3, <1>4, <3>2, <3>3, GoneOf, GoneThen, OthersSettled
    <2>3. QED
      BY <2>1, <2>2
  <1>7. Told'
    BY <1>2, <1>6 DEF Told, FileOver, DirOver, HelperOver, BinaryOver, Finished, At
  <1>8. ASSUME Smooth, Unhurt, trouble' = trouble
        PROVE  /\ ~ run'.misled
               /\ \A s \in Target : run'.report[s] # "failed"
               /\ run'.package => Binary \in host.packaged
    <2>1. run' = Report(t, o) /\ o # "failed" /\ run'.misled = run.misled
      BY <1>0, <1>4, <1>8, ReportIs
    <2>2. QED
      BY <1>2, <1>8, <2>1 DEF Unhurt
  <1>9. QED
    BY <1>2, <1>3, <1>5, <1>7, <1>8, EngineAccounts DEF Late

\* A step that only takes the engine on, or ends the run, says nothing new of a target.
LEMMA OnwardTold ==
  ASSUME TypeOK, AccountInv, Engine, Trouble \/ Fails \/ Works \/ UNCHANGED counts,
         run'.report = run.report, run.misled => run'.misled,
         UNCHANGED <<dirs, local>>,
         \A u \in Managed : ServiceOver(u)' => ServiceOver(u) \/ service[u] = {},
         \A u \in Unit \cup Legacy : FileOver(u)' => FileOver(u) \/ u \notin files,
         \A d \in DataDir : DirOver(d)' => DirOver(d),
         HelperOver' => HelperOver, BinaryOver' => BinaryOver
  PROVE  Told'
  <1>1. ASSUME NEW t, Settled(t) PROVE Settled(t)'
    <2>1. Gone(t) => Gone(t)'
      BY DEF Gone, local
    <2>2. QED
      BY <1>1, <2>1, OthersSettled
  <1>2. ASSUME NEW t, Gone(t) PROVE Settled(t)'
    <2>1. Settled(t)
      BY <1>2 DEF Settled
    <2>2. QED
      BY <1>1, <2>1
  <1>3. UNCHANGED back
    BY DEF Engine
  <1>4. \A u \in Managed : ServiceOver(u)' => Settled(<<"service", u>>)'
    BY <1>1, <1>2, GoneOf DEF AccountInv, Told
  <1>5. \A u \in Unit \cup Legacy : FileOver(u)' => Settled(<<"file", u>>)'
    BY <1>1, <1>2, GoneOf DEF AccountInv, Told
  <1>6. \A d \in DataDir :
          DirOver(d)' /\ <<"dir", d>> \notin back' => Settled(<<"dir", d>>)'
    BY <1>1, <1>3 DEF AccountInv, Told
  <1>7. /\ HelperOver' => Settled(<<"path", Helper>>)'
        /\ BinaryOver' /\ <<"path", Binary>> \notin back' => Settled(<<"path", Binary>>)'
    BY <1>1, <1>3 DEF AccountInv, Told
  <1>8. QED
    BY <1>4, <1>5, <1>6, <1>7 DEF Told

LEMMA PackageAccounts ==
  ASSUME TypeOK, TypeOK', AccountInv, Package
  PROVE  AccountInv'
  <1>1. PICK owned \in BOOLEAN :
          /\ Owned(Binary, owned)
          /\ run' = [run EXCEPT !.package = owned, !.at = "services", !.todo = Managed,
                               !.misled = owned # (Binary \in host.packaged)]
    BY DEF Package
  <1>2. /\ Engine /\ run'.at = "services" /\ run'.todo = Managed
        /\ run'.report = run.report
        /\ run'.package => owned
        /\ run'.misled => owned # (Binary \in host.packaged)
    BY <1>1 DEF Package, TypeOK, RunType, Engine, Late, At, registry, history
  <1>3. Trouble \/ Fails \/ Works \/ UNCHANGED counts
    BY <1>1 DEF Owned
  <1>4. Told'
    BY <1>2 DEF Told, ServiceOver, FileOver, DirOver, HelperOver, BinaryOver, Finished, At
  <1>5. Quiet'
    BY QuietStays DEF AccountInv, Package, local
  <1>6. Unhurt /\ trouble' = trouble => owned = (Binary \in host.packaged)
    BY <1>1, <1>3, TroublesAdd DEF Unhurt, Owned
  <1>7. QED
    BY <1>2, <1>3, <1>4, <1>5, <1>6, EngineAccounts DEF Late, Unhurt

LEMMA DoneAccounts ==
  ASSUME TypeOK, TypeOK', AccountInv, ServicesDone \/ DataDone
  PROVE  AccountInv'
  <1>0. run \in RunType /\ run' \in RunType
    BY DEF TypeOK
  <1>1. /\ Engine /\ run'.report = run.report /\ run'.misled = run.misled
        /\ run'.package = run.package
        /\ UNCHANGED counts /\ UNCHANGED <<dirs, local>>
        /\ run'.at \in {"files", "helper"}
    BY <1>0 DEF ServicesDone, DataDone, Goto, RunType, Engine, Late, At, registry, history,
           counts
  <1>2. Told'
    <2>1. CASE ServicesDone
      <3>1. /\ run.at = "services"
            /\ ~ host.systemd \/ run.todo = {}
            /\ run'.at = "files" /\ run'.todo = Unit \cup {u \in Legacy : u \in files}
        BY <2>1 DEF ServicesDone, At, TypeOK, RunType
      <3>2. \A u \in Managed : ServiceOver(u) \/ service[u] = {}
        BY <3>1 DEF ServiceOver, AccountInv, Quiet
      <3>3. \A u \in Unit \cup Legacy : FileOver(u)' => u \notin files
        BY <3>1 DEF FileOver, Finished, At
      <3>4. /\ \A d \in DataDir : ~ DirOver(d)'
            /\ ~ HelperOver' /\ ~ BinaryOver'
        BY <3>1 DEF DirOver, HelperOver, BinaryOver, Finished, At
      <3>5. QED
        BY <1>1, <3>2, <3>3, <3>4, OnwardTold
    <2>2. CASE DataDone
      <3>1. run.at = "data" /\ run.todo = {} /\ run'.at = "helper"
        BY <2>2 DEF DataDone, Goto, At, TypeOK, RunType
      <3>2. /\ \A u \in Managed : ServiceOver(u)
            /\ \A u \in Unit \cup Legacy : FileOver(u)
            /\ \A d \in DataDir : DirOver(d)
            /\ ~ HelperOver' /\ ~ BinaryOver'
        BY <3>1 DEF ServiceOver, FileOver, DirOver, HelperOver, BinaryOver, Finished, At
      <3>3. QED
        BY <1>1, <3>2, OnwardTold
    <2>3. QED
      BY <2>1, <2>2
  <1>3. Quiet'
    BY <1>1, QuietStays DEF AccountInv, Engine, local
  <1>4. QED
    BY <1>1, <1>2, <1>3, EngineAccounts DEF Late, Unhurt

\* The end: the report is what it was, and every turn is over already.
LEMMA FinishAccounts ==
  ASSUME TypeOK, TypeOK', AccountInv, Finish
  PROVE  AccountInv'
  <1>1. run.at = "report" /\ run \in RunType /\ run' \in RunType
    BY DEF Finish, At, TypeOK
  <1>2. End("printed") \/ (Failed /\ End("error")) \/ (~ Failed /\ End("ok"))
    BY DEF Finish
  <1>3. /\ Engine /\ run'.report = run.report /\ run'.misled = run.misled
        /\ run'.package = run.package
        /\ UNCHANGED counts /\ UNCHANGED <<dirs, local>>
        /\ run'.at = "ended" /\ run'.exit \in {"ok", "printed", "error"}
        /\ run'.exit = "error" => Failed
        /\ run'.exit = "ok" => ~ Failed
    BY <1>1, <1>2 DEF Finish, End, RunType, Engine, Late, registry, history
  <1>4. Told'
    <2>1. /\ \A u \in Managed : ServiceOver(u)
          /\ \A u \in Unit \cup Legacy : FileOver(u)
          /\ \A d \in DataDir : DirOver(d)
          /\ HelperOver /\ BinaryOver
      BY <1>1 DEF ServiceOver, FileOver, DirOver, HelperOver, BinaryOver
    <2>2. QED
      BY <1>3, <2>1, OnwardTold
  <1>5. Quiet'
    BY <1>3, QuietStays DEF AccountInv, Engine, local
  <1>6. QED
    BY <1>3, <1>4, <1>5, EngineAccounts DEF Late, Unhurt

\* The three ways to ask dpkg: it answers, it fails, or the run is cancelled.
LEMMA OwnedIs ==
  ASSUME TypeOK, NEW name, NEW owned \in BOOLEAN, Owned(name, owned)
  PROVE  /\ Trouble \/ Fails \/ Works \/ UNCHANGED counts
         /\ Unhurt /\ trouble' = trouble => (owned <=> name \in host.packaged)
  <1>1. Trouble \/ Fails \/ Works \/ UNCHANGED counts
    BY DEF Owned
  <1>2. Unhurt /\ trouble' = trouble => (owned <=> name \in host.packaged)
    BY <1>1, TroublesAdd DEF Unhurt, Owned
  <1>3. QED
    BY <1>1, <1>2

\* A phase over unit files: one of them is reported, the others stay as they were.
LEMMA FileAccounts ==
  ASSUME TypeOK, TypeOK', AccountInv, NEW u \in Unit \cup Legacy, UnitFile(u) \/ UnitFileFails(u)
  PROVE  AccountInv'
  <1> DEFINE t == <<"file", u>>
  <1>0. run \in RunType /\ run' \in RunType /\ run.at = "files" /\ u \in run.todo
        /\ t[2] = u
    BY DEF TypeOK, UnitFile, UnitFileFails, Turn, At
  <1>1. PICK o \in Outcome :
          /\ \A s \in Target : run'.report[s] = IF s = t THEN o ELSE run.report[s]
          /\ run'.todo = run.todo \ {u} /\ run'.at = "files"
          /\ run.misled => run'.misled
          /\ run'.package = run.package
          /\ Engine
          /\ UNCHANGED <<dirs, service, helper, binary>>
          /\ files' \in {files, files \ {u}}
          /\ Trouble \/ Fails \/ Works \/ UNCHANGED counts
          /\ o = "failed" \/ o = "deferred" \/ u \notin files'
          /\ Unhurt /\ trouble' = trouble =>
               /\ o # "failed" /\ ~ run'.misled
               /\ (u \in host.packaged /\ o = "deferred") \/ u \notin files'
    <2>1. CASE UnitFile(u)
      <3>1. PICK owned \in BOOLEAN :
              /\ Owned(u, owned)
              /\ run' = [Report(t, IF owned THEN "deferred" ELSE Fate(u \in files)) EXCEPT
                           !.stripped = run.stripped \/ (~ owned /\ u \in files),
                           !.misled = run.misled \/ owned # (u \in host.packaged)]
              /\ files' = IF owned THEN files ELSE files \ {u}
        BY <2>1 DEF UnitFile
      <3> DEFINE o == IF owned THEN "deferred" ELSE Fate(u \in files)
                 m == run.misled \/ owned # (u \in host.packaged)
      <3>2. o \in Outcome /\ o # "failed" /\ (owned => o = "deferred")
        BY DEF Fate, Outcome
      <3> HIDE DEF o
      <3>3. Report(t, o) \in RunType
        BY <1>0, <3>2, Reported
      <3>4. run' = [Report(t, o) EXCEPT
                           !.stripped = run.stripped \/ (~ owned /\ u \in files), !.misled = m]
        BY <3>1 DEF o
      <3>14. /\ run.misled => m
             /\ ~ run.misled /\ (owned <=> u \in host.packaged) => ~ m
        OBVIOUS
      <3> HIDE DEF m
      <3>5. /\ run'.todo = Report(t, o).todo /\ run'.at = Report(t, o).at
            /\ run'.package = Report(t, o).package /\ run'.report = Report(t, o).report
            /\ run'.start = Report(t, o).start /\ run'.keepGitHub = Report(t, o).keepGitHub
            /\ run'.keepData = Report(t, o).keepData /\ run'.repos = Report(t, o).repos
            /\ run'.failed = Report(t, o).failed /\ run'.cancelled = Report(t, o).cancelled
            /\ run'.misled = m
        BY <3>3, <3>4 DEF RunType
      <3>6. /\ Trouble \/ Fails \/ Works \/ UNCHANGED counts
            /\ Unhurt /\ trouble' = trouble => (owned <=> u \in host.packaged)
        BY <3>1, OwnedIs
      <3>7. /\ Report(t, o).todo = run.todo \ {u}
            /\ Report(t, o).at = run.at /\ Report(t, o).start = run.start
            /\ Report(t, o).keepGitHub = run.keepGitHub /\ Report(t, o).keepData = run.keepData
            /\ Report(t, o).repos = run.repos /\ Report(t, o).failed = run.failed
            /\ Report(t, o).cancelled = run.cancelled /\ Report(t, o).package = run.package
            /\ \A s \in Target : Report(t, o).report[s] = IF s = t THEN o ELSE run.report[s]
        BY <1>0, ReportIs
      <3>8. /\ run.misled => run'.misled
            /\ Unhurt /\ trouble' = trouble => ~ run'.misled
        BY <3>5, <3>6, <3>14 DEF Unhurt
      <3>9. UNCHANGED <<github, host, back, dirs, service, helper, binary>>
        BY <2>1 DEF UnitFile, registry, history
      <3>10. Engine
        BY <1>0, <3>5, <3>7, <3>9 DEF Engine, Late
      <3>11. /\ files' \in {files, files \ {u}}
             /\ owned \/ u \notin files'
        BY <3>1
      <3>12. \A s \in Target : run'.report[s] = IF s = t THEN o ELSE run.report[s]
        BY <3>5, <3>7
      <3>13. QED
        BY <3>12, <1>0, <3>2, <3>5, <3>6, <3>7, <3>8, <3>9, <3>10, <3>11
    <2>2. CASE UnitFileFails(u)
      <3>1. /\ run' = Report(t, "failed") /\ Trouble
            /\ UNCHANGED <<github, host, back, dirs, service, helper, binary, files>>
        BY <2>2 DEF UnitFileFails, registry, local, history
      <3>2. \E o \in Outcome : o = "failed"
        BY DEF Outcome
      <3>3. PICK o \in Outcome : o = "failed"
        BY <3>2
      <3>4. /\ Report(t, o).todo = run.todo \ {u}
            /\ Report(t, o).at = run.at /\ Report(t, o).start = run.start
            /\ Report(t, o).keepGitHub = run.keepGitHub /\ Report(t, o).keepData = run.keepData
            /\ Report(t, o).repos = run.repos /\ Report(t, o).failed = run.failed
            /\ Report(t, o).cancelled = run.cancelled /\ Report(t, o).package = run.package
            /\ Report(t, o).misled = run.misled
            /\ \A s \in Target : Report(t, o).report[s] = IF s = t THEN o ELSE run.report[s]
        BY <1>0, ReportIs
      <3>5. run' = Report(t, o)
        BY <3>1, <3>3
      <3>6. Engine
        BY <1>0, <3>1, <3>4, <3>5 DEF Engine, Late
      <3>7. Trouble /\ trouble' # trouble
        BY <3>1, TroublesAdd
      <3>8. WITNESS o \in Outcome
      <3>9. QED
        BY <1>0, <3>1, <3>3, <3>4, <3>5, <3>6, <3>7
    <2>3. QED
      BY <2>1, <2>2
  <1>2. ASSUME NEW s, Settled(s), Gone(s) => Gone(s)', run'.report[s] = run.report[s]
        PROVE  Settled(s)'
    BY <1>1, <1>2, OthersSettled
  <1>3. Quiet'
    BY <1>1, QuietStays DEF AccountInv, Engine
  <1>4. ASSUME NEW v \in Unit \cup Legacy, FileOver(v)' PROVE Settled(<<"file", v>>)'
    <2>1. CASE v = u
      <3>1. run'.report[t] = o
        BY <1>1, <2>1, Kinds
      <3>2. Smooth' => (u \in host'.packaged /\ o = "deferred") \/ u \notin files'
        <4>1. run.at # "idle" /\ run.start \in Nat
          BY <1>0 DEF RunType
        <4>2. Smooth' => Smooth /\ trouble' = trouble
          BY <1>1, <4>1, TroublesAdd, SmoothBefore DEF AccountInv, Engine
        <4>3. Smooth => Unhurt
          BY DEF AccountInv, GoesWell
        <4>4. QED
          BY <1>1, <4>2, <4>3 DEF Engine
      <3>3. QED
        BY <1>0, <1>1, <2>1, <3>1, <3>2, GoneThen DEF Settled
    <2>2. CASE v # u
      <3>1. FileOver(v)
        BY <1>0, <1>1, <1>4, <2>2 DEF FileOver, Finished, At
      <3>2. Settled(<<"file", v>>)
        BY <3>1 DEF AccountInv, Told
      <3>3. run'.report[<<"file", v>>] = run.report[<<"file", v>>]
        BY <1>1, <2>2, Kinds
      <3>4. v \notin files => v \notin files'
        BY <1>1
      <3>5. QED
        BY <1>2, <3>2, <3>3, <3>4, GoneOf, GoneThen
    <2>3. QED
      BY <2>1, <2>2
  <1>5. ASSUME NEW v \in Managed PROVE Settled(<<"service", v>>)'
    <2>1. Settled(<<"service", v>>)
      BY <1>0 DEF AccountInv, Told, ServiceOver
    <2>2. run'.report[<<"service", v>>] = run.report[<<"service", v>>]
      BY <1>1, Kinds
    <2>3. service' = service
      BY <1>1
    <2>4. QED
      BY <1>2, <2>1, <2>2, <2>3, GoneOf, GoneThen
  <1>6. Told'
    BY <1>1, <1>4, <1>5 DEF Told, DirOver, HelperOver, BinaryOver, Finished, At
  <1>7. QED
    BY <1>1, <1>3, <1>6, EngineAccounts DEF Late, Unhurt

LEMMA ReloadAccounts ==
  ASSUME TypeOK, TypeOK', AccountInv, Reload
  PROVE  AccountInv'
  <1> DEFINE t == <<"reload", "systemd">>
  <1>0. run \in RunType /\ run' \in RunType /\ run.at = "files" /\ run.todo = {}
    BY DEF TypeOK, Reload, At
  <1>1. /\ Trouble \/ Fails \/ Works \/ UNCHANGED counts
        /\ UNCHANGED <<github, host, back, dirs, local>>
        /\ run'.report # run.report => Fails
    BY <1>0 DEF Reload, registry, history, RunType
  <1>2. /\ \A s \in Target \ {t} : run'.report[s] = run.report[s]
        /\ run'.at = "data" /\ run'.todo = DataDir
        /\ run'.misled = run.misled /\ run'.package = run.package
        /\ Engine
    <2> DEFINE next == [run EXCEPT !.at = "data", !.todo = DataDir]
    <2>1. run' = next \/ run' = [next EXCEPT !.report[t] = "failed"]
      BY DEF Reload
    <2>2. /\ next.report = run.report /\ next.at = "data" /\ next.todo = DataDir
          /\ next.misled = run.misled /\ next.package = run.package
          /\ next.start = run.start /\ next.keepGitHub = run.keepGitHub
          /\ next.keepData = run.keepData /\ next.repos = run.repos
          /\ next.failed = run.failed /\ next.cancelled = run.cancelled
          /\ next \in RunType
      BY <1>0 DEF RunType, Step
    <2> HIDE DEF next, t
    <2>3. /\ \A s \in Target \ {t} : run'.report[s] = next.report[s]
          /\ run'.at = next.at /\ run'.todo = next.todo
          /\ run'.misled = next.misled /\ run'.package = next.package
          /\ run'.start = next.start /\ run'.keepGitHub = next.keepGitHub
          /\ run'.keepData = next.keepData /\ run'.repos = next.repos
          /\ run'.failed = next.failed /\ run'.cancelled = next.cancelled
      BY <2>1, <2>2 DEF RunType
    <2>4. QED
      BY <1>0, <1>1, <2>2, <2>3 DEF Engine, Late
  <1>3. ASSUME NEW s \in Target \ {t}, Settled(s) PROVE Settled(s)'
    <2>1. Gone(s) => Gone(s)'
      BY <1>1 DEF Gone, local
    <2>2. QED
      BY <1>1, <1>2, <1>3, <2>1, OthersSettled
  <1>4. Quiet'
    BY <1>1, QuietStays DEF AccountInv, local
  <1>5. ASSUME NEW u \in Managed PROVE Settled(<<"service", u>>)'
    <2>1. Settled(<<"service", u>>)
      BY <1>0 DEF AccountInv, Told, ServiceOver
    <2>2. QED
      BY <1>3, <2>1, Kinds
  <1>6. ASSUME NEW u \in Unit \cup Legacy PROVE Settled(<<"file", u>>)'
    <2>1. Settled(<<"file", u>>)
      BY <1>0 DEF AccountInv, Told, FileOver
    <2>2. QED
      BY <1>3, <2>1, Kinds
  <1>7. Told'
    BY <1>2, <1>5, <1>6 DEF Told, DirOver, HelperOver, BinaryOver, Finished, At
  <1>8. ASSUME Unhurt, trouble' = trouble
        PROVE  /\ ~ run'.misled
               /\ \A s \in Target : run'.report[s] # "failed"
               /\ run'.package => Binary \in host.packaged
    <2>1. run'.report = run.report
      BY <1>1, <1>8, TroublesAdd DEF Unhurt
    <2>2. QED
      BY <1>2, <1>8, <2>1 DEF Unhurt
  <1>9. QED
    BY <1>1, <1>2, <1>4, <1>7, <1>8, EngineAccounts DEF Late

LEMMA DataAccounts ==
  ASSUME TypeOK, TypeOK', AccountInv, NEW d \in DataDir, Data(d) \/ DataFails(d)
  PROVE  AccountInv'
  <1> DEFINE t == <<"dir", d>>
  <1>0. run \in RunType /\ run' \in RunType /\ run.at = "data" /\ d \in run.todo
        /\ t[2] = d
    BY DEF TypeOK, Data, DataFails, Turn, At
  <1>1. PICK o \in Outcome :
          /\ run' = Report(t, o)
          /\ dirs' \in {dirs, dirs \ {d}}
          /\ \/ o = "kept" /\ run.keepData /\ UNCHANGED counts
             \/ o \notin {"kept", "failed"} /\ d \notin dirs' /\ UNCHANGED counts
             \/ o = "failed" /\ Trouble
    BY DEF Data, DataFails, Outcome, Fate, counts
  <1>2. UNCHANGED <<github, host, back, local>>
    BY DEF Data, DataFails, registry, history
  <1>3. /\ run'.todo = run.todo \ {d} /\ run'.at = "data"
        /\ run'.misled = run.misled /\ run'.package = run.package
        /\ \A s \in Target : run'.report[s] = IF s = t THEN o ELSE run.report[s]
        /\ Engine
    <2>1. /\ Report(t, o).todo = run.todo \ {d}
          /\ Report(t, o).at = run.at /\ Report(t, o).start = run.start
          /\ Report(t, o).keepGitHub = run.keepGitHub /\ Report(t, o).keepData = run.keepData
          /\ Report(t, o).repos = run.repos /\ Report(t, o).failed = run.failed
          /\ Report(t, o).cancelled = run.cancelled /\ Report(t, o).package = run.package
          /\ Report(t, o).misled = run.misled
          /\ \A s \in Target : Report(t, o).report[s] = IF s = t THEN o ELSE run.report[s]
      BY <1>0, ReportIs
    <2> HIDE DEF t
    <2>2. QED
      BY <1>0, <1>1, <1>2, <2>1 DEF Engine, Late
  <1>4. /\ Trouble \/ Fails \/ Works \/ UNCHANGED counts
        /\ trouble' = trouble => o # "failed"
    <2>1. Trouble \/ UNCHANGED counts
      BY <1>1
    <2>2. Trouble => trouble' # trouble
      BY TroublesAdd
    <2>3. QED
      BY <1>1, <2>1, <2>2
  <1>5. Quiet'
    BY <1>2, QuietStays DEF AccountInv, local
  <1>6. ASSUME NEW e \in DataDir, DirOver(e)', <<"dir", e>> \notin back'
        PROVE  Settled(<<"dir", e>>)'
    <2>1. CASE e = d
      <3>1. run'.report[t] = o /\ run'.keepData = run.keepData
        BY <1>3, <2>1, Kinds DEF Engine
      <3>2. Smooth' => o # "failed"
        <4>1. run.at # "idle" /\ run.start \in Nat
          BY <1>0 DEF RunType
        <4>2. QED
          BY <1>3, <1>4, <4>1, TroublesAdd, SmoothBefore DEF AccountInv, Engine
      <3>3. QED
        BY <1>1, <2>1, <3>1, <3>2, GoneThen DEF Settled
    <2>2. CASE e # d
      <3>1. DirOver(e) /\ <<"dir", e>> \notin back
        BY <1>0, <1>2, <1>3, <1>6, <2>2 DEF DirOver, Finished, At
      <3>2. Settled(<<"dir", e>>)
        BY <3>1 DEF AccountInv, Told
      <3>3. run'.report[<<"dir", e>>] = run.report[<<"dir", e>>]
        BY <1>3, <2>2, Kinds
      <3>4. e \notin dirs => e \notin dirs'
        BY <1>1
      <3>5. QED
        BY <1>3, <1>4, <3>2, <3>3, <3>4, GoneOf, GoneThen, OthersSettled
    <2>3. QED
      BY <2>1, <2>2
  <1>7. ASSUME NEW u \in Managed PROVE Settled(<<"service", u>>)'
    <2>1. Settled(<<"service", u>>)
      BY <1>0 DEF AccountInv, Told, ServiceOver
    <2>2. run'.report[<<"service", u>>] = run.report[<<"service", u>>]
      BY <1>3, Kinds
    <2>3. service' = service
      BY <1>2 DEF local
    <2>4. QED
      BY <1>3, <1>4, <2>1, <2>2, <2>3, GoneOf, GoneThen, OthersSettled
  <1>8. ASSUME NEW u \in Unit \cup Legacy PROVE Settled(<<"file", u>>)'
    <2>1. Settled(<<"file", u>>)
      BY <1>0 DEF AccountInv, Told, FileOver
    <2>2. run'.report[<<"file", u>>] = run.report[<<"file", u>>]
      BY <1>3, Kinds
    <2>3. files' = files
      BY <1>2 DEF local
    <2>4. QED
      BY <1>3, <1>4, <2>1, <2>2, <2>3, GoneOf, GoneThen, OthersSettled
  <1>9. Told'
    BY <1>3, <1>6, <1>7, <1>8 DEF Told, HelperOver, BinaryOver, Finished, At
  <1>10. QED
    BY <1>3, <1>4, <1>5, <1>9, EngineAccounts DEF Late, Unhurt

\* The run goes on from one of the two paths to the next step, and says o of it.
Says(at, t, o) == [run EXCEPT !.at = at, !.report[t] = o]

LEMMA SaysOf ==
  ASSUME run \in RunType, NEW at \in Step, NEW t, NEW o \in Outcome,
         run' = Says(at, t, o)
  PROVE  /\ run' \in RunType /\ run'.at = at /\ run'.start = run.start
         /\ run'.keepGitHub = run.keepGitHub /\ run'.keepData = run.keepData
         /\ run'.repos = run.repos /\ run'.failed = run.failed
         /\ run'.cancelled = run.cancelled /\ run'.package = run.package
         /\ run'.misled = run.misled
         /\ \A s \in Target : run'.report[s] = IF s = t THEN o ELSE run.report[s]
  <1>1. [run.report EXCEPT ![t] = o] \in [Target -> Outcome]
    BY DEF RunType
  <1>2. QED
    BY <1>1 DEF RunType, Says

\* A step at one of the two paths leaves what was settled before the paths.
LEMMA RestSettled ==
  ASSUME TypeOK, AccountInv, Engine, Trouble \/ Fails \/ Works \/ UNCHANGED counts,
         run.misled => run'.misled, run.at \in {"helper", "binary"},
         UNCHANGED <<dirs, service, files>>,
         \A s \in Target : s[1] # "path" => run'.report[s] = run.report[s]
  PROVE  /\ \A u \in Managed : Settled(<<"service", u>>)'
         /\ \A u \in Unit \cup Legacy : Settled(<<"file", u>>)'
         /\ \A d \in DataDir : <<"dir", d>> \notin back' => Settled(<<"dir", d>>)'
  <1>1. ASSUME NEW u \in Managed PROVE Settled(<<"service", u>>)'
    <2>1. Settled(<<"service", u>>)
      BY DEF AccountInv, Told, ServiceOver
    <2>2. run'.report[<<"service", u>>] = run.report[<<"service", u>>]
      BY Kinds
    <2>3. QED
      BY <2>1, <2>2, GoneOf, GoneThen, OthersSettled
  <1>2. ASSUME NEW u \in Unit \cup Legacy PROVE Settled(<<"file", u>>)'
    <2>1. Settled(<<"file", u>>)
      BY DEF AccountInv, Told, FileOver
    <2>2. run'.report[<<"file", u>>] = run.report[<<"file", u>>]
      BY Kinds
    <2>3. QED
      BY <2>1, <2>2, GoneOf, GoneThen, OthersSettled
  <1>3. ASSUME NEW d \in DataDir, <<"dir", d>> \notin back' PROVE Settled(<<"dir", d>>)'
    <2>1. Settled(<<"dir", d>>)
      BY <1>3 DEF AccountInv, Told, DirOver, Engine
    <2>2. run'.report[<<"dir", d>>] = run.report[<<"dir", d>>]
      BY Kinds
    <2>3. QED
      BY <2>1, <2>2, GoneOf, GoneThen, OthersSettled
  <1>4. QED
    BY <1>1, <1>2, <1>3

LEMMA HelperAccounts ==
  ASSUME TypeOK, TypeOK', AccountInv, HelperDir
  PROVE  AccountInv'
  <1> DEFINE t == <<"path", Helper>>
  <1>0. run \in RunType /\ run.at = "helper" /\ "binary" \in Step
    BY DEF TypeOK, HelperDir, At, Step
  <1>1. PICK o \in Outcome :
          /\ run' = [run EXCEPT !.at = "binary", !.report[t] = o]
          /\ \/ o # "failed" /\ helper' = FALSE /\ UNCHANGED counts
             \/ o = "failed" /\ Trouble
    BY DEF HelperDir, Outcome
  <1>2. UNCHANGED <<github, host, back, dirs, service, files>>
    BY DEF HelperDir, registry, history
  <1>3. /\ run'.at = "binary" /\ run'.misled = run.misled /\ run'.package = run.package
        /\ \A s \in Target : run'.report[s] = IF s = t THEN o ELSE run.report[s]
        /\ Engine
    <2> HIDE DEF t
    <2>1. run' = Says("binary", t, o)
      BY <1>1 DEF Says
    <2>2. /\ run' \in RunType /\ run'.at = "binary" /\ run'.start = run.start
          /\ run'.keepGitHub = run.keepGitHub /\ run'.keepData = run.keepData
          /\ run'.repos = run.repos /\ run'.failed = run.failed
          /\ run'.cancelled = run.cancelled /\ run'.package = run.package
          /\ run'.misled = run.misled
          /\ \A s \in Target : run'.report[s] = IF s = t THEN o ELSE run.report[s]
      BY <1>0, <2>1, SaysOf
    <2>3. QED
      <3>1. Engine
        BY <1>0, <1>2, <2>2 DEF Engine, Late
      <3>2. QED
        BY <2>2, <3>1
  <1>4. /\ Trouble \/ Fails \/ Works \/ UNCHANGED counts
        /\ trouble' = trouble => o # "failed"
    <2>1. Trouble \/ UNCHANGED counts
      BY <1>1
    <2>2. Trouble => trouble' # trouble
      BY TroublesAdd
    <2>3. QED
      BY <1>1, <2>1, <2>2
  <1>5. Quiet'
    BY <1>2, QuietStays DEF AccountInv
  <1>6. Settled(t)'
    <2>1. run'.report[t] = o
      BY <1>3, Kinds
    <2>2. Smooth' => o # "failed"
      <3>1. run.at # "idle" /\ run.start \in Nat
        BY <1>0 DEF RunType
      <3>2. QED
        BY <1>3, <1>4, <3>1, TroublesAdd, SmoothBefore DEF AccountInv, Engine
    <2>3. o # "failed" => ~ helper'
      BY <1>1
    <2>4. QED
      BY <2>1, <2>2, <2>3, GoneThen DEF Settled
  <1>7. Told'
    <2>1. \A s \in Target : s[1] # "path" => run'.report[s] = run.report[s]
      BY <1>3
    <2>2. QED
      BY <1>0, <1>2, <1>3, <1>4, <1>6, <2>1, RestSettled DEF Told, BinaryOver, Finished, At
  <1>8. QED
    BY <1>3, <1>4, <1>5, <1>7, EngineAccounts DEF Late, Unhurt

LEMMA BinaryAccounts ==
  ASSUME TypeOK, TypeOK', AccountInv, BinaryFile
  PROVE  AccountInv'
  <1> DEFINE t == <<"path", Binary>>
  <1>0. run \in RunType /\ run.at = "binary" /\ "report" \in Step /\ t[2] = Binary
    BY DEF TypeOK, BinaryFile, At, Step
  <1>1. PICK o \in Outcome :
          /\ run' = [run EXCEPT !.at = "report", !.report[t] = o]
          /\ \/ o = "deferred" /\ run.package /\ UNCHANGED counts
             \/ o # "failed" /\ binary' = FALSE /\ UNCHANGED counts
             \/ o = "failed" /\ Trouble
    BY DEF BinaryFile, Outcome, Fate
  <1>2. UNCHANGED <<github, host, back, dirs, service, files, helper>>
    BY DEF BinaryFile, registry, history
  <1>3. /\ run'.at = "report" /\ run'.misled = run.misled /\ run'.package = run.package
        /\ \A s \in Target : run'.report[s] = IF s = t THEN o ELSE run.report[s]
        /\ Engine
    <2> HIDE DEF t
    <2>1. run' = Says("report", t, o)
      BY <1>1 DEF Says
    <2>2. /\ run' \in RunType /\ run'.at = "report" /\ run'.start = run.start
          /\ run'.keepGitHub = run.keepGitHub /\ run'.keepData = run.keepData
          /\ run'.repos = run.repos /\ run'.failed = run.failed
          /\ run'.cancelled = run.cancelled /\ run'.package = run.package
          /\ run'.misled = run.misled
          /\ \A s \in Target : run'.report[s] = IF s = t THEN o ELSE run.report[s]
      BY <1>0, <2>1, SaysOf
    <2>3. QED
      <3>1. Engine
        BY <1>0, <1>2, <2>2 DEF Engine, Late
      <3>2. QED
        BY <2>2, <3>1
  <1>4. /\ Trouble \/ Fails \/ Works \/ UNCHANGED counts
        /\ trouble' = trouble => o # "failed"
    <2>1. Trouble \/ UNCHANGED counts
      BY <1>1
    <2>2. Trouble => trouble' # trouble
      BY TroublesAdd
    <2>3. QED
      BY <1>1, <2>1, <2>2
  <1>5. Quiet'
    BY <1>2, QuietStays DEF AccountInv
  <1>6. Settled(t)'
    <2>1. run'.report[t] = o
      BY <1>3, Kinds
    <2>2. Smooth' => o # "failed" /\ (run.package => Binary \in host'.packaged)
      <3>1. run.at # "idle" /\ run.start \in Nat
        BY <1>0 DEF RunType
      <3>2. Smooth' => Smooth /\ trouble' = trouble
        BY <1>3, <1>4, <3>1, TroublesAdd, SmoothBefore DEF AccountInv, Engine
      <3>3. QED
        BY <1>2, <1>4, <3>2 DEF AccountInv, GoesWell, Unhurt
    <2>3. QED
      BY <1>0, <1>1, <2>1, <2>2, GoneThen DEF Settled
  <1>7. Settled(<<"path", Helper>>)'
    <2>1. Settled(<<"path", Helper>>)
      BY <1>0 DEF AccountInv, Told, HelperOver
    <2>2. run'.report[<<"path", Helper>>] = run.report[<<"path", Helper>>]
      BY <1>3, Kinds DEF Helper, Binary
    <2>3. QED
      BY <1>2, <1>3, <1>4, <2>1, <2>2, GoneOf, GoneThen, OthersSettled
  <1>8. Told'
    <2>1. \A s \in Target : s[1] # "path" => run'.report[s] = run.report[s]
      BY <1>3
    <2>2. QED
      BY <1>0, <1>2, <1>3, <1>4, <1>6, <1>7, <2>1, RestSettled DEF Told
  <1>9. QED
    BY <1>3, <1>4, <1>5, <1>8, EngineAccounts DEF Late, Unhurt
\* What else happens on the server leaves settled what it does not put back.
LEMMA ElsewhereTold ==
  ASSUME Told, Smooth' => Smooth, UNCHANGED <<service, files, helper, host>>,
         run'.at = run.at, run'.exit = run.exit, run'.todo = run.todo,
         run'.report = run.report, run'.keepData = run.keepData, run'.misled = run.misled,
         back \subseteq back',
         \A d \in DataDir : d \in dirs' => d \in dirs \/ <<"dir", d>> \in back',
         binary' => binary \/ <<"path", Binary>> \in back'
  PROVE  Told'
  <1>1. ASSUME NEW t, Settled(t), Gone(t) => Gone(t)' PROVE Settled(t)'
    BY <1>1, SettledStays
  <1>2. ASSUME NEW u \in Managed, ServiceOver(u)' PROVE Settled(<<"service", u>>)'
    <2>1. Settled(<<"service", u>>)
      BY <1>2 DEF Told, ServiceOver, Finished, At
    <2>2. QED
      BY <1>1, <2>1, GoneOf, GoneThen
  <1>3. ASSUME NEW u \in Unit \cup Legacy, FileOver(u)' PROVE Settled(<<"file", u>>)'
    <2>1. Settled(<<"file", u>>)
      BY <1>3 DEF Told, FileOver, Finished, At
    <2>2. QED
      BY <1>1, <2>1, GoneOf, GoneThen
  <1>4. ASSUME NEW d \in DataDir, DirOver(d)', <<"dir", d>> \notin back'
        PROVE  Settled(<<"dir", d>>)'
    <2>1. Settled(<<"dir", d>>)
      BY <1>4 DEF Told, DirOver, Finished, At
    <2>2. QED
      BY <1>1, <1>4, <2>1, GoneOf, GoneThen
  <1>5. HelperOver' => Settled(<<"path", Helper>>)'
    <2>1. HelperOver' => Settled(<<"path", Helper>>)
      BY DEF Told, HelperOver, Finished, At
    <2>2. QED
      BY <1>1, <2>1, GoneOf, GoneThen
  <1>6. BinaryOver' /\ <<"path", Binary>> \notin back' => Settled(<<"path", Binary>>)'
    <2>1. BinaryOver' /\ <<"path", Binary>> \notin back' => Settled(<<"path", Binary>>)
      BY DEF Told, BinaryOver, Finished, At
    <2>2. QED
      BY <1>1, <2>1, GoneOf, GoneThen
  <1>7. QED
    BY <1>2, <1>3, <1>4, <1>5, <1>6 DEF Told

\* A trouble ends the smoothness of the run it meets.
LEMMA TroubleMet ==
  ASSUME TypeOK, Begun, Trouble, run'.at = run.at, run'.start = run.start
  PROVE  ~ Smooth' /\ Begun'
  <1>1. /\ trouble \in Nat /\ trouble' = trouble + 1
        /\ run.start \in Nat
    BY TroublesAdd DEF TypeOK, RunType
  <1>2. QED
    BY <1>1 DEF Begun, Smooth

LEMMA CancelAccounts ==
  ASSUME TypeOK, AccountInv, Cancel
  PROVE  AccountInv'
  <1>1. /\ run'.at = run.at /\ run'.exit = run.exit /\ run'.todo = run.todo
        /\ run'.report = run.report /\ run'.keepData = run.keepData
        /\ run'.misled = run.misled /\ run'.start = run.start /\ run'.failed = run.failed
    BY DEF Cancel, TypeOK, RunType
  <1>2. Trouble /\ UNCHANGED <<dirs, service, files, helper, binary, host, back>>
    BY DEF Cancel, local, history
  <1>3. ~ Smooth' /\ Begun'
    BY <1>1, <1>2, TroubleMet DEF AccountInv
  <1>4. Told' /\ Quiet'
    BY <1>1, <1>2, <1>3, ElsewhereTold, QuietStays DEF AccountInv
  <1>5. Honest'
    BY <1>1 DEF AccountInv, Honest, Failed
  <1>6. QED
    BY <1>3, <1>4, <1>5 DEF AccountInv, GoesWell

LEMMA KillAccounts ==
  ASSUME AccountInv, Kill
  PROVE  AccountInv'
  <1>1. run'.at = "idle" /\ UNCHANGED <<service, host>>
    BY DEF Kill, NoRun, local
  <1>2. Told' /\ Quiet'
    BY <1>1, EarlyTold, QuietStays DEF AccountInv
  <1>3. Begun' /\ GoesWell' /\ Honest'
    BY <1>1 DEF Begun, GoesWell, Smooth, Honest
  <1>4. QED
    BY <1>2, <1>3 DEF AccountInv

LEMMA RegisterAccounts ==
  ASSUME TypeOK, AccountInv, NEW r \in Repo, Register(r)
  PROVE  AccountInv'
  <1>1. /\ UNCHANGED run /\ Trouble
        /\ UNCHANGED <<service, files, helper, binary, host>>
        /\ dirs' = dirs \cup {"state"} /\ back' = back \cup {<<"dir", "state">>}
    BY DEF Register, local
  <1>2. ~ Smooth' /\ Begun'
    BY <1>1, TroubleMet DEF AccountInv
  <1>3. Told' /\ Quiet'
    BY <1>1, <1>2, ElsewhereTold, QuietStays DEF AccountInv
  <1>4. Honest'
    BY <1>1 DEF AccountInv, Honest, Failed
  <1>5. QED
    BY <1>2, <1>3, <1>4 DEF AccountInv, GoesWell

LEMMA PutBackAccounts ==
  ASSUME TypeOK, AccountInv, PutBack
  PROVE  AccountInv'
  <1>1. /\ UNCHANGED run /\ Trouble
        /\ UNCHANGED <<service, files, helper, dirs, host>>
        /\ back' = back \cup {<<"path", Binary>>}
    BY DEF PutBack
  <1>2. ~ Smooth' /\ Begun'
    BY <1>1, TroubleMet DEF AccountInv
  <1>3. Told' /\ Quiet'
    BY <1>1, <1>2, ElsewhereTold, QuietStays DEF AccountInv
  <1>4. Honest'
    BY <1>1 DEF AccountInv, Honest, Failed
  <1>5. QED
    BY <1>2, <1>3, <1>4 DEF AccountInv, GoesWell

\* The update and the daemon write what they put back, and are no trouble.
LEMMA WriterAccounts ==
  ASSUME TypeOK, AccountInv, UpdateLands \/ DaemonLocks
  PROVE  AccountInv'
  <1>1. /\ UNCHANGED <<run, trouble, github, service, files, helper, host>>
        /\ back \subseteq back'
        /\ \A d \in dirs' : d \in dirs \/ (d = "state" /\ <<"dir", d>> \in back')
        /\ dirs \subseteq dirs'
        /\ binary' => binary \/ <<"path", Binary>> \in back'
    <2>1. UNCHANGED <<run, trouble, github, service, files, helper, host>>
      BY DEF UpdateLands, DaemonLocks, registry, local, counts
    <2>2. /\ dirs \subseteq dirs'
          /\ \A d \in dirs' : d \in dirs \/ (d = "state" /\ <<"dir", d>> \in back')
      BY DEF UpdateLands, DaemonLocks
    <2>3. back \subseteq back'
      BY DEF UpdateLands, DaemonLocks
    <2>4. binary' => binary \/ <<"path", Binary>> \in back'
      <3>1. UpdateLands => <<"path", Binary>> \in back'
        BY DEF UpdateLands
      <3>2. DaemonLocks => UNCHANGED binary
        BY DEF DaemonLocks, local
      <3>3. QED
        BY <3>1, <3>2, Zenon
    <2>5. QED
      BY <2>1, <2>2, <2>3, <2>4
  <1>2. (Smooth' <=> Smooth) /\ Begun'
    BY <1>1 DEF AccountInv, Begun, Smooth
  <1>3. Told' /\ Quiet'
    BY <1>1, <1>2, ElsewhereTold, QuietStays DEF AccountInv
  <1>4. Honest'
    BY <1>1 DEF AccountInv, Honest, Failed
  <1>5. GoesWell'
    <2> SUFFICES ASSUME Smooth' PROVE Unhurt' /\ EndsEarly' /\ LeavesNothing'
      BY DEF GoesWell
    <2>1. Unhurt /\ EndsEarly /\ LeavesNothing
      BY <1>2 DEF AccountInv, GoesWell
    <2>2. Unhurt'
      BY <1>1, <2>1 DEF Unhurt
    <2>3. EndsEarly' /\ LeavesNothing'
      BY <1>1, <2>1 DEF EndsEarly, LeavesNothing, Finished, At
    <2>4. QED
      BY <2>2, <2>3
  <1>6. QED
    BY <1>2, <1>3, <1>4, <1>5 DEF AccountInv

LEMMA AccountKept ==
  ASSUME TypeOK, CleanupInv, AccountInv, [Next]_vars
  PROVE  AccountInv'
  <1>0. TypeOK'
    BY TypesKept
  <1>1. CASE Start
    BY <1>1, BeginAccounts DEF Start
  <1>2. CASE \/ Inventory \/ InventoryFails \/ Ask \/ Client \/ ClientFails
             \/ (\E r \in Repo : Clean(r)) \/ GitHubDone \/ Gate
    BY <1>2, EarlyAccounts
  <1>3. CASE Package
    BY <1>0, <1>3, PackageAccounts
  <1>4. CASE ServicesDone \/ DataDone
    BY <1>0, <1>4, DoneAccounts
  <1>5. CASE Reload
    BY <1>0, <1>5, ReloadAccounts
  <1>6. ASSUME NEW u \in Unit \cup Legacy, Strip(u) PROVE AccountInv'
    <2>1. CASE Service(u)
      BY <1>0, <2>1, ServiceAccounts
    <2>2. CASE UnitFile(u) \/ UnitFileFails(u)
      BY <1>0, <2>2, FileAccounts
    <2>3. QED
      BY <1>6, <2>1, <2>2 DEF Strip
  <1>7. ASSUME NEW d \in DataDir, Data(d) \/ DataFails(d) PROVE AccountInv'
    BY <1>0, <1>7, DataAccounts
  <1>8. CASE HelperDir
    BY <1>0, <1>8, HelperAccounts
  <1>9. CASE BinaryFile
    BY <1>0, <1>9, BinaryAccounts
  <1>10. CASE Finish
    BY <1>0, <1>10, FinishAccounts
  <1>11. CASE Cancel
    BY <1>11, CancelAccounts
  <1>12. CASE Kill
    BY <1>12, KillAccounts
  <1>13. ASSUME NEW r \in Repo, Register(r) PROVE AccountInv'
    BY <1>13, RegisterAccounts
  <1>14. CASE UpdateLands \/ DaemonLocks
    BY <1>14, WriterAccounts
  <1>17. CASE PutBack
    BY <1>17, PutBackAccounts
  <1>15. CASE UNCHANGED vars
    BY <1>15 DEF vars, registry, local, counts, history, AccountInv, Told, Quiet, Begun,
         GoesWell, Honest, ServiceOver, FileOver, DirOver, HelperOver, BinaryOver, Settled,
         Gone, Smooth, Unhurt, EndsEarly, LeavesNothing, Finished, At, Failed
  <1>16. QED
    BY <1>1, <1>2, <1>3, <1>4, <1>5, <1>6, <1>7, <1>8, <1>9, <1>10, <1>11, <1>12, <1>13,
       <1>14, <1>15, <1>17 DEF Next, Uninstalling, Elsewhere

\* Only the end of a run has an exit.
Open == run.exit # "none" => run.at = "ended"

LEMMA OpenKept ==
  ASSUME TypeOK, Open, [Next]_vars
  PROVE  Open'
  <1>1. CASE Start
    BY <1>1 DEF Start, Begin, NoRun, Open
  <1>2. CASE Uninstalling
    <2>1. run.at \notin {"idle", "ended"}
      BY <1>2 DEF Uninstalling, Inventory, InventoryFails, Ask, Client, ClientFails, Clean,
         NextRepo, DeleteHook, DeleteKey, RemoveKey, DeleteRow, CleanStep, CleanFails,
         GitHubDone, Gate, Package, Strip, Service, ServicesDone, UnitFile, UnitFileFails,
         Reload, Data, DataFails, DataDone, HelperDir, BinaryFile, Finish, At
    <2>2. run.exit = "none"
      BY <2>1 DEF Open, TypeOK
    <2>3. run'.at = "ended" \/ run'.exit = run.exit
      BY <1>2 DEF TypeOK, RunType, Uninstalling, Inventory, InventoryFails, Ask, Client,
         ClientFails, Clean, NextRepo, DeleteHook, DeleteKey, RemoveKey, DeleteRow, CleanStep,
         CleanFails, GitHubDone, Gate, Package, Strip, Service, ServicesDone, UnitFile,
         UnitFileFails, Report, Reload, Data, DataFails, DataDone, HelperDir, BinaryFile,
         Finish, Goto, End
    <2>4. QED
      BY <2>2, <2>3 DEF Open
  <1>3. CASE Elsewhere
    <2>1. CASE Cancel
      BY <2>1 DEF TypeOK, RunType, Cancel, Open
    <2>2. CASE Kill
      BY <2>2 DEF Kill, NoRun, Open
    <2>3. CASE UpdateLands \/ PutBack \/ DaemonLocks \/ \E r \in Repo : Register(r)
      BY <2>3 DEF UpdateLands, PutBack, DaemonLocks, Register, Open
    <2>4. QED
      BY <1>3, <2>1, <2>2, <2>3 DEF Elsewhere
  <1>4. CASE UNCHANGED vars
    BY <1>4 DEF vars, Open
  <1>5. QED
    BY <1>1, <1>2, <1>3, <1>4 DEF Next

LEMMA AccountAlways ==
  Spec => [](TypeOK /\ CleanupInv /\ AccountInv /\ Open)
  <1>1. Init => CleanupInv
    BY DEF Init, NoRun, CleanupInv, WorkHasItsRow, CleanedSoFar, RowsAccounted,
        OrphansAreAccepted, Cleaning, Wrecking
  <1>2. Init => AccountInv
    <2> SUFFICES ASSUME Init PROVE AccountInv
      OBVIOUS
    <2>1. run.at = "idle"
      BY DEF Init, NoRun
    <2>2. Quiet
      BY DEF Init, Quiet
    <2>3. Told
      BY <2>1 DEF Told, ServiceOver, FileOver, DirOver, HelperOver, BinaryOver, Finished, At
    <2>4. QED
      BY <2>1, <2>2, <2>3 DEF AccountInv, Begun, GoesWell, Smooth, Honest
  <1>3. Init => Open
    BY DEF Init, NoRun, Open
  <1>4. QED
    BY <1>1, <1>2, <1>3, CleanupKept, AccountKept, OpenKept, TypeCorrect, PTL DEF Spec

\* When the report was printed, each target is gone or the report says why not, whatever
\* failed, was killed or cancelled before; and a status of zero without --json means that
\* nothing failed (uninstall.Run, runUninstall).
THEOREM ReportIsComplete ==
  Spec => []ReportAccountsForAll
  <1>1. AccountInv /\ Open => ReportAccountsForAll
    <2> SUFFICES ASSUME AccountInv, Open PROVE ReportAccountsForAll
      OBVIOUS
    <2>1. ASSUME Finished, ~ run.misled, NEW t \in Target \ back
          PROVE  Gone(t) \/ run.report[t] \in {"kept", "failed", "deferred"}
      <3>1. Settled(t) \/ Gone(t)
        BY <2>1, Kinds, GoneOf DEF AccountInv, Told, ServiceOver, FileOver, DirOver, HelperOver,
             BinaryOver
      <3>2. QED
        BY <2>1, <3>1 DEF Settled
    <2>2. run.exit = "ok" => ~ Failed
      BY DEF AccountInv, Honest, Open
    <2>3. QED
      BY <2>1, <2>2 DEF ReportAccountsForAll
  <1>2. QED
    BY <1>1, AccountAlways, PTL

\* A half-removed install is finished by a second run, where the binary is still or again
\* there to start it: a run that goes on and meets no trouble ends well and leaves nothing
\* but what was to be kept or belongs to a package, whatever the runs before it left
\* (runUninstall, uninstall.Run).
THEOREM HalfRemovedFinishes ==
  Spec => []HalfRemovedIsFinishable
  <1>1. TypeOK /\ AccountInv => HalfRemovedIsFinishable
    <2> SUFFICES ASSUME TypeOK, AccountInv, At("ended"), run.start = trouble,
                        run.exit # "back",
                        ~ (~ run.keepGitHub /\ run.repos # {} /\ "config" \notin dirs)
                 PROVE  /\ Finished /\ ~ Failed
                        /\ \A t \in Target \ back :
                             \/ Gone(t)
                             \/ run.report[t] = "kept" /\ run.keepData
                             \/ run.report[t] = "deferred" /\ t[2] \in host.packaged
                        /\ run.keepGitHub \/ \A r \in run.repos : github[r] = {}
      BY DEF HalfRemovedIsFinishable
    <2>1. Smooth /\ Unhurt /\ EndsEarly /\ LeavesNothing
      BY DEF AccountInv, GoesWell, Smooth, At
    <2>2. Finished
      BY <2>1 DEF EndsEarly, Finished, At
    <2>3. ~ Failed
      BY <2>1 DEF Unhurt, Failed
    <2>4. ASSUME NEW t \in Target \ back
          PROVE  \/ Gone(t)
                 \/ run.report[t] = "kept" /\ run.keepData
                 \/ run.report[t] = "deferred" /\ t[2] \in host.packaged
      <3>1. Settled(t) \/ Gone(t)
        BY <2>2, <2>4, Kinds, GoneOf DEF AccountInv, Told, ServiceOver, FileOver, DirOver,
             HelperOver, BinaryOver
      <3>2. QED
        BY <2>1, <3>1 DEF Settled
    <2>5. QED
      BY <2>1, <2>2, <2>3, <2>4 DEF LeavesNothing
  <1>2. QED
    BY <1>1, AccountAlways, PTL

=============================================================================
