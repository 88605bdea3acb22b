--------------------------- MODULE HistoryProofs ---------------------------
(***************************************************************************)
(* Proofs about History.tla, for any checkouts, branches and workers and   *)
(* every bound: its types, that a rollback resets a checkout only to a     *)
(* commit that checkout has been on, and what it undoes.                   *)
(***************************************************************************)
EXTENDS History, WellFoundedInduction, SequenceTheorems, TLAPS

-----------------------------------------------------------------------------
(* Least and greatest elements. *)

\* A nonempty set of naturals has a least element.
LEMMA LeastExists ==
  ASSUME NEW S \in SUBSET Nat, S # {}
  PROVE  \E m \in S : \A y \in S : m =< y
  <1>1. IsWellFoundedOn({ss \in Nat \X Nat : ss[1] < ss[2]}, Nat)
    BY NatLessThanWellFounded DEF OpToRel
  <1>2. PICK m \in S : \A y \in S : ~ (<<y, m>> \in {ss \in Nat \X Nat : ss[1] < ss[2]})
    BY <1>1, WFMin
  <1>3. ASSUME NEW y \in S PROVE m =< y
    <2>1. y \in Nat /\ m \in Nat
      OBVIOUS
    <2>2. ~ (y < m)
      BY <1>2, <2>1
    <2>3. QED
      BY <2>1, <2>2
  <1>4. QED
    BY <1>3

\* Min finds it.
LEMMA MinExists ==
  ASSUME NEW S \in SUBSET Nat, S # {}
  PROVE  Min(S) \in S
  <1>1. \E m \in S : \A y \in S : m =< y
    BY LeastExists
  <1>2. QED
    BY <1>1 DEF Min

\* A nonempty set of naturals with a bound has a maximum.
LEMMA MaxExists ==
  ASSUME NEW n \in Nat, NEW S \in SUBSET (1 .. n), S # {}
  PROVE  Max(S) \in S
  <1> DEFINE T == {n - x : x \in S}
  <1>0. \A x \in S : x \in Nat /\ n - x \in Nat
    OBVIOUS
  <1>1. T \subseteq Nat /\ T # {}
    BY <1>0
  <1>2. PICK m \in T : \A y \in T : m =< y
    <2> HIDE DEF T
    <2>1. QED
      BY <1>1, LeastExists
  <1>3. PICK x \in S : m = n - x
    OBVIOUS
  <1>4. \A y \in S : x >= y
    BY <1>0, <1>2, <1>3
  <1>5. QED
    BY <1>4 DEF Max

-----------------------------------------------------------------------------
(* The invariant. *)

\* What a row says of its checkout is a commit the checkout has been on.
RowSeen(row, seen) == {row.prev, row.new} \subseteq seen[row.path] \cup {None}

\* A run knows such commits only, its id is that of a row, and if it visits it has a path
\* to visit.
RunSeen(r, n, seen) ==
    /\ r.at \notin {"idle", "list"} => r.id \in 1 .. n
    /\ \A i \in 1 .. Len(r.results) : RowSeen(r.results[i], seen)
    /\ \A p \in Path : r.targets[p] \in seen[p] \cup {None}
    /\ r.at = "visit" => r.todo # {}

GithubInv == tip \in [Branch -> Commit] /\ pushed \in Commit /\ broken \subseteq Commit

TreesInv ==
    /\ head \in [Path -> Commit]
    /\ was \in [Path -> SUBSET Commit]
    /\ \A p \in Path : head[p] \in was[p]

DeployRow == [by : {"push", "hand"}, status : {"running", "interrupted", "done"}]

DeploysInv == deploys \in Seq(DeployRow) /\ Len(deploys) <= MaxDeploys

RowsInv == rows \in Seq(Row) /\ \A i \in 1 .. Len(rows) : RowSeen(rows[i], was)

CountsInv == faults \in 0 .. MaxTrouble /\ kills \in 0 .. MaxTrouble

LastInv ==
    /\ last \in [fate : {"clean", "killed", "murky"}, before : [Path -> Commit]]
    /\ daemon \in BOOLEAN
    /\ overlapped \in BOOLEAN

RunsInv ==
    /\ run \in [Worker -> Run]
    /\ \A w \in Worker : RunSeen(run[w], Len(deploys), was)

HistoryInv ==
    /\ GithubInv /\ TreesInv /\ DeploysInv /\ RowsInv /\ CountsInv /\ LastInv /\ RunsInv

\* It is strong enough.
LEMMA InvImplies == HistoryInv => TypeOK /\ TargetsWereHere
  <1> SUFFICES ASSUME HistoryInv PROVE TypeOK /\ TargetsWereHere
    OBVIOUS
  <1>1. TypeOK
    BY DEF HistoryInv, GithubInv, TreesInv, DeploysInv, DeployRow, RowsInv, CountsInv,
           LastInv, RunsInv, RunSeen, TypeOK
  <1>2. TargetsWereHere
    BY DEF HistoryInv, RunsInv, RunSeen, TargetsWereHere
  <1>3. QED
    BY <1>1, <1>2

\* It holds at first.
LEMMA InitOK == Init => HistoryInv
  <1> SUFFICES ASSUME Init PROVE HistoryInv
    OBVIOUS
  <1>1. GithubInv
    <2>1. Branch # {}
      BY HistoryAssumption
    <2>2. Max(Branch) \in Commit
      BY <2>1, MaxExists, HistoryAssumption DEF Commit
    <2>3. QED
      BY <2>2, HistoryAssumption DEF Init, GithubInv, Commit
  <1>2. TreesInv
    BY HistoryAssumption DEF Init, TreesInv, Commit
  <1>3. DeploysInv /\ RowsInv
    <2>1. deploys \in Seq(DeployRow) /\ rows \in Seq(Row) /\ Len(deploys) = 0 /\ Len(rows) = 0
      BY EmptySeq DEF Init
    <2>2. QED
      BY <2>1, HistoryAssumption DEF DeploysInv, RowsInv
  <1>4. CountsInv
    BY HistoryAssumption DEF Init, CountsInv
  <1>5. LastInv
    BY <1>2 DEF Init, LastInv, TreesInv
  <1>6. RunsInv
    <2>1. <<>> \in Seq(Row) /\ Len(<<>>) = 0
      BY EmptySeq
    <2>2. NoRun \in Run
      BY <2>1, HistoryAssumption DEF NoRun, Run, Step, Kind, None
    <2>3. RunSeen(NoRun, Len(deploys), was)
      BY <2>1 DEF RunSeen, NoRun
    <2>4. QED
      BY <2>2, <2>3 DEF Init, RunsInv
  <1>7. QED
    BY <1>1, <1>2, <1>3, <1>4, <1>5, <1>6 DEF HistoryInv

-----------------------------------------------------------------------------
(* What a step leaves alone, and what may grow. *)

LEMMA GithubStays == ASSUME GithubInv, UNCHANGED github PROVE GithubInv'
  BY DEF GithubInv, github

LEMMA TreesStay == ASSUME TreesInv, UNCHANGED trees PROVE TreesInv'
  BY DEF TreesInv, trees

LEMMA CountsStay == ASSUME CountsInv, UNCHANGED counts PROVE CountsInv'
  BY DEF CountsInv, counts

LEMMA FaultOK == ASSUME CountsInv, Fault PROVE CountsInv'
  <1>1. faults \in Nat /\ kills \in Nat /\ faults + 1 <= MaxTrouble
    BY HistoryAssumption DEF CountsInv, Fault
  <1>2. faults' \in 0 .. MaxTrouble
    BY <1>1, HistoryAssumption DEF Fault
  <1>3. QED
    BY <1>2 DEF CountsInv, Fault

LEMMA MurkyOK ==
  ASSUME LastInv, NEW w \in Worker, Murky(w), UNCHANGED <<daemon, overlapped>>
  PROVE  LastInv'
  BY DEF LastInv, Murky

\* The idle record.
LEMMA NoRunOK ==
  ASSUME NEW n, NEW seen
  PROVE  NoRun \in Run /\ RunSeen(NoRun, n, seen)
  <1>1. <<>> \in Seq(Row) /\ Len(<<>>) = 0
    BY EmptySeq
  <1>2. NoRun \in Run
    BY <1>1, HistoryAssumption DEF NoRun, Run, Step, Kind, None
  <1>3. RunSeen(NoRun, n, seen)
    BY <1>1 DEF RunSeen, NoRun
  <1>4. QED
    BY <1>2, <1>3

\* What is known stays true while checkouts see more commits and deploys get more rows.
LEMMA RunSeenGrows ==
  ASSUME NEW r \in Run, NEW n \in Nat, NEW m \in Nat, n <= m,
         NEW seen, NEW more, \A p \in Path : seen[p] \subseteq more[p],
         RunSeen(r, n, seen)
  PROVE  RunSeen(r, m, more)
  <1>1. r.at \notin {"idle", "list"} => r.id \in 1 .. m
    BY DEF RunSeen
  <1>2. \A i \in 1 .. Len(r.results) : RowSeen(r.results[i], more)
    <2> SUFFICES ASSUME NEW i \in 1 .. Len(r.results) PROVE RowSeen(r.results[i], more)
      OBVIOUS
    <2>1. r.results[i] \in Row
      BY DEF Run
    <2>2. r.results[i].path \in Path
      BY <2>1 DEF Row
    <2>3. QED
      BY <2>2 DEF RunSeen, RowSeen
  <1>3. \A p \in Path : r.targets[p] \in more[p] \cup {None}
    BY DEF RunSeen
  <1>4. QED
    BY <1>1, <1>2, <1>3 DEF RunSeen

Grows ==
    /\ Len(deploys') \in Nat /\ Len(deploys) <= Len(deploys')
    /\ \A p \in Path : was[p] \subseteq was'[p]

\* One worker goes on, the others stay.
LEMMA RunsStep ==
  ASSUME HistoryInv, NEW w \in Worker, NEW r \in Run, run' = [run EXCEPT ![w] = r], Grows,
         RunSeen(r, Len(deploys'), was')
  PROVE  RunsInv'
  <1>1. run' \in [Worker -> Run]
    BY DEF HistoryInv, RunsInv
  <1>2. ASSUME NEW v \in Worker PROVE RunSeen(run'[v], Len(deploys'), was')
    <2>1. CASE v = w
      BY <2>1 DEF HistoryInv, RunsInv
    <2>2. CASE v # w
      <3>1. run'[v] = run[v] /\ run[v] \in Run /\ RunSeen(run[v], Len(deploys), was)
        BY <2>2 DEF HistoryInv, RunsInv
      <3>2. Len(deploys) \in Nat
        BY DEF HistoryInv, DeploysInv
      <3>3. QED
        BY <3>1, <3>2, RunSeenGrows DEF Grows
    <2>3. QED
      BY <2>1, <2>2
  <1>3. QED
    BY <1>1, <1>2 DEF RunsInv

\* The world's part of the invariant, and Grows, where only the run, and perhaps what the
\* newest row is known for, changes.
LEMMA StillStays ==
  ASSUME HistoryInv, UNCHANGED <<github, trees, tables>>
  PROVE  GithubInv' /\ TreesInv' /\ DeploysInv' /\ RowsInv' /\ Grows
  <1>1. GithubInv' /\ TreesInv'
    BY GithubStays, TreesStay DEF HistoryInv
  <1>2. DeploysInv' /\ RowsInv'
    BY DEF HistoryInv, DeploysInv, RowsInv, tables, trees
  <1>3. Grows
    BY DEF HistoryInv, DeploysInv, Grows, tables, trees
  <1>4. QED
    BY <1>1, <1>2, <1>3

\* The same where nothing but the run of w changes.
LEMMA OnlyRun ==
  ASSUME HistoryInv, NEW w \in Worker, NEW r \in Run, run' = [run EXCEPT ![w] = r],
         RunSeen(r, Len(deploys), was),
         UNCHANGED <<github, trees, tables, daemon, counts, last, overlapped>>
  PROVE  HistoryInv'
  <1>1. GithubInv' /\ TreesInv' /\ DeploysInv' /\ RowsInv' /\ Grows
    BY StillStays
  <1>2. CountsInv'
    BY CountsStay DEF HistoryInv
  <1>3. LastInv'
    BY DEF HistoryInv, LastInv
  <1>4. RunsInv'
    <2>1. RunSeen(r, Len(deploys'), was')
      BY DEF tables, trees
    <2>2. QED
      BY <1>1, <2>1, RunsStep
  <1>5. QED
    BY <1>1, <1>2, <1>3, <1>4 DEF HistoryInv

-----------------------------------------------------------------------------
(* A run begins, and a rollback chooses. *)

LEMMA DeployStartOK ==
  ASSUME HistoryInv, NEW w \in Worker, NEW by \in {"push", "hand"}, NEW job \in Run,
         RunSeen(job, Len(deploys), was), DeployStart(w, by, job)
  PROVE  HistoryInv'
  <1> DEFINE row == [by |-> by, status |-> "running"]
             mine == [job EXCEPT !.at = "scan", !.id = Len(deploys) + 1]
  <1>1. Len(deploys) \in Nat /\ Len(deploys) < MaxDeploys /\ deploys \in Seq(DeployRow)
    BY DEF HistoryInv, DeploysInv, DeployStart
  <1>2. row \in DeployRow /\ deploys' = Append(deploys, row)
    BY DEF DeployRow, DeployStart
  <1>3. Len(deploys') = Len(deploys) + 1 /\ deploys' \in Seq(DeployRow)
    BY <1>1, <1>2
  <1>4. DeploysInv'
    BY <1>1, <1>3, HistoryAssumption DEF DeploysInv
  <1>5. GithubInv' /\ TreesInv' /\ CountsInv'
    BY GithubStays, TreesStay, CountsStay DEF HistoryInv, DeployStart
  <1>6. RowsInv'
    BY DEF HistoryInv, RowsInv, DeployStart, trees
  <1>7. LastInv'
    <2>1. last'.before = head /\ last' \in [fate : {"clean", "murky"}, before : {head}]
      BY DEF DeployStart
    <2>2. QED
      BY <2>1 DEF HistoryInv, LastInv, TreesInv, DeployStart
  <1>8. RunsInv'
    <2>1. mine \in Run
      <3>1. Len(deploys) + 1 \in 0 .. MaxDeploys
        BY <1>1, HistoryAssumption
      <3>2. QED
        BY <3>1 DEF Run, Step
    <2>2. RunSeen(mine, Len(deploys) + 1, was)
      BY <1>1 DEF RunSeen, Run
    <2>3. ASSUME NEW v \in Worker
          PROVE  run'[v] \in Run /\ RunSeen(run'[v], Len(deploys) + 1, was)
      <3>1. CASE v = w
        BY <2>1, <2>2, <3>1 DEF DeployStart
      <3>2. CASE v # w
        <4> DEFINE other == [run[v] EXCEPT !.promise = "none"]
        <4>1. run[v] \in Run /\ RunSeen(run[v], Len(deploys), was)
          BY DEF HistoryInv, RunsInv
        <4>2. RunSeen(run[v], Len(deploys) + 1, was)
          BY <1>1, <4>1, RunSeenGrows
        <4>3. other \in Run
          BY <4>1 DEF Run
        <4>4. RunSeen(other, Len(deploys) + 1, was)
          BY <4>1, <4>2 DEF RunSeen, Run
        <4>5. run'[v] = other
          BY <3>2 DEF DeployStart
        <4>6. QED
          BY <4>3, <4>4, <4>5
      <3>3. QED
        BY <3>1, <3>2
    <2>4. was' = was
      BY DEF DeployStart, trees
    <2>5. run' = [v \in Worker |-> run'[v]]
      BY DEF DeployStart
    <2>6. QED
      BY <1>3, <2>3, <2>4, <2>5 DEF RunsInv
  <1>9. QED
    BY <1>4, <1>5, <1>6, <1>7, <1>8 DEF HistoryInv

LEMMA BeginPushOK ==
  ASSUME HistoryInv, NEW w \in Worker, NEW b \in Branch, BeginPush(w, b)
  PROVE  HistoryInv'
  <1> DEFINE job == [NoRun EXCEPT !.ref = b]
  <1>1. NoRun \in Run /\ RunSeen(NoRun, Len(deploys), was)
    BY NoRunOK
  <1>2. job \in Run /\ RunSeen(job, Len(deploys), was)
    BY <1>1 DEF Run, RunSeen
  <1>3. DeployStart(w, "push", job)
    BY DEF BeginPush
  <1> HIDE DEF job
  <1>4. QED
    BY <1>2, <1>3, DeployStartOK

LEMMA BeginDeployOK ==
  ASSUME HistoryInv, NEW w \in Worker, NEW only \in Selections, BeginDeploy(w, only)
  PROVE  HistoryInv'
  <1> DEFINE job == [NoRun EXCEPT !.kind = "deploy", !.only = only]
  <1>1. NoRun \in Run /\ RunSeen(NoRun, Len(deploys), was) /\ only \in Path \cup {None}
    BY NoRunOK, HistoryAssumption DEF None
  <1>2. job \in Run /\ RunSeen(job, Len(deploys), was)
    BY <1>1 DEF Run, RunSeen, Kind
  <1>3. DeployStart(w, "hand", job)
    BY DEF BeginDeploy
  <1> HIDE DEF job
  <1>4. QED
    BY <1>2, <1>3, DeployStartOK

LEMMA BeginRollbackOK ==
  ASSUME HistoryInv, NEW w \in Worker, NEW only \in Selections, BeginRollback(w, only)
  PROVE  HistoryInv'
  <1> DEFINE r == [NoRun EXCEPT !.at = "list", !.kind = "rollback", !.only = only,
                                !.promise = Promise, !.before = last.before]
  <1>1. NoRun \in Run /\ RunSeen(NoRun, Len(deploys), was) /\ only \in Path \cup {None}
    BY NoRunOK, HistoryAssumption DEF None
  <1>2. Promise \in {"none", "recorded", "killed"}
    BY DEF Promise
  <1>3. last.before \in [Path -> Commit \cup {None}]
    BY DEF HistoryInv, LastInv
  <1>4. r \in Run
    BY <1>1, <1>2, <1>3 DEF Run, Kind, Step
  <1>5. RunSeen(r, Len(deploys), was)
    BY <1>1 DEF Run, RunSeen
  <1>6. run' = [run EXCEPT ![w] = r]
    BY DEF BeginRollback
  <1> HIDE DEF r
  <1>7. QED
    BY <1>4, <1>5, <1>6, OnlyRun DEF BeginRollback

LEMMA ListOK ==
  ASSUME HistoryInv, NEW w \in Worker, List(w)
  PROVE  HistoryInv'
  <1> DEFINE r == IF NeverDeployed THEN NoRun
                  ELSE [run[w] EXCEPT !.at = "rows", !.id = Len(deploys),
                          !.left = deploys # <<>>
                            /\ deploys[Len(deploys)].status \in {"running", "interrupted"}]
  <1>1. run[w] \in Run /\ RunSeen(run[w], Len(deploys), was)
    BY DEF HistoryInv, RunsInv
  <1>2. Len(deploys) \in Nat /\ Len(deploys) <= MaxDeploys /\ deploys \in Seq(DeployRow)
    BY DEF HistoryInv, DeploysInv
  <1>3. CASE NeverDeployed
    <2>1. r = NoRun
      BY <1>3
    <2>2. QED
      BY <2>1, NoRunOK, OnlyRun DEF List
  <1>4. CASE ~ NeverDeployed
    <2>1. Len(deploys) \in 1 .. Len(deploys) /\ Len(deploys) \in 0 .. MaxDeploys
      BY <1>2, <1>4, HistoryAssumption, EmptySeq DEF NeverDeployed
    <2>2. r \in Run
      BY <1>1, <1>4, <2>1 DEF Run, Step
    <2>3. RunSeen(r, Len(deploys), was)
      BY <1>1, <1>4, <2>1 DEF Run, RunSeen
    <2>4. run' = [run EXCEPT ![w] = r]
      BY DEF List
    <2> HIDE DEF r
    <2>5. QED
      BY <2>2, <2>3, <2>4, OnlyRun DEF List
  <1>5. QED
    BY <1>3, <1>4

\* A rollback goes on with targets its checkouts have been on.
LEMMA ResolveOK ==
  ASSUME HistoryInv, NEW w \in Worker, run[w].at \in {"rows", "prior"},
         NEW targets \in [Path -> Commit \cup {None}],
         \A p \in Path : targets[p] \in was[p] \cup {None},
         Resolve(w, targets),
         UNCHANGED <<github, trees, tables, daemon, counts, last, overlapped>>
  PROVE  HistoryInv'
  <1> DEFINE wanted == [p \in Path |-> IF p \in Scope(w) THEN targets[p] ELSE None]
             r == [run[w] EXCEPT !.at = "start", !.targets = wanted]
  <1>1. run[w] \in Run /\ RunSeen(run[w], Len(deploys), was)
    BY DEF HistoryInv, RunsInv
  <1>2. wanted \in [Path -> Commit \cup {None}] /\ \A p \in Path : wanted[p] \in was[p] \cup {None}
    OBVIOUS
  <1>3. run' = [run EXCEPT ![w] = NoRun] \/ run' = [run EXCEPT ![w] = r]
    BY DEF Resolve
  <1> HIDE DEF wanted
  <1>4. r \in Run
    BY <1>1, <1>2 DEF Run, Step
  <1>5. RunSeen(r, Len(deploys), was)
    BY <1>1, <1>2 DEF Run, RunSeen
  <1> HIDE DEF r
  <1>6. QED
    BY <1>3, <1>4, <1>5, NoRunOK, OnlyRun

LEMMA RowsOK ==
  ASSUME HistoryInv, NEW w \in Worker, Rows(w)
  PROVE  HistoryInv'
  <1>1. run[w] \in Run /\ RunSeen(run[w], Len(deploys), was) /\ run[w].at = "rows"
    BY DEF HistoryInv, RunsInv, Rows, At
  <1>2. CASE RowsOf(run[w].id) # {}
    <2> DEFINE found == FoundBy(run[w].id)
    <2>1. ASSUME NEW p \in Path
          PROVE  found[p] \in Commit \cup {None} /\ found[p] \in was[p] \cup {None}
      <3>1. CASE \E i \in RowsOf(run[w].id) : rows[i].path = p
        <4> DEFINE i == CHOOSE j \in RowsOf(run[w].id) : rows[j].path = p
        <4>1. i \in RowsOf(run[w].id) /\ rows[i].path = p
          BY <3>1
        <4>2. found[p] = rows[i].prev
          BY <3>1 DEF FoundBy
        <4> HIDE DEF i
        <4>3. i \in 1 .. Len(rows) /\ rows[i] \in Row /\ RowSeen(rows[i], was)
          BY <4>1 DEF RowsOf, HistoryInv, RowsInv
        <4>4. QED
          BY <4>1, <4>2, <4>3 DEF Row, RowSeen
      <3>2. CASE ~ \E i \in RowsOf(run[w].id) : rows[i].path = p
        BY <3>2 DEF FoundBy
      <3>3. QED
        BY <3>1, <3>2
    <2>2. found = [p \in Path |-> found[p]]
      BY DEF FoundBy
    <2>3. Resolve(w, found)
      BY <1>2 DEF Rows
    <2> HIDE DEF found
    <2>4. found \in [Path -> Commit \cup {None}]
      BY <2>1, <2>2
    <2>5. QED
      BY <1>1, <2>1, <2>3, <2>4, ResolveOK DEF Rows
  <1>3. CASE RowsOf(run[w].id) = {}
    <2> DEFINE r == [run[w] EXCEPT !.at = "prior"]
    <2>1. run' = [run EXCEPT ![w] = NoRun] \/ run' = [run EXCEPT ![w] = r]
      BY <1>3 DEF Rows
    <2>2. r \in Run
      BY <1>1 DEF Run, Step
    <2>3. RunSeen(r, Len(deploys), was)
      BY <1>1 DEF Run, RunSeen
    <2> HIDE DEF r
    <2>4. QED
      BY <2>1, <2>2, <2>3, NoRunOK, OnlyRun DEF Rows
  <1>4. QED
    BY <1>2, <1>3

LEMMA PriorOK ==
  ASSUME HistoryInv, NEW w \in Worker, Prior(w)
  PROVE  HistoryInv'
  <1>1. ASSUME NEW p \in Path
        PROVE  LastSeen[p] \in Commit \cup {None} /\ LastSeen[p] \in was[p] \cup {None}
    <2> DEFINE known == {i \in DOMAIN rows : rows[i].path = p /\ rows[i].new # None}
    <2>1. CASE known = {}
      BY <2>1 DEF LastSeen
    <2>2. CASE known # {}
      <3>1. LastSeen[p] = rows[Max(known)].new
        BY <2>2 DEF LastSeen
      <3>2. Len(rows) \in Nat /\ known \subseteq 1 .. Len(rows)
        BY DEF HistoryInv, RowsInv
      <3>3. Max(known) \in known
        <4> HIDE DEF known
        <4>1. QED
          BY <2>2, <3>2, MaxExists
      <3>4. Max(known) \in 1 .. Len(rows) /\ rows[Max(known)].path = p
        BY <3>2, <3>3
      <3> HIDE DEF known
      <3>5. rows[Max(known)] \in Row /\ RowSeen(rows[Max(known)], was)
        BY <3>4 DEF HistoryInv, RowsInv
      <3>6. QED
        BY <3>1, <3>4, <3>5 DEF Row, RowSeen
    <2>3. QED
      BY <2>1, <2>2
  <1>2. LastSeen \in [Path -> Commit \cup {None}]
    <2>1. LastSeen = [p \in Path |-> LastSeen[p]]
      BY DEF LastSeen
    <2>2. QED
      BY <1>1, <2>1
  <1>3. run[w].at = "prior" /\ Resolve(w, LastSeen)
    BY DEF Prior, At
  <1>4. QED
    BY <1>1, <1>2, <1>3, ResolveOK DEF Prior

LEMMA StartRollbackOK ==
  ASSUME HistoryInv, NEW w \in Worker, StartRollback(w)
  PROVE  HistoryInv'
  <1>1. run[w] \in Run /\ RunSeen(run[w], Len(deploys), was)
    BY DEF HistoryInv, RunsInv
  <1>2. QED
    BY <1>1, DeployStartOK DEF StartRollback

LEMMA DeclineOK ==
  ASSUME HistoryInv, NEW w \in Worker, Decline(w)
  PROVE  HistoryInv'
  BY NoRunOK, OnlyRun DEF Decline

-----------------------------------------------------------------------------
(* The engine. *)

LEMMA ScanOK ==
  ASSUME HistoryInv, NEW w \in Worker, Scan(w)
  PROVE  HistoryInv'
  <1> DEFINE sick == {p \in Scope(w) : head[p] \in broken}
             r == [run[w] EXCEPT !.at = "visit", !.todo = Scope(w), !.errs = sick]
  <1>1. run[w] \in Run /\ RunSeen(run[w], Len(deploys), was) /\ run[w].at = "scan"
    BY DEF HistoryInv, RunsInv, Scan, At
  <1>2. Scope(w) \in SUBSET Path /\ Scope(w) # {} /\ sick \in SUBSET Path
    BY <1>1, HistoryAssumption DEF Scope, Run
  <1>3. run' = [run EXCEPT ![w] = r]
    BY DEF Scan
  <1> HIDE DEF sick
  <1>4. r \in Run
    BY <1>1, <1>2 DEF Run, Step
  <1>5. RunSeen(r, Len(deploys), was)
    BY <1>1, <1>2 DEF Run, RunSeen
  <1> HIDE DEF r
  <1>6. QED
    BY <1>3, <1>4, <1>5, OnlyRun DEF Scan

\* One worker's run changes at the cost of a fault.
LEMMA FaultyRun ==
  ASSUME HistoryInv, NEW w \in Worker, NEW r \in Run, run' = [run EXCEPT ![w] = r],
         RunSeen(r, Len(deploys), was), Fault, LastInv',
         UNCHANGED <<github, trees, tables>>
  PROVE  HistoryInv'
  <1>1. GithubInv' /\ TreesInv' /\ DeploysInv' /\ RowsInv' /\ Grows
    BY StillStays
  <1>2. CountsInv'
    BY FaultOK DEF HistoryInv
  <1>3. RunSeen(r, Len(deploys'), was')
    BY DEF tables, trees
  <1>4. RunsInv'
    BY <1>1, <1>3, RunsStep
  <1>5. QED
    BY <1>1, <1>2, <1>4 DEF HistoryInv

LEMMA ScanFailsOK ==
  ASSUME HistoryInv, NEW w \in Worker, ScanFails(w)
  PROVE  HistoryInv'
  <1> DEFINE r == [run[w] EXCEPT !.at = "record", !.promise = "none"]
  <1>1. run[w] \in Run /\ RunSeen(run[w], Len(deploys), was) /\ run[w].at = "scan"
    BY DEF HistoryInv, RunsInv, ScanFails, At
  <1>2. run' = [run EXCEPT ![w] = r]
    BY <1>1 DEF ScanFails, HistoryInv, RunsInv
  <1>3. r \in Run
    BY <1>1 DEF Run, Step
  <1>4. RunSeen(r, Len(deploys), was)
    BY <1>1 DEF Run, RunSeen
  <1>5. LastInv'
    BY MurkyOK DEF HistoryInv, ScanFails
  <1> HIDE DEF r
  <1>6. QED
    BY <1>2, <1>3, <1>4, <1>5, FaultyRun DEF ScanFails

\* The path a run is at, and the commit it would go to.
LEMMA HereOK ==
  ASSUME HistoryInv, NEW w \in Worker, At(w, "visit")
  PROVE  /\ Here(w) \in run[w].todo /\ Here(w) \in Path
         /\ Touches(w, Here(w)) => Aim(w, Here(w)) \in Commit
  <1>1. run[w] \in Run /\ RunSeen(run[w], Len(deploys), was)
    BY DEF HistoryInv, RunsInv
  <1>2. run[w].todo # {} /\ run[w].todo \subseteq Path /\ Path \subseteq Nat
    BY <1>1, HistoryAssumption DEF RunSeen, Run, At
  <1>3. Here(w) \in run[w].todo
    BY <1>2, MinExists DEF Here
  <1>4. Here(w) \in Path
    BY <1>2, <1>3
  <1>5. ASSUME Touches(w, Here(w)) PROVE Aim(w, Here(w)) \in Commit
    <2> DEFINE p == Here(w)
    <2>1. p \in Path
      BY <1>4
    <2>2. run[w].targets[p] \in Commit \cup {None} /\ tip[BranchOf[p]] \in Commit
      BY <1>1, <2>1, HistoryAssumption DEF Run, HistoryInv, GithubInv
    <2> HIDE DEF p
    <2>3. Touches(w, p)
      BY <1>5 DEF p
    <2>4. Aim(w, p) \in Commit
      BY <2>2, <2>3 DEF Touches, Aim
    <2>5. QED
      BY <2>4 DEF p
  <1>6. QED
    BY <1>3, <1>4, <1>5

\* A visit that puts the tree on commits GitHub holds and reports such as it has been on.
LEMMA VisitedOK ==
  ASSUME HistoryInv, NEW w \in Worker, NEW sha \in Commit, NEW via \in SUBSET Commit,
         NEW prev \in {None, head[Here(w)]}, NEW new \in {None, head[Here(w)], sha} \cup via,
         NEW failed \in BOOLEAN,
         Visited(w, sha, via, prev, new, failed), CountsInv'
  PROVE  HistoryInv'
  <1> DEFINE p == Here(w)
             result == [deploy |-> run[w].id, path |-> p, prev |-> prev, new |-> new]
             results == Append(run[w].results, result)
             r == [run[w] EXCEPT
                     !.todo = @ \ {p}, !.at = IF run[w].todo = {p} THEN "record" ELSE "visit",
                     !.results = results, !.failed = IF failed THEN @ \cup {p} ELSE @]
  <1>1. run[w] \in Run /\ RunSeen(run[w], Len(deploys), was) /\ run[w].at = "visit"
    BY DEF HistoryInv, RunsInv, Visited, At
  <1>2. p \in run[w].todo /\ p \in Path
    BY <1>1, HereOK DEF At
  <1>3. head[p] \in Commit /\ head[p] \in was[p]
    BY <1>2 DEF HistoryInv, TreesInv
  <1>4. TreesInv' /\ \A q \in Path : was[q] \subseteq was'[q]
    <2>1. head' = [head EXCEPT ![p] = sha] /\ was' = [was EXCEPT ![p] = @ \cup {sha} \cup via]
      BY DEF Visited
    <2> HIDE DEF p
    <2>2. QED
      BY <1>2, <2>1 DEF HistoryInv, TreesInv
  <1>5. {prev, new} \subseteq was'[p] \cup {None} /\ {prev, new} \subseteq Commit \cup {None}
    <2>1. sha \in was'[p] /\ via \subseteq was'[p]
      BY <1>2 DEF Visited, HistoryInv, TreesInv
    <2>2. head[p] \in was'[p]
      BY <1>2, <1>3, <1>4
    <2>3. QED
      BY <1>3, <2>1, <2>2
  <1>6. UNCHANGED <<github, tables, daemon, overlapped>>
    BY DEF Visited
  <1>7. GithubInv' /\ DeploysInv' /\ Grows
    BY <1>4, <1>6, GithubStays DEF HistoryInv, DeploysInv, tables, Grows
  <1>8. RowsInv'
    <2> SUFFICES ASSUME NEW i \in 1 .. Len(rows) PROVE RowSeen(rows[i], was')
      BY <1>6 DEF HistoryInv, RowsInv, tables
    <2>1. rows[i] \in Row /\ RowSeen(rows[i], was)
      BY DEF HistoryInv, RowsInv
    <2>2. rows[i].path \in Path
      BY <2>1 DEF Row
    <2>3. QED
      BY <1>4, <2>1, <2>2 DEF RowSeen
  <1>9. LastInv'
    <2>1. last' = last
      BY DEF Visited
    <2> HIDE DEF p
    <2>2. QED
      BY <1>2, <1>6, <2>1 DEF HistoryInv, LastInv
  <1>10. RunsInv'
    <2>1. result \in Row
      <3>1. run[w].id \in 1 .. MaxDeploys
        BY <1>1, HistoryAssumption DEF RunSeen, HistoryInv, DeploysInv
      <3>2. QED
        BY <1>2, <1>5, <3>1 DEF Row
    <2>2. RowSeen(result, was')
      BY <1>5 DEF RowSeen
    <2>3. RunSeen(run[w], Len(deploys), was')
      <3>1. Len(deploys) \in Nat /\ Len(deploys) <= Len(deploys)
        BY DEF HistoryInv, DeploysInv
      <3>2. QED
        BY <1>1, <1>4, <3>1, RunSeenGrows
    <2>4. run' = [run EXCEPT ![w] = r]
      BY Zenon DEF Visited
    <2> HIDE DEF result
    <2>5. results \in Seq(Row) /\ \A i \in 1 .. Len(results) : RowSeen(results[i], was')
      <3>1. run[w].results \in Seq(Row)
        BY <1>1 DEF Run
      <3>2. QED
        BY <2>1, <2>2, <2>3, <3>1 DEF RunSeen
    <2> HIDE DEF p, results
    <2>6. r \in Run
      BY <1>1, <1>2, <2>5 DEF Run, Step
    <2>7. RunSeen(r, Len(deploys), was')
      BY <1>1, <1>2, <2>3, <2>5 DEF Run, RunSeen
    <2> HIDE DEF r
    <2>8. Len(deploys') = Len(deploys)
      BY <1>6 DEF tables
    <2>9. QED
      BY <1>7, <2>4, <2>6, <2>7, <2>8, RunsStep
  <1>11. QED
    BY <1>4, <1>7, <1>8, <1>9, <1>10 DEF HistoryInv

LEMMA EngineOK ==
  ASSUME HistoryInv, NEW w \in Worker, Engine(w)
  PROVE  HistoryInv'
  <1> DEFINE p == Here(w)
  <1>1. CASE Scan(w)
    BY <1>1, ScanOK
  <1>2. CASE ScanFails(w)
    BY <1>2, ScanFailsOK
  <1>3. ASSUME At(w, "visit")
        PROVE  p \in Path /\ head[p] \in Commit /\ (Touches(w, p) => Aim(w, p) \in Commit)
    BY <1>3, HereOK DEF HistoryInv, TreesInv
  <1>4. Fault => CountsInv'
    BY FaultOK DEF HistoryInv
  <1>5. UNCHANGED counts => CountsInv'
    BY CountsStay DEF HistoryInv
  <1>6. CASE LeaveAlone(w)
    <2>1. At(w, "visit") /\ CountsInv'
      BY <1>5, <1>6 DEF LeaveAlone
    <2>2. CASE Visited(w, head[p], {}, head[p], None, FALSE)
      BY <1>3, <2>1, <2>2, VisitedOK
    <2>3. CASE Visited(w, head[p], {}, None, None, p \in run[w].errs)
      <3>1. PICK failed \in BOOLEAN : failed <=> p \in run[w].errs
        BY Zenon
      <3>2. Visited(w, head[p], {}, None, None, failed)
        BY <2>3, <3>1, Zenon
      <3>3. QED
        BY <1>3, <2>1, <3>2, VisitedOK
    <2>4. QED
      BY <1>6, <2>2, <2>3 DEF LeaveAlone
  <1>7. CASE FailsEarly(w)
    BY <1>3, <1>4, <1>7, VisitedOK DEF FailsEarly
  <1>8. CASE MoveFails(w)
    BY <1>3, <1>4, <1>8, VisitedOK DEF MoveFails
  <1>9. CASE Moves(w)
    BY <1>3, <1>5, <1>9, VisitedOK DEF Moves
  <1>10. CASE Undone(w)
    BY <1>3, <1>5, <1>10, VisitedOK DEF Undone, UndoneAt
  <1>11. CASE UndoFails(w)
    BY <1>3, <1>4, <1>11, VisitedOK DEF UndoFails
  <1>12. QED
    BY <1>1, <1>2, <1>6, <1>7, <1>8, <1>9, <1>10, <1>11 DEF Engine

-----------------------------------------------------------------------------
(* Recording. *)

LEMMA DeployPathInsertOK ==
  ASSUME HistoryInv, NEW w \in Worker, DeployPathInsert(w)
  PROVE  HistoryInv'
  <1> DEFINE rest == Tail(run[w].results)
             r == [run[w] EXCEPT !.results = rest]
  <1>1. run[w] \in Run /\ RunSeen(run[w], Len(deploys), was)
    BY DEF HistoryInv, RunsInv
  <1>2. run[w].results \in Seq(Row) /\ run[w].results # <<>> /\ run[w].at = "record"
    BY <1>1 DEF Run, DeployPathInsert, Recorded, At
  <1>3. Head(run[w].results) \in Row /\ RowSeen(Head(run[w].results), was)
    BY <1>1, <1>2 DEF RunSeen
  <1>4. rest \in Seq(Row) /\ \A i \in 1 .. Len(rest) : RowSeen(rest[i], was)
    BY <1>1, <1>2 DEF RunSeen
  <1>5. run' = [run EXCEPT ![w] = r]
    BY DEF DeployPathInsert, HistoryInv, RunsInv
  <1> HIDE DEF rest
  <1>6. r \in Run
    BY <1>1, <1>4 DEF Run
  <1>7. RunSeen(r, Len(deploys), was)
    BY <1>1, <1>4 DEF Run, RunSeen
  <1> HIDE DEF r
  <1>8. deploys' = deploys /\ was' = was /\ head' = head
    BY DEF DeployPathInsert, trees
  <1>9. Grows
    BY <1>8 DEF HistoryInv, DeploysInv, Grows
  <1>10. RunsInv'
    BY <1>5, <1>6, <1>7, <1>8, <1>9, RunsStep
  <1>11. RowsInv'
    <2>1. rows' = Append(rows, Head(run[w].results))
      BY DEF DeployPathInsert
    <2>2. QED
      BY <1>3, <1>8, <2>1 DEF HistoryInv, RowsInv
  <1>12. GithubInv' /\ TreesInv' /\ CountsInv'
    BY GithubStays, TreesStay, CountsStay DEF HistoryInv, DeployPathInsert
  <1>13. DeploysInv' /\ LastInv'
    BY <1>8 DEF HistoryInv, DeploysInv, LastInv, DeployPathInsert
  <1>14. QED
    BY <1>10, <1>11, <1>12, <1>13 DEF HistoryInv

LEMMA InsertFailsOK ==
  ASSUME HistoryInv, NEW w \in Worker, InsertFails(w)
  PROVE  HistoryInv'
  <1> DEFINE rest == Tail(run[w].results)
             r == [run[w] EXCEPT !.results = rest]
  <1>1. run[w] \in Run /\ RunSeen(run[w], Len(deploys), was)
    BY DEF HistoryInv, RunsInv
  <1>2. run[w].results \in Seq(Row) /\ run[w].results # <<>>
    BY <1>1 DEF Run, InsertFails, Recorded
  <1>3. rest \in Seq(Row) /\ \A i \in 1 .. Len(rest) : RowSeen(rest[i], was)
    BY <1>1, <1>2 DEF RunSeen
  <1>4. run' = [run EXCEPT ![w] = r]
    BY DEF InsertFails, HistoryInv, RunsInv
  <1> HIDE DEF rest
  <1>5. r \in Run
    BY <1>1, <1>3 DEF Run
  <1>6. RunSeen(r, Len(deploys), was)
    BY <1>1, <1>3 DEF Run, RunSeen
  <1>7. LastInv'
    BY MurkyOK DEF HistoryInv, InsertFails
  <1> HIDE DEF r
  <1>8. QED
    BY <1>4, <1>5, <1>6, <1>7, FaultyRun DEF InsertFails

LEMMA FinishFailsOK ==
  ASSUME HistoryInv, NEW w \in Worker, FinishFails(w)
  PROVE  HistoryInv'
  <1>1. LastInv'
    BY DEF HistoryInv, LastInv, FinishFails
  <1>2. QED
    BY <1>1, NoRunOK, FaultyRun DEF FinishFails

LEMMA DeployFinishOK ==
  ASSUME HistoryInv, NEW w \in Worker, DeployFinish(w)
  PROVE  HistoryInv'
  <1>1. run[w].id \in 1 .. Len(deploys) /\ deploys \in Seq(DeployRow)
    BY DEF DeployFinish, Recorded, At, HistoryInv, RunsInv, RunSeen, DeploysInv
  <1>2. Len(deploys') = Len(deploys) /\ deploys' \in Seq(DeployRow)
    <2> DEFINE row == [deploys[run[w].id] EXCEPT !.status = "done"]
    <2>1. row \in DeployRow
      <3>1. deploys[run[w].id] \in DeployRow
        BY <1>1
      <3>2. QED
        BY <3>1 DEF DeployRow
    <2>2. deploys' = [deploys EXCEPT ![run[w].id] = row]
      BY DEF DeployFinish
    <2> HIDE DEF row
    <2>3. QED
      BY <1>1, <2>1, <2>2
  <1>3. DeploysInv'
    BY <1>2 DEF HistoryInv, DeploysInv
  <1>4. GithubInv' /\ TreesInv' /\ CountsInv'
    BY GithubStays, TreesStay, CountsStay DEF HistoryInv, DeployFinish
  <1>5. RowsInv' /\ LastInv'
    BY DEF HistoryInv, RowsInv, LastInv, DeployFinish, trees
  <1>6. Grows
    BY <1>1, <1>2 DEF Grows, DeployFinish, trees
  <1>7. RunsInv'
    BY <1>6, NoRunOK, RunsStep DEF DeployFinish
  <1>8. QED
    BY <1>3, <1>4, <1>5, <1>7 DEF HistoryInv

-----------------------------------------------------------------------------
(* Processes and GitHub. *)

\* Killed runs leave each tree on a commit GitHub holds, which it has then been on.
LEMMA DieOK ==
  ASSUME HistoryInv, NEW ws \in SUBSET Worker, Die(ws), daemon' \in BOOLEAN
  PROVE  HistoryInv'
  <1>1. PICK h \in [Path -> Commit] : head' = h
    BY DEF Die
  <1>2. was' = [p \in Path |-> was[p] \cup {h[p]}]
    BY <1>1 DEF Die
  <1>3. TreesInv' /\ \A p \in Path : was[p] \subseteq was'[p]
    BY <1>1, <1>2 DEF HistoryInv, TreesInv
  <1>4. UNCHANGED <<github, deploys, rows, faults, overlapped>>
    BY DEF Die, tables
  <1>5. GithubInv' /\ DeploysInv' /\ Grows
    BY <1>3, <1>4, GithubStays DEF HistoryInv, DeploysInv, Grows
  <1>6. RowsInv'
    <2> SUFFICES ASSUME NEW i \in 1 .. Len(rows) PROVE RowSeen(rows[i], was')
      BY <1>4 DEF HistoryInv, RowsInv
    <2>1. rows[i] \in Row /\ RowSeen(rows[i], was)
      BY DEF HistoryInv, RowsInv
    <2>2. rows[i].path \in Path
      BY <2>1 DEF Row
    <2>3. QED
      BY <1>3, <2>1, <2>2 DEF RowSeen
  <1>7. CountsInv'
    BY <1>4, HistoryAssumption DEF HistoryInv, CountsInv, Die
  <1>8. LastInv'
    <2>1. last' \in {last, [last EXCEPT !.fate = "killed"]}
      BY DEF Die
    <2>2. QED
      BY <1>4, <2>1 DEF HistoryInv, LastInv
  <1>9. RunsInv'
    <2>1. ASSUME NEW v \in Worker
          PROVE  run'[v] \in Run /\ RunSeen(run'[v], Len(deploys), was')
      <3>1. run'[v] \in {run[v], NoRun}
        BY DEF Die
      <3>2. run[v] \in Run /\ RunSeen(run[v], Len(deploys), was) /\ Len(deploys) \in Nat
        BY DEF HistoryInv, RunsInv, DeploysInv
      <3>3. RunSeen(run[v], Len(deploys), was')
        BY <1>3, <3>2, RunSeenGrows
      <3>4. QED
        BY <3>1, <3>2, <3>3, NoRunOK
    <2>2. run' = [v \in Worker |-> run'[v]]
      BY DEF Die
    <2>3. QED
      BY <1>4, <2>1, <2>2 DEF RunsInv
  <1>10. QED
    BY <1>3, <1>5, <1>6, <1>7, <1>8, <1>9 DEF HistoryInv

LEMMA StartDaemonOK == HistoryInv /\ StartDaemon => HistoryInv'
  <1> SUFFICES ASSUME HistoryInv, StartDaemon PROVE HistoryInv'
    OBVIOUS
  <1>1. deploys \in Seq(DeployRow)
    BY DEF HistoryInv, DeploysInv
  <1>2. deploys' = [i \in 1 .. Len(deploys) |-> deploys'[i]]
        /\ \A i \in 1 .. Len(deploys) : deploys'[i] \in DeployRow
    <2>1. DOMAIN deploys = 1 .. Len(deploys)
      BY <1>1
    <2>2. deploys' = [i \in 1 .. Len(deploys) |-> deploys'[i]]
      BY <2>1 DEF StartDaemon
    <2>3. ASSUME NEW i \in 1 .. Len(deploys) PROVE deploys'[i] \in DeployRow
      <3>1. deploys[i] \in DeployRow
        BY <1>1
      <3>2. deploys'[i] \in {deploys[i], [deploys[i] EXCEPT !.status = "interrupted"]}
        BY <2>1 DEF StartDaemon
      <3>3. QED
        BY <3>1, <3>2 DEF DeployRow
    <2>4. QED
      BY <2>2, <2>3
  <1>3. deploys' \in Seq(DeployRow) /\ Len(deploys') = Len(deploys)
    BY <1>1, <1>2
  <1>4. DeploysInv'
    BY <1>3 DEF HistoryInv, DeploysInv
  <1>5. GithubInv' /\ TreesInv' /\ CountsInv'
    BY GithubStays, TreesStay, CountsStay DEF HistoryInv, StartDaemon
  <1>6. RowsInv' /\ LastInv' /\ RunsInv'
    BY <1>3 DEF HistoryInv, RowsInv, LastInv, RunsInv, StartDaemon, trees
  <1>7. QED
    BY <1>4, <1>5, <1>6 DEF HistoryInv

LEMMA PushOK ==
  ASSUME HistoryInv, NEW b \in Branch, Push(b)
  PROVE  HistoryInv'
  <1>1. pushed + 1 \in Commit
    BY HistoryAssumption DEF HistoryInv, GithubInv, Push, Commit
  <1>2. GithubInv'
    BY <1>1 DEF HistoryInv, GithubInv, Push
  <1>3. TreesInv' /\ CountsInv'
    BY TreesStay, CountsStay DEF HistoryInv, Push
  <1>4. DeploysInv' /\ RowsInv' /\ LastInv' /\ RunsInv'
    BY DEF HistoryInv, DeploysInv, RowsInv, LastInv, RunsInv, Push, tables, trees
  <1>5. QED
    BY <1>2, <1>3, <1>4 DEF HistoryInv

-----------------------------------------------------------------------------
(* The theorems. *)

LEMMA StepOK == HistoryInv /\ [Next]_vars => HistoryInv'
  <1> SUFFICES ASSUME HistoryInv, [Next]_vars PROVE HistoryInv'
    OBVIOUS
  <1>1. ASSUME NEW w \in Worker, Choosing(w) PROVE HistoryInv'
    BY <1>1, ListOK, RowsOK, PriorOK, StartRollbackOK, DeclineOK DEF Choosing
  <1>2. ASSUME NEW w \in Worker, Engine(w) PROVE HistoryInv'
    BY <1>2, EngineOK
  <1>3. ASSUME NEW w \in Worker, Recording(w) PROVE HistoryInv'
    BY <1>3, DeployPathInsertOK, InsertFailsOK, DeployFinishOK, FinishFailsOK DEF Recording
  <1>4. ASSUME NEW w \in Worker, KillCommand(w) PROVE HistoryInv'
    BY <1>4, DieOK DEF KillCommand, HistoryInv, LastInv
  <1>5. CASE KillDaemon
    <2> DEFINE ws == {w \in Worker : Busy(w) /\ run[w].kind = "push"}
    <2>1. ws \in SUBSET Worker /\ Die(ws) /\ daemon' \in BOOLEAN
      BY <1>5 DEF KillDaemon
    <2> HIDE DEF ws
    <2>2. QED
      BY <2>1, DieOK
  <1>6. CASE StartDaemon
    BY <1>6, StartDaemonOK
  <1>7. ASSUME NEW b \in Branch, Push(b) PROVE HistoryInv'
    BY <1>7, PushOK
  <1>8. ASSUME NEW w \in Worker, NEW b \in Branch, BeginPush(w, b) PROVE HistoryInv'
    BY <1>8, BeginPushOK
  <1>9. ASSUME NEW w \in Worker, NEW only \in Selections,
               BeginDeploy(w, only) \/ BeginRollback(w, only)
        PROVE  HistoryInv'
    BY <1>9, BeginDeployOK, BeginRollbackOK
  <1>10. CASE UNCHANGED vars
    <2>1. GithubInv' /\ TreesInv' /\ CountsInv'
      BY <1>10, GithubStays, TreesStay, CountsStay
        DEF HistoryInv, vars, github, trees, counts
    <2>2. DeploysInv' /\ RowsInv' /\ LastInv' /\ RunsInv'
      BY <1>10 DEF HistoryInv, DeploysInv, RowsInv, LastInv, RunsInv, vars
    <2>3. QED
      BY <2>1, <2>2 DEF HistoryInv
  <1>11. QED
    BY <1>1, <1>2, <1>3, <1>4, <1>5, <1>6, <1>7, <1>8, <1>9, <1>10 DEF Next

LEMMA HistoryInvariant == Spec => []HistoryInv
  <1>1. QED
    BY InitOK, StepOK, PTL DEF Spec

\* Trees, tables and runs keep their types; every run that has read or opened a deploy names
\* a row that exists, so nothing is recorded under an id without one (record, recordResult).
THEOREM TypeCorrect == Spec => []TypeOK
  <1>1. QED
    BY HistoryInvariant, InvImplies, PTL

\* A checkout's rollback target is a commit that checkout itself was on, however deploys,
\* recordings, kills and restarts fall (rollbackTargets, LastDeployPerPathIn).
THEOREM RollbacksStayHome == Spec => []TargetsWereHere
  <1>1. QED
    BY HistoryInvariant, InvImplies, PTL

-----------------------------------------------------------------------------
(* What a rollback undoes: the invariant. *)

Newly == RowsOf(Len(deploys))

Results(w) == {run[w].results[j] : j \in 1 .. Len(run[w].results)}

Quiet == \A w \in Worker : ~ Busy(w)

OnlyBusy(w) == \A v \in Worker : Busy(v) => v = w

\* p is where the newest deploy found it.
Still(p) == head[p] = last.before[p]

\* The results of a run are its own, and of paths it has visited.
Tidy(w) ==
    /\ \A r \in Results(w) : r.deploy = run[w].id
    /\ run[w].at \notin {"visit", "record"} => run[w].results = <<>>
    /\ At(w, "visit") => \A r \in Results(w) : r.path \notin run[w].todo

TidyInv ==
    /\ \A i \in 1 .. Len(rows) : rows[i].deploy <= Len(deploys)
    /\ \A w \in Worker : Tidy(w)

\* r says where the newest deploy found its checkout, or that it has not moved.
Faithful(r) == r.prev \in {None, last.before[r.path]} /\ (r.prev = None => Still(r.path))

\* The newest deploy, under way.
Clean(w) ==
    /\ Newest(w) /\ OnlyBusy(w)
    /\ \A r \in Results(w) : Faithful(r)
    /\ At(w, "scan") => \A p \in Path : Still(p)
    /\ At(w, "visit") => \A p \in run[w].todo : Still(p)
    /\ ~ At(w, "record") => Newly = {}
    /\ run[w].results = <<>> => ~ At(w, "record") \/ Newly # {}

\* A checkout that has moved has its row, or will have it.
Traced(p) ==
    \/ Still(p)
    \/ \E i \in Newly : rows[i].path = p
    \/ \E w \in Worker : Busy(w) /\ \E r \in Results(w) : r.path = p

\* The newest deploy is alone and has lost nothing.
InOrder ==
    /\ \A i \in Newly : Faithful(rows[i])
    /\ Quiet => Newly # {}
    /\ \A w \in Worker : Busy(w) => Clean(w)
    /\ \A p \in Path : Traced(p)

CleanInv == last.fate = "clean" => InOrder

\* The commit that the rows know p to be on is the one it is on, or there is a newer result.
Known(p) ==
    \/ LastSeen[p] \in {None, head[p]}
    \/ \E w \in Worker : Busy(w) /\ \E r \in Results(w) : r.path = p /\ r.new # None

\* Nothing has failed, and nobody was killed or has met another.
Untroubled == faults = 0 /\ kills = 0 /\ ~ overlapped

FoundThere == \A p \in Path : LastSeen[p] \in {None, last.before[p]}

\* r says where the newest deploy left its checkout.
Left(r) == IF r.new = None THEN Still(r.path) ELSE head[r.path] = r.new

NothingLost ==
    /\ last.fate = "clean" \/ (Len(deploys) = 0 /\ Quiet)
    /\ Newly = {} /\ Len(deploys) # 0 => FoundThere
    /\ \A w \in Worker : Busy(w) => \A r \in Results(w) : Left(r)
    /\ \A p \in Path : Known(p)

KnownInv == Untroubled => NothingLost

\* What is known of a deploy that was killed, where it is the only thing that went wrong.
KilledKnown ==
    /\ \A i \in Newly : rows[i].prev \in {None, last.before[rows[i].path]}
    /\ Newly = {} => FoundThere

KilledInv ==
    last.fate = "killed" =>
        /\ kills > 0 /\ Quiet
        /\ faults = 0 /\ kills = 1 /\ ~ overlapped => KilledKnown

\* A rollback with a promise that has not begun.
Choice(w) ==
    /\ run[w].at \in {"list", "rows", "prior", "start"} /\ Quiet
    /\ run[w].before = last.before
    /\ ~ At(w, "list") => Newest(w)
    /\ At(w, "prior") => Newly = {}
    /\ run[w].promise = "recorded" => last.fate = "clean" /\ ~ At(w, "prior")
    /\ run[w].promise = "killed" => KilledKnown

ChoosingInv == \A w \in Worker : run[w].promise # "none" /\ ~ Busy(w) => Choice(w)

\* A target is where the deploy found the checkout; one without is there already.
Target(w, p) ==
    /\ run[w].targets[p] \in {None, run[w].before[p]}
    /\ run[w].promise = "recorded" /\ run[w].targets[p] = None =>
         head[p] = run[w].before[p]

\* p has been brought back.
Back(w, p) ==
    \/ p \in run[w].failed
    \/ head[p] = run[w].before[p]
    \/ run[w].promise = "killed" /\ run[w].targets[p] = None

ToVisit(w, p) == At(w, "start") \/ At(w, "scan") \/ (At(w, "visit") /\ p \in run[w].todo)

Kept(w) ==
    /\ IsRollback(w)
    /\ Busy(w) => OnlyBusy(w)
    /\ \A p \in Scope(w) :
         /\ ToVisit(w, p) => Target(w, p)
         /\ Busy(w) /\ ~ ToVisit(w, p) => Back(w, p)

PromiseInv == \A w \in Worker : run[w].promise # "none" => Kept(w)

UndoInv ==
    /\ TidyInv /\ CleanInv /\ KnownInv /\ KilledInv /\ ChoosingInv /\ PromiseInv

\* It is strong enough.
LEMMA UndoImplies == HistoryInv /\ UndoInv => RecordedIsUndone /\ KilledIsUndone
  <1> SUFFICES ASSUME HistoryInv, UndoInv PROVE RecordedIsUndone /\ KilledIsUndone
    OBVIOUS
  <1>1. ASSUME NEW w \in Worker, RolledBack(w), run[w].promise # "none",
               NEW p \in Scope(w) \ run[w].failed
        PROVE  head[p] = run[w].before[p] \/ (run[w].promise = "killed" /\ run[w].targets[p] = None)
    <2>1. Busy(w) /\ ~ ToVisit(w, p)
      BY <1>1 DEF RolledBack, Busy, ToVisit, At
    <2>2. Back(w, p)
      BY <1>1, <2>1 DEF UndoInv, PromiseInv, Kept
    <2>3. QED
      BY <1>1, <2>2 DEF Back
  <1>2. RecordedIsUndone
    BY <1>1 DEF RecordedIsUndone
  <1>3. KilledIsUndone
    BY <1>1 DEF KilledIsUndone
  <1>4. QED
    BY <1>2, <1>3

LEMMA UndoInit == Init => UndoInv
  <1> SUFFICES ASSUME Init PROVE UndoInv
    OBVIOUS
  <1>1. ASSUME NEW w \in Worker PROVE run[w] = NoRun
    BY <1>1 DEF Init
  <1>2. rows = <<>> /\ Len(deploys) = 0 /\ Len(rows) = 0 /\ DOMAIN rows = {} /\ last.fate = "murky"
    BY DEF Init
  <1>3. Quiet
    BY <1>1 DEF Quiet, Busy, NoRun
  <1>4. \A w \in Worker : Results(w) = {}
    BY <1>1 DEF Results, NoRun
  <1>5. TidyInv
    BY <1>1, <1>2, <1>4 DEF TidyInv, Tidy, NoRun, At
  <1>6. CleanInv /\ KilledInv
    BY <1>2 DEF CleanInv, KilledInv
  <1>7. KnownInv
    <2>1. ASSUME NEW p \in Path PROVE LastSeen[p] = None
      BY <1>2 DEF LastSeen
    <2>2. QED
      BY <1>2, <1>3, <1>4, <2>1 DEF KnownInv, NothingLost, FoundThere, Known, Quiet
  <1>8. ChoosingInv /\ PromiseInv
    BY <1>1 DEF ChoosingInv, PromiseInv, NoRun
  <1>9. QED
    BY <1>5, <1>6, <1>7, <1>8 DEF UndoInv

-----------------------------------------------------------------------------
(* Where no run moves. *)

Settled == UNCHANGED <<head, rows, last, overlapped>> /\ Len(deploys') = Len(deploys)

LEMMA SettledWorld ==
  ASSUME Settled
  PROVE  /\ Newly' = Newly /\ LastSeen' = LastSeen
         /\ \A p : Still(p)' <=> Still(p)
         /\ \A r : Faithful(r)' <=> Faithful(r)
         /\ FoundThere' <=> FoundThere
         /\ KilledKnown' <=> KilledKnown
  <1>1. rows' = rows /\ head' = head /\ last' = last /\ Len(deploys') = Len(deploys)
    BY DEF Settled
  <1>2. Newly' = Newly
    BY <1>1 DEF Newly, RowsOf
  <1>3. LastSeen' = LastSeen
    BY <1>1 DEF LastSeen
  <1>4. \A p : Still(p)' <=> Still(p)
    BY <1>1 DEF Still
  <1>5. \A r : Faithful(r)' <=> Faithful(r)
    BY <1>1, <1>4 DEF Faithful
  <1>6. FoundThere' <=> FoundThere
    BY <1>1, <1>3 DEF FoundThere
  <1>7. KilledKnown' <=> KilledKnown
    BY <1>1, <1>2, <1>6 DEF KilledKnown
  <1>8. QED
    BY <1>2, <1>3, <1>4, <1>5, <1>6, <1>7

\* w goes on choosing, or gives up.
Chooses(w) ==
    /\ ~ Busy(w) /\ ~ Busy(w)' /\ run'[w].results = <<>>
    /\ run'[w].promise # "none" => Choice(w)' /\ Kept(w)'

LEMMA SettledStep ==
  ASSUME HistoryInv, UndoInv, Settled, faults' = faults, kills' \in {kills, kills + 1},
         \A v \in Worker : run'[v] = run[v] \/ Chooses(v)
  PROVE  UndoInv'
  <1>1. rows' = rows /\ head' = head /\ last' = last /\ Len(deploys') = Len(deploys)
        /\ overlapped' = overlapped
    BY DEF Settled
  <1>2. ASSUME NEW v \in Worker PROVE Busy(v)' <=> Busy(v)
    BY DEF Busy, Chooses
  <1>3. ASSUME NEW v \in Worker, Busy(v) PROVE run'[v] = run[v] /\ Results(v)' = Results(v)
    BY <1>3 DEF Chooses, Results
  <1>4. (Quiet' <=> Quiet) /\ \A v \in Worker : OnlyBusy(v)' <=> OnlyBusy(v)
    BY <1>2 DEF Quiet, OnlyBusy
  <1>5. TidyInv'
    <2>1. ASSUME NEW v \in Worker PROVE Tidy(v)'
      <3>1. CASE run'[v] = run[v]
        <4>1. Results(v)' = Results(v) /\ Tidy(v)
          BY <3>1 DEF Results, UndoInv, TidyInv
        <4>2. QED
          BY <3>1, <4>1 DEF Tidy, At
      <3>2. CASE Chooses(v)
        <4>1. Results(v)' = {}
          BY <3>2 DEF Results, Chooses
        <4>2. QED
          BY <3>2, <4>1 DEF Tidy, At, Chooses, Busy
      <3>3. QED
        BY <3>1, <3>2
    <2>2. QED
      BY <1>1, <2>1 DEF UndoInv, TidyInv
  <1>6. CleanInv'
    <2> SUFFICES ASSUME last.fate = "clean" PROVE InOrder'
      BY <1>1 DEF CleanInv
    <2>1. ASSUME NEW v \in Worker, Busy(v) PROVE Clean(v)'
      <3>1. Clean(v)
        BY <2>1 DEF UndoInv, CleanInv, InOrder
      <3>2. Newest(v)' <=> Newest(v)
        BY <1>1, <1>3, <2>1 DEF Newest
      <3>3. QED
        BY <1>3, <1>4, <2>1, <3>1, <3>2, SettledWorld DEF Clean, At
    <2>2. ASSUME NEW p \in Path PROVE Traced(p)'
      <3>1. Traced(p)
        BY DEF UndoInv, CleanInv, InOrder
      <3>2. QED
        BY <1>1, <1>2, <1>3, <3>1, SettledWorld DEF Traced
    <2>3. QED
      BY <1>1, <1>2, <1>4, <2>1, <2>2, SettledWorld DEF UndoInv, CleanInv, InOrder
  <1>7. KnownInv'
    <2>1. faults \in Nat /\ kills \in Nat
      BY HistoryAssumption DEF HistoryInv, CountsInv
    <2>2. Untroubled' => Untroubled
      BY <1>1, <2>1 DEF Untroubled
    <2>3. ASSUME NEW p \in Path, Known(p) PROVE Known(p)'
      BY <1>1, <1>2, <1>3, <2>3, SettledWorld DEF Known
    <2>4. SUFFICES ASSUME NothingLost PROVE NothingLost'
      BY <2>2 DEF UndoInv, KnownInv
    <2>5. ASSUME NEW v \in Worker, Busy(v)' PROVE \A r \in Results(v)' : Left(r)'
      <3>1. Busy(v) /\ Results(v)' = Results(v)
        BY <1>2, <1>3, <2>5
      <3>2. QED
        BY <1>1, <2>4, <3>1, SettledWorld DEF NothingLost, Left
    <2>6. last'.fate = "clean" \/ (Len(deploys') = 0 /\ Quiet')
      BY <1>1, <1>4, <2>4 DEF NothingLost
    <2>7. Newly' = {} /\ Len(deploys') # 0 => FoundThere'
      BY <1>1, <2>4, SettledWorld DEF NothingLost
    <2>8. \A p \in Path : Known(p)'
      BY <2>3, <2>4 DEF NothingLost
    <2>9. QED
      BY <2>5, <2>6, <2>7, <2>8 DEF NothingLost
  <1>8. KilledInv'
    <2>1. faults \in Nat /\ kills \in Nat
      BY HistoryAssumption DEF HistoryInv, CountsInv
    <2>2. QED
      BY <1>1, <1>4, <2>1, SettledWorld DEF UndoInv, KilledInv
  <1>9. ChoosingInv'
    <2> SUFFICES ASSUME NEW v \in Worker, run'[v].promise # "none", ~ Busy(v)'
                 PROVE  Choice(v)'
      BY DEF ChoosingInv
    <2>1. CASE run'[v] = run[v]
      <3>1. Choice(v)
        BY <1>2, <2>1 DEF UndoInv, ChoosingInv
      <3>2. QED
        BY <1>1, <1>4, <2>1, <3>1, SettledWorld DEF Choice, At, Newest
    <2>2. QED
      BY <2>1 DEF Chooses
  <1>10. PromiseInv'
    <2> SUFFICES ASSUME NEW v \in Worker, run'[v].promise # "none" PROVE Kept(v)'
      BY DEF PromiseInv
    <2>1. CASE run'[v] = run[v]
      <3>1. Kept(v)
        BY <2>1 DEF UndoInv, PromiseInv
      <3>2. Scope(v)' = Scope(v)
        BY <2>1 DEF Scope
      <3>3. ASSUME NEW p \in Scope(v)
            PROVE  /\ ToVisit(v, p)' <=> ToVisit(v, p)
                   /\ Target(v, p)' <=> Target(v, p)
                   /\ Back(v, p)' <=> Back(v, p)
        BY <1>1, <2>1 DEF ToVisit, Target, Back, At
      <3>4. QED
        BY <1>2, <1>4, <2>1, <3>1, <3>2, <3>3 DEF Kept, IsRollback
    <2>2. QED
      BY <2>1 DEF Chooses
  <1>11. QED
    BY <1>5, <1>6, <1>7, <1>8, <1>9, <1>10 DEF UndoInv

LEMMA NoRunChooses ==
  ASSUME NEW w \in Worker, ~ Busy(w), run' = [run EXCEPT ![w] = NoRun], HistoryInv
  PROVE  Chooses(w) /\ \A v \in Worker \ {w} : run'[v] = run[v]
  <1>1. run'[w] = NoRun /\ \A v \in Worker \ {w} : run'[v] = run[v]
    BY DEF HistoryInv, RunsInv
  <1>2. QED
    BY <1>1 DEF Chooses, Busy, NoRun

\* The frame of List, Rows, Prior, Decline and BeginRollback.
LEMMA ChoosingStep ==
  ASSUME HistoryInv, UndoInv, NEW w \in Worker, Chooses(w),
         \A v \in Worker \ {w} : run'[v] = run[v],
         UNCHANGED <<github, trees, tables, daemon, counts, last, overlapped>>
  PROVE  UndoInv'
  <1>1. Settled /\ faults' = faults /\ kills' = kills
    BY DEF Settled, trees, tables, counts
  <1>2. QED
    BY <1>1, SettledStep

LEMMA BeginRollbackUndo ==
  ASSUME HistoryInv, UndoInv, NEW w \in Worker, NEW only \in Selections, BeginRollback(w, only)
  PROVE  UndoInv'
  <1> DEFINE r == [NoRun EXCEPT !.at = "list", !.kind = "rollback", !.only = only,
                                !.promise = Promise, !.before = last.before]
  <1>1. run'[w] = r /\ \A v \in Worker \ {w} : run'[v] = run[v]
    BY DEF BeginRollback, HistoryInv, RunsInv
  <1>2. r.at = "list" /\ r.kind = "rollback" /\ r.promise = Promise /\ r.before = last.before
        /\ r.results = <<>>
    BY DEF NoRun
  <1> HIDE DEF r
  <1>3. ~ Busy(w) /\ ~ Busy(w)'
    BY <1>1, <1>2 DEF BeginRollback, Busy, At
  <1>4. Settled
    BY DEF BeginRollback, Settled, trees, tables
  <1>5. ASSUME Promise # "none" PROVE Choice(w)' /\ Kept(w)'
    <2>1. Quiet
      <3>1. (\E v \in Worker : Busy(v)) => Promise = "none"
        BY DEF Promise
      <3>2. QED
        BY <1>5, <3>1 DEF Quiet
    <2>2. Quiet'
      BY <1>1, <1>3, <2>1 DEF Quiet, Busy
    <2>3. Promise = "recorded" => last.fate = "clean"
      BY DEF Promise
    <2>4. Promise = "killed" => KilledKnown'
      BY <1>4, SettledWorld DEF Promise, UndoInv, KilledInv
    <2>5. last' = last
      BY <1>4 DEF Settled
    <2>6. Choice(w)'
      BY <1>1, <1>2, <2>2, <2>3, <2>4, <2>5 DEF Choice, At
    <2>7. Kept(w)'
      BY <1>1, <1>2, <1>3 DEF Kept, IsRollback, ToVisit, At
    <2>8. QED
      BY <2>6, <2>7
  <1>6. Chooses(w)
    BY <1>1, <1>2, <1>3, <1>5 DEF Chooses
  <1>7. QED
    BY <1>1, <1>6, ChoosingStep DEF BeginRollback

LEMMA ListUndo ==
  ASSUME HistoryInv, UndoInv, NEW w \in Worker, List(w)
  PROVE  UndoInv'
  <1> DEFINE r == [run[w] EXCEPT !.at = "rows", !.id = Len(deploys),
                          !.left = deploys # <<>>
                            /\ deploys[Len(deploys)].status \in {"running", "interrupted"}]
  <1>1. ~ Busy(w) /\ run[w].at = "list" /\ run[w] \in Run
    BY DEF List, At, Busy, HistoryInv, RunsInv
  <1>2. CASE run' = [run EXCEPT ![w] = NoRun]
    BY <1>1, <1>2, NoRunChooses, ChoosingStep DEF List
  <1>3. CASE run' = [run EXCEPT ![w] = r]
    <2>1. run'[w] = r /\ \A v \in Worker \ {w} : run'[v] = run[v]
      BY <1>3 DEF HistoryInv, RunsInv
    <2>2. /\ r.at = "rows" /\ r.id = Len(deploys) /\ r.kind = run[w].kind
          /\ r.promise = run[w].promise /\ r.before = run[w].before /\ r.results = run[w].results
      BY <1>1 DEF Run
    <2> HIDE DEF r
    <2>3. ~ Busy(w)' /\ r.results = <<>>
      BY <1>1, <2>1, <2>2 DEF Busy, UndoInv, TidyInv, Tidy
    <2>4. Settled
      BY DEF List, Settled, trees, tables
    <2>5. ASSUME run[w].promise # "none" PROVE Choice(w)' /\ Kept(w)'
      <3>1. Choice(w) /\ Kept(w)
        BY <1>1, <2>5 DEF UndoInv, ChoosingInv, PromiseInv
      <3>2. Quiet'
        BY <2>1, <2>3, <3>1 DEF Choice, Quiet, Busy
      <3>3. last' = last /\ Len(deploys') = Len(deploys)
        BY <2>4 DEF Settled
      <3>4. Choice(w)'
        BY <2>1, <2>2, <2>4, <3>1, <3>2, <3>3, SettledWorld DEF Choice, At, Newest
      <3>5. Kept(w)'
        BY <2>1, <2>2, <2>3, <3>1 DEF Kept, IsRollback, ToVisit, At
      <3>6. QED
        BY <3>4, <3>5
    <2>6. Chooses(w)
      BY <1>1, <2>1, <2>2, <2>3, <2>5 DEF Chooses
    <2>7. QED
      BY <2>1, <2>6, ChoosingStep DEF List
  <1>4. QED
    BY <1>2, <1>3 DEF List

LEMMA DeclineUndo ==
  ASSUME HistoryInv, UndoInv, NEW w \in Worker, Decline(w)
  PROVE  UndoInv'
  <1>1. ~ Busy(w)
    BY DEF Decline, At, Busy
  <1>2. QED
    BY <1>1, NoRunChooses, ChoosingStep DEF Decline

LEMMA ResolveUndo ==
  ASSUME HistoryInv, UndoInv, NEW w \in Worker, run[w].at \in {"rows", "prior"},
         NEW targets, Resolve(w, targets),
         run[w].promise # "none" => \A p \in Path :
            /\ targets[p] \in {None, last.before[p]}
            /\ run[w].promise = "recorded" /\ targets[p] = None => Still(p),
         UNCHANGED <<github, trees, tables, daemon, counts, last, overlapped>>
  PROVE  UndoInv'
  <1> DEFINE wanted == [p \in Path |-> IF p \in Scope(w) THEN targets[p] ELSE None]
             r == [run[w] EXCEPT !.at = "start", !.targets = wanted]
  <1>1. ~ Busy(w) /\ run[w] \in Run
    BY DEF Busy, HistoryInv, RunsInv
  <1>2. run' = [run EXCEPT ![w] = NoRun] \/ run' = [run EXCEPT ![w] = r]
    BY DEF Resolve
  <1>3. CASE run' = [run EXCEPT ![w] = NoRun]
    BY <1>1, <1>3, NoRunChooses, ChoosingStep
  <1>4. CASE run' = [run EXCEPT ![w] = r]
    <2>1. run'[w] = r /\ \A v \in Worker \ {w} : run'[v] = run[v]
      BY <1>4 DEF HistoryInv, RunsInv
    <2> HIDE DEF wanted
    <2>2. /\ r.at = "start" /\ r.targets = wanted /\ r.kind = run[w].kind /\ r.id = run[w].id
          /\ r.promise = run[w].promise /\ r.before = run[w].before /\ r.results = run[w].results
          /\ r.only = run[w].only
      BY <1>1 DEF Run
    <2> HIDE DEF r
    <2>3. ~ Busy(w)' /\ r.results = <<>>
      BY <2>1, <2>2 DEF Busy, UndoInv, TidyInv, Tidy
    <2>4. Settled
      BY DEF Settled, trees, tables
    <2>5. ASSUME run[w].promise # "none" PROVE Choice(w)' /\ Kept(w)'
      <3>1. Choice(w) /\ Kept(w)
        BY <1>1, <2>5 DEF UndoInv, ChoosingInv, PromiseInv
      <3>2. Quiet'
        BY <2>1, <2>3, <3>1 DEF Choice, Quiet, Busy
      <3>3. last' = last /\ Len(deploys') = Len(deploys) /\ head' = head
        BY <2>4 DEF Settled
      <3>4. Choice(w)'
        BY <2>1, <2>2, <2>4, <3>1, <3>2, <3>3, SettledWorld DEF Choice, At, Newest
      <3>5. Scope(w)' = Scope(w) /\ Scope(w) \subseteq Path
        BY <1>1, <2>1, <2>2 DEF Scope, Run
      <3>6. ASSUME NEW p \in Scope(w) PROVE Target(w, p)'
        <4>1. p \in Path /\ wanted[p] = targets[p]
          BY <3>5 DEF wanted
        <4>2. run'[w].targets[p] = targets[p] /\ run'[w].before[p] = last.before[p]
              /\ run'[w].promise = run[w].promise
          BY <2>1, <2>2, <3>1, <4>1 DEF Choice
        <4>3. QED
          BY <2>5, <3>3, <4>1, <4>2 DEF Target, Still
      <3>7. Kept(w)'
        BY <2>1, <2>2, <2>3, <3>1, <3>5, <3>6 DEF Kept, IsRollback
      <3>8. QED
        BY <3>4, <3>7
    <2>6. Chooses(w)
      BY <1>1, <2>1, <2>2, <2>3, <2>5 DEF Chooses
    <2>7. QED
      BY <2>1, <2>6, ChoosingStep
  <1>5. QED
    BY <1>2, <1>3, <1>4

LEMMA RowsUndo ==
  ASSUME HistoryInv, UndoInv, NEW w \in Worker, Rows(w)
  PROVE  UndoInv'
  <1>1. run[w].at = "rows" /\ ~ Busy(w) /\ run[w] \in Run
    BY DEF Rows, At, Busy, HistoryInv, RunsInv
  <1>2. run[w].promise # "none" => Choice(w) /\ Kept(w)
    BY <1>1 DEF UndoInv, ChoosingInv, PromiseInv
  <1>3. CASE RowsOf(run[w].id) # {}
    <2> DEFINE found == FoundBy(run[w].id)
    <2>1. ASSUME run[w].promise # "none", NEW p \in Path
          PROVE  /\ found[p] \in {None, last.before[p]}
                 /\ run[w].promise = "recorded" /\ found[p] = None => Still(p)
      <3>1. RowsOf(run[w].id) = Newly
        BY <1>1, <1>2, <2>1 DEF Choice, At, Newest, Newly
      <3>2. Quiet /\ (run[w].promise = "recorded" => InOrder)
        BY <1>2, <2>1 DEF Choice, UndoInv, CleanInv
      <3>3. CASE \E i \in Newly : rows[i].path = p
        <4> DEFINE i == CHOOSE j \in Newly : rows[j].path = p
        <4>1. i \in Newly /\ rows[i].path = p
          BY <3>3
        <4>2. found[p] = rows[i].prev
          BY <3>1, <3>3 DEF FoundBy
        <4> HIDE DEF i, found
        <4>3. run[w].promise = "recorded" => Faithful(rows[i])
          BY <3>2, <4>1 DEF InOrder
        <4>4. run[w].promise = "killed" => rows[i].prev \in {None, last.before[p]}
          BY <1>2, <4>1 DEF Choice, KilledKnown
        <4>5. run[w].promise \in {"recorded", "killed"}
          BY <1>1, <2>1 DEF Run
        <4>6. QED
          BY <4>1, <4>2, <4>3, <4>4, <4>5 DEF Faithful
      <3>4. CASE ~ \E i \in Newly : rows[i].path = p
        <4>1. found[p] = None
          BY <3>1, <3>4 DEF FoundBy
        <4>2. run[w].promise = "recorded" => Still(p)
          BY <3>2, <3>4 DEF InOrder, Traced, Quiet
        <4>3. QED
          BY <4>1, <4>2
      <3>5. QED
        BY <3>3, <3>4
    <2>2. Resolve(w, found)
      BY <1>3 DEF Rows
    <2> HIDE DEF found
    <2>3. QED
      BY <1>1, <2>1, <2>2, ResolveUndo DEF Rows
  <1>4. CASE RowsOf(run[w].id) = {} /\ run' = [run EXCEPT ![w] = NoRun]
    BY <1>1, <1>4, NoRunChooses, ChoosingStep DEF Rows
  <1>5. CASE RowsOf(run[w].id) = {} /\ run' = [run EXCEPT ![w] = [run[w] EXCEPT !.at = "prior"]]
    <2> DEFINE r == [run[w] EXCEPT !.at = "prior"]
    <2>1. run'[w] = r /\ \A v \in Worker \ {w} : run'[v] = run[v]
      BY <1>5 DEF HistoryInv, RunsInv
    <2>2. /\ r.at = "prior" /\ r.kind = run[w].kind /\ r.id = run[w].id
          /\ r.promise = run[w].promise /\ r.before = run[w].before /\ r.results = run[w].results
      BY <1>1 DEF Run
    <2> HIDE DEF r
    <2>3. ~ Busy(w)' /\ r.results = <<>>
      BY <1>1, <2>1, <2>2 DEF Busy, UndoInv, TidyInv, Tidy
    <2>4. Settled
      BY DEF Rows, Settled, trees, tables
    <2>5. ASSUME run[w].promise # "none" PROVE Choice(w)' /\ Kept(w)'
      <3>1. Newly = {}
        BY <1>1, <1>2, <1>5, <2>5 DEF Choice, At, Newest, Newly
      <3>2. run[w].promise # "recorded"
        BY <1>2, <2>5, <3>1 DEF Choice, UndoInv, CleanInv, InOrder
      <3>3. Quiet'
        BY <1>2, <2>1, <2>3, <2>5 DEF Choice, Quiet, Busy
      <3>4. last' = last /\ Len(deploys') = Len(deploys)
        BY <2>4 DEF Settled
      <3>5. Choice(w)'
        BY <1>1, <1>2, <2>1, <2>2, <2>4, <2>5, <3>1, <3>2, <3>3, <3>4, SettledWorld
          DEF Choice, At, Newest
      <3>6. Kept(w)'
        BY <1>2, <2>1, <2>2, <2>3, <2>5 DEF Kept, IsRollback, ToVisit, At
      <3>7. QED
        BY <3>5, <3>6
    <2>6. Chooses(w)
      BY <1>1, <2>1, <2>2, <2>3, <2>5 DEF Chooses
    <2>7. QED
      BY <2>1, <2>6, ChoosingStep DEF Rows
  <1>6. QED
    BY <1>3, <1>4, <1>5 DEF Rows

LEMMA PriorUndo ==
  ASSUME HistoryInv, UndoInv, NEW w \in Worker, Prior(w)
  PROVE  UndoInv'
  <1>1. run[w].at = "prior" /\ ~ Busy(w) /\ run[w] \in Run
    BY DEF Prior, At, Busy, HistoryInv, RunsInv
  <1>2. ASSUME run[w].promise # "none", NEW p \in Path
        PROVE  LastSeen[p] \in {None, last.before[p]} /\ run[w].promise # "recorded"
    <2>1. Choice(w) /\ run[w].promise \in {"recorded", "killed"}
      BY <1>1, <1>2 DEF UndoInv, ChoosingInv, Run
    <2>2. QED
      BY <1>1, <2>1 DEF Choice, At, KilledKnown, FoundThere
  <1>3. QED
    BY <1>1, <1>2, ResolveUndo DEF Prior

-----------------------------------------------------------------------------
(* Processes and GitHub. *)

LEMMA StartDaemonUndo ==
  ASSUME HistoryInv, UndoInv, StartDaemon
  PROVE  UndoInv'
  <1>1. deploys \in Seq(DeployRow)
    BY DEF HistoryInv, DeploysInv
  <1>2. \E n \in Nat : DOMAIN deploys' = 1 .. n /\ DOMAIN deploys = 1 .. n
    BY <1>1 DEF StartDaemon
  <1>3. Len(deploys') = Len(deploys)
    BY <1>2
  <1>4. Settled /\ UNCHANGED <<run, faults, kills>>
    BY <1>3 DEF StartDaemon, Settled, trees, counts
  <1>5. QED
    BY <1>4, SettledStep

LEMMA PushUndo ==
  ASSUME HistoryInv, UndoInv, NEW b \in Branch, Push(b)
  PROVE  UndoInv'
  <1>1. Settled /\ UNCHANGED <<run, faults, kills>>
    BY DEF Push, Settled, trees, tables, counts
  <1>2. QED
    BY <1>1, SettledStep

\* A process that was doing nothing dies.
LEMMA NobodyDies ==
  ASSUME HistoryInv, UndoInv, Die({})
  PROVE  UndoInv'
  <1>1. \A v \in Worker : run'[v] = run[v]
    BY DEF Die
  <1>2. head' = head
    <2>1. PICK h \in [Path -> Commit] : head' = h /\ \A p \in Path : h[p] \in LeftBy({}, p)
      BY DEF Die
    <2>2. \A p \in Path : LeftBy({}, p) = {head[p]}
      BY DEF LeftBy
    <2>3. head \in [Path -> Commit] /\ \A p \in Path : h[p] = head[p]
      BY <2>1, <2>2 DEF HistoryInv, TreesInv
    <2>4. QED
      BY <2>1, <2>3
  <1>3. last' = last
    BY DEF Die
  <1>4. Settled /\ faults' = faults /\ kills' = kills + 1
    BY <1>2, <1>3 DEF Die, Settled, tables
  <1>5. QED
    BY <1>1, <1>4, SettledStep

LEMMA DieUndo ==
  ASSUME HistoryInv, UndoInv, NEW ws \in SUBSET Worker, Die(ws), ws # {},
         \A w \in ws : Busy(w)
  PROVE  UndoInv'
  <1>1. rows' = rows /\ deploys' = deploys /\ faults' = faults /\ overlapped' = overlapped
        /\ kills' = kills + 1 /\ last'.before = last.before
    <2>1. last \in [fate : {"clean", "killed", "murky"}, before : [Path -> Commit]]
      BY DEF HistoryInv, LastInv
    <2>2. QED
      BY <2>1 DEF Die, tables
  <1>2. faults \in Nat /\ kills \in Nat
    BY HistoryAssumption DEF HistoryInv, CountsInv
  <1>3. ASSUME NEW v \in Worker PROVE run'[v] = IF v \in ws THEN NoRun ELSE run[v]
    BY DEF Die
  <1>4. PICK u \in ws : u \in Worker /\ Busy(u)
    OBVIOUS
  <1>5. ASSUME NEW v \in Worker PROVE run'[v].promise = "none"
    <2>1. CASE v \in ws
      BY <1>3, <2>1 DEF NoRun
    <2>2. CASE v \notin ws /\ run[v].promise # "none"
      <3>1. Kept(v)
        BY <2>2 DEF UndoInv, PromiseInv
      <3>2. Busy(v) \/ Choice(v)
        BY <2>2 DEF UndoInv, ChoosingInv
      <3>3. QED
        BY <1>4, <2>2, <3>1, <3>2 DEF Choice, Quiet, Kept, OnlyBusy
    <2>3. QED
      BY <1>3, <2>1, <2>2
  <1>6. TidyInv'
    <2>1. ASSUME NEW v \in Worker PROVE Tidy(v)'
      <3>1. CASE v \in ws
        <4>1. Results(v)' = {}
          BY <1>3, <3>1 DEF Results, NoRun
        <4>2. QED
          BY <1>3, <3>1, <4>1 DEF Tidy, NoRun, At
      <3>2. CASE v \notin ws
        <4>1. run'[v] = run[v] /\ Results(v)' = Results(v) /\ Tidy(v)
          BY <1>3, <3>2 DEF Results, UndoInv, TidyInv
        <4>2. QED
          BY <4>1 DEF Tidy, At
      <3>3. QED
        BY <3>1, <3>2
    <2>2. QED
      BY <1>1, <2>1 DEF UndoInv, TidyInv
  <1>7. KnownInv'
    BY <1>1, <1>2 DEF KnownInv, Untroubled
  <1>8. ChoosingInv' /\ PromiseInv'
    BY <1>5 DEF ChoosingInv, PromiseInv
  <1>9. last.fate # "killed"
    BY <1>4 DEF UndoInv, KilledInv, Quiet
  <1>10. CASE last.fate = "clean"
    <2>1. InOrder /\ Clean(u)
      BY <1>4, <1>10 DEF UndoInv, CleanInv, InOrder
    <2>2. last'.fate = "killed"
      <3>1. \E w \in ws : Newest(w)
        BY <1>4, <2>1 DEF Clean
      <3>2. last \in [fate : {"clean", "killed", "murky"}, before : [Path -> Commit]]
        BY DEF HistoryInv, LastInv
      <3>3. QED
        BY <1>10, <3>1, <3>2 DEF Die
    <2>3. Quiet'
      <3>1. ASSUME NEW v \in Worker PROVE ~ Busy(v)'
        BY <1>3, <1>4, <2>1 DEF Busy, Clean, OnlyBusy, NoRun
      <3>2. QED
        BY <3>1 DEF Quiet
    <2>4. ASSUME faults = 0, kills' = 1, ~ overlapped PROVE KilledKnown'
      <3>1. NothingLost
        BY <1>1, <1>2, <2>4 DEF UndoInv, KnownInv, Untroubled
      <3>2. Len(deploys) # 0
        BY <1>4 DEF HistoryInv, RunsInv, RunSeen, Busy
      <3>3. Newly' = Newly /\ LastSeen' = LastSeen
        BY <1>1 DEF Newly, RowsOf, LastSeen
      <3>4. QED
        BY <1>1, <2>1, <3>1, <3>2, <3>3
          DEF KilledKnown, InOrder, Faithful, NothingLost, FoundThere
    <2>5. KilledInv'
      BY <1>1, <1>2, <2>3, <2>4 DEF KilledInv
    <2>6. CleanInv'
      BY <2>2 DEF CleanInv
    <2>7. QED
      BY <1>6, <1>7, <1>8, <2>5, <2>6 DEF UndoInv
  <1>11. CASE last.fate # "clean"
    <2>1. last' = last
      BY <1>11 DEF Die
    <2>2. QED
      BY <1>6, <1>7, <1>8, <1>9, <1>11, <2>1 DEF UndoInv, CleanInv, KilledInv
  <1>12. QED
    BY <1>10, <1>11

-----------------------------------------------------------------------------
(* A run begins. *)

LEMMA DeployStartUndo ==
  ASSUME HistoryInv, UndoInv, NEW w \in Worker, NEW by, NEW job \in Run, ~ Busy(w),
         job.results = <<>>, DeployStart(w, by, job),
         job.promise # "none" => At(w, "start") /\ job = run[w]
  PROVE  UndoInv'
  <1> DEFINE alone == \A v \in Worker \ {w} : ~ Busy(v)
             mine == [job EXCEPT !.at = "scan", !.id = Len(deploys) + 1]
  <1>1. deploys \in Seq(DeployRow) /\ rows \in Seq(Row) /\ Len(deploys) \in Nat
    BY DEF HistoryInv, DeploysInv, RowsInv
  <1>2. rows' = rows /\ head' = head /\ Len(deploys') = Len(deploys) + 1
        /\ faults' = faults /\ kills' = kills
    BY <1>1 DEF DeployStart, trees, counts
  <1>3. /\ overlapped' = (overlapped \/ ~ alone)
        /\ last'.fate = (IF alone THEN "clean" ELSE "murky") /\ last'.before = head
    BY DEF DeployStart
  <1>4. run'[w] = mine
    BY DEF DeployStart
  <1>5. /\ mine.at = "scan" /\ mine.id = Len(deploys) + 1 /\ mine.results = <<>>
        /\ mine.promise = job.promise /\ mine.kind = job.kind /\ mine.only = job.only
        /\ mine.targets = job.targets /\ mine.before = job.before
    BY DEF Run
  <1> HIDE DEF mine
  <1>6. ASSUME NEW v \in Worker \ {w}
        PROVE  run'[v] = [run[v] EXCEPT !.promise = "none"] /\ run[v] \in Run
    BY DEF DeployStart, HistoryInv, RunsInv
  <1>7. ASSUME NEW v \in Worker \ {w}
        PROVE  /\ run'[v].at = run[v].at /\ run'[v].promise = "none" /\ run'[v].id = run[v].id
               /\ run'[v].results = run[v].results /\ run'[v].todo = run[v].todo
    <2> DEFINE other == [run[v] EXCEPT !.promise = "none"]
    <2>1. /\ other.at = run[v].at /\ other.promise = "none" /\ other.id = run[v].id
          /\ other.results = run[v].results /\ other.todo = run[v].todo
      BY <1>6 DEF Run
    <2>2. run'[v] = other
      BY <1>6
    <2> HIDE DEF other
    <2>3. QED
      BY <2>1, <2>2
  <1>8. Busy(w)' /\ At(w, "scan")' /\ Results(w)' = {}
    BY <1>4, <1>5 DEF Busy, At, Results
  <1>9. ASSUME NEW v \in Worker \ {w} PROVE (Busy(v)' <=> Busy(v)) /\ Results(v)' = Results(v)
    BY <1>7 DEF Busy, Results
  <1>10. Newly' = {}
    <2>1. ASSUME NEW i \in 1 .. Len(rows) PROVE rows[i].deploy # Len(deploys) + 1
      <3>1. rows[i].deploy <= Len(deploys) /\ rows[i] \in Row
        BY <1>1 DEF UndoInv, TidyInv
      <3>2. rows[i].deploy \in Nat
        BY <3>1, HistoryAssumption DEF Row
      <3>3. QED
        BY <1>1, <3>1, <3>2
    <2>2. DOMAIN rows = 1 .. Len(rows)
      BY <1>1
    <2>3. QED
      BY <1>2, <2>1, <2>2 DEF Newly, RowsOf
  <1>11. TidyInv'
    <2>1. ASSUME NEW v \in Worker PROVE Tidy(v)'
      <3>1. CASE v = w
        BY <1>4, <1>5, <1>8, <3>1 DEF Tidy, At
      <3>2. CASE v # w
        <4>1. Tidy(v)
          BY DEF UndoInv, TidyInv
        <4>2. QED
          BY <1>7, <1>9, <3>2, <4>1 DEF Tidy, At
      <3>3. QED
        BY <3>1, <3>2
    <2>2. ASSUME NEW i \in 1 .. Len(rows) PROVE rows[i].deploy <= Len(deploys) + 1
      <3>1. rows[i].deploy <= Len(deploys) /\ rows[i] \in Row
        BY <1>1 DEF UndoInv, TidyInv
      <3>2. rows[i].deploy \in Nat
        BY <3>1, HistoryAssumption DEF Row
      <3>3. QED
        BY <1>1, <3>1, <3>2
    <2>3. QED
      BY <1>2, <2>1, <2>2 DEF TidyInv
  <1>12. alone => OnlyBusy(w)'
    BY <1>9 DEF OnlyBusy
  <1>13. \A p \in Path : Still(p)'
    BY <1>2, <1>3 DEF Still
  <1>14. CleanInv'
    <2> SUFFICES ASSUME alone PROVE InOrder'
      BY <1>3 DEF CleanInv
    <2>1. Newest(w)'
      BY <1>2, <1>4, <1>5 DEF Newest
    <2>2. Clean(w)'
      BY <1>4, <1>5, <1>8, <1>10, <1>12, <1>13, <2>1 DEF Clean, At
    <2>3. \A v \in Worker : Busy(v)' => Clean(v)'
      BY <1>12, <2>2 DEF OnlyBusy
    <2>4. ~ Quiet'
      BY <1>8 DEF Quiet
    <2>5. QED
      BY <1>10, <1>13, <2>3, <2>4 DEF InOrder, Traced
  <1>15. KnownInv'
    <2> SUFFICES ASSUME Untroubled' PROVE NothingLost'
      BY DEF KnownInv
    <2>1. alone /\ NothingLost
      BY <1>2, <1>3 DEF Untroubled, UndoInv, KnownInv
    <2>2. \A v \in Worker : ~ Busy(v)
      BY <2>1
    <2>3. \A p \in Path : LastSeen[p] \in {None, head[p]}
      BY <2>1, <2>2 DEF NothingLost, Known
    <2>4. LastSeen' = LastSeen
      BY <1>2 DEF LastSeen
    <2>5. FoundThere' /\ \A p \in Path : Known(p)'
      BY <1>2, <1>3, <2>3, <2>4 DEF FoundThere, Known
    <2>6. \A v \in Worker : Busy(v)' => Results(v)' = {}
      BY <1>8, <1>12, <2>1 DEF OnlyBusy
    <2>7. QED
      BY <1>3, <2>1, <2>5, <2>6 DEF NothingLost
  <1>16. KilledInv'
    BY <1>3 DEF KilledInv
  <1>17. ChoosingInv'
    BY <1>7, <1>8 DEF ChoosingInv
  <1>18. PromiseInv'
    <2> SUFFICES ASSUME run'[w].promise # "none" PROVE Kept(w)'
      BY <1>7 DEF PromiseInv
    <2>1. job = run[w] /\ At(w, "start") /\ run[w].promise # "none"
      BY <1>4, <1>5
    <2>2. Kept(w) /\ Choice(w)
      BY <2>1 DEF UndoInv, PromiseInv, ChoosingInv
    <2>3. OnlyBusy(w)'
      BY <1>12, <2>2 DEF Choice, Quiet
    <2>4. Scope(w)' = Scope(w)
      BY <1>4, <1>5, <2>1 DEF Scope
    <2>5. ASSUME NEW p \in Scope(w) PROVE Target(w, p)'
      <3>1. Target(w, p)
        BY <2>1, <2>2 DEF Kept, ToVisit
      <3>2. QED
        BY <1>2, <1>4, <1>5, <2>1, <3>1 DEF Target
    <2>6. \A p : ToVisit(w, p)'
      BY <1>8 DEF ToVisit
    <2>7. IsRollback(w)'
      BY <1>4, <1>5, <2>1, <2>2 DEF Kept, IsRollback
    <2>8. QED
      BY <2>3, <2>4, <2>5, <2>6, <2>7 DEF Kept
  <1>19. QED
    BY <1>11, <1>14, <1>15, <1>16, <1>17, <1>18 DEF UndoInv

LEMMA BeginPushUndo ==
  ASSUME HistoryInv, UndoInv, NEW w \in Worker, NEW b \in Branch, BeginPush(w, b)
  PROVE  UndoInv'
  <1> DEFINE job == [NoRun EXCEPT !.ref = b]
  <1>1. job \in Run /\ job.results = <<>> /\ job.promise = "none"
    <2>1. NoRun \in Run
      BY NoRunOK
    <2>2. job \in Run
      BY <2>1 DEF Run
    <2>3. QED
      BY <2>2 DEF NoRun
  <1>2. DeployStart(w, "push", job) /\ ~ Busy(w)
    BY DEF BeginPush, At, Busy
  <1> HIDE DEF job
  <1>3. QED
    BY <1>1, <1>2, DeployStartUndo

LEMMA BeginDeployUndo ==
  ASSUME HistoryInv, UndoInv, NEW w \in Worker, NEW only \in Selections, BeginDeploy(w, only)
  PROVE  UndoInv'
  <1> DEFINE job == [NoRun EXCEPT !.kind = "deploy", !.only = only]
  <1>1. job \in Run /\ job.results = <<>> /\ job.promise = "none"
    <2>1. NoRun \in Run /\ only \in Path \cup {None}
      BY NoRunOK, HistoryAssumption DEF None
    <2>2. job \in Run
      BY <2>1 DEF Run, Kind
    <2>3. QED
      BY <2>2 DEF NoRun
  <1>2. DeployStart(w, "hand", job) /\ ~ Busy(w)
    BY DEF BeginDeploy, At, Busy
  <1> HIDE DEF job
  <1>3. QED
    BY <1>1, <1>2, DeployStartUndo

LEMMA StartRollbackUndo ==
  ASSUME HistoryInv, UndoInv, NEW w \in Worker, StartRollback(w)
  PROVE  UndoInv'
  <1>1. run[w] \in Run /\ At(w, "start") /\ DeployStart(w, "hand", run[w]) /\ ~ Busy(w)
    BY DEF StartRollback, At, Busy, HistoryInv, RunsInv
  <1>2. run[w].results = <<>>
    BY <1>1 DEF UndoInv, TidyInv, Tidy, At
  <1>3. QED
    BY <1>1, <1>2, DeployStartUndo

-----------------------------------------------------------------------------
(* The engine. *)

\* Where a run is under way nobody else has a promise, and the newest deploy is not one that
\* was killed.
LEMMA BusyStep ==
  ASSUME UndoInv, NEW w \in Worker, Busy(w), \A v \in Worker \ {w} : run'[v] = run[v],
         \A i \in 1 .. Len(rows') : rows'[i].deploy <= Len(deploys'), Tidy(w)',
         last'.fate \in {last.fate, "murky"},
         run'[w].promise # "none" => Busy(w)' /\ Kept(w)'
  PROVE  TidyInv' /\ KilledInv' /\ ChoosingInv' /\ PromiseInv'
  <1>1. ASSUME NEW v \in Worker \ {w} PROVE run[v].promise = "none"
    <2> SUFFICES ASSUME run[v].promise # "none" PROVE FALSE
      OBVIOUS
    <2>1. Kept(v)
      BY DEF UndoInv, PromiseInv
    <2>2. Busy(v) \/ Choice(v)
      BY DEF UndoInv, ChoosingInv
    <2>3. QED
      BY <2>1, <2>2 DEF Kept, OnlyBusy, Choice, Quiet
  <1>2. ASSUME NEW v \in Worker \ {w} PROVE Tidy(v)'
    <2>1. Tidy(v) /\ run'[v] = run[v] /\ Results(v)' = Results(v)
      BY DEF UndoInv, TidyInv, Results
    <2>2. QED
      BY <2>1 DEF Tidy, At
  <1>3. TidyInv'
    BY <1>2 DEF TidyInv
  <1>4. KilledInv'
    BY DEF UndoInv, KilledInv, Quiet
  <1>5. ChoosingInv' /\ PromiseInv'
    BY <1>1 DEF ChoosingInv, PromiseInv
  <1>6. QED
    BY <1>3, <1>4, <1>5

LEMMA ScanUndo ==
  ASSUME HistoryInv, UndoInv, NEW w \in Worker, Scan(w)
  PROVE  UndoInv'
  <1> DEFINE r == [run[w] EXCEPT !.at = "visit", !.todo = Scope(w),
                                 !.errs = {p \in Scope(w) : head[p] \in broken}]
  <1>1. run[w] \in Run /\ At(w, "scan") /\ Busy(w)
    BY DEF Scan, HistoryInv, RunsInv, Busy, At
  <1>2. run' = [run EXCEPT ![w] = r]
    BY DEF Scan
  <1>3. run'[w] = r /\ \A v \in Worker \ {w} : run'[v] = run[v]
    BY <1>2 DEF HistoryInv, RunsInv
  <1>4. /\ r.at = "visit" /\ r.todo = Scope(w) /\ r.id = run[w].id /\ r.results = run[w].results
        /\ r.promise = run[w].promise /\ r.kind = run[w].kind /\ r.only = run[w].only
        /\ r.targets = run[w].targets /\ r.before = run[w].before
    BY <1>1 DEF Run
  <1> HIDE DEF r
  <1>5. Settled /\ faults' = faults /\ kills' = kills
    BY DEF Scan, Settled, trees, tables, counts
  <1>6. rows' = rows /\ head' = head /\ last' = last /\ Len(deploys') = Len(deploys)
        /\ overlapped' = overlapped
    BY <1>5 DEF Settled
  <1>7. \A v \in Worker : Busy(v)' <=> Busy(v)
    BY <1>1, <1>3, <1>4 DEF Busy
  <1>8. (Quiet' <=> Quiet) /\ \A v \in Worker : OnlyBusy(v)' <=> OnlyBusy(v)
    BY <1>7 DEF Quiet, OnlyBusy
  <1>9. run[w].results = <<>>
    BY <1>1 DEF UndoInv, TidyInv, Tidy, At
  <1>10. \A v \in Worker : Results(v)' = Results(v)
    BY <1>3, <1>4 DEF Results
  <1>11. Results(w) = {}
    BY <1>9 DEF Results
  <1>12. Scope(w)' = Scope(w) /\ Scope(w) \subseteq Path
    BY <1>1, <1>3, <1>4 DEF Scope, Run
  <1>13. CleanInv'
    <2> SUFFICES ASSUME last.fate = "clean" PROVE InOrder'
      BY <1>6 DEF CleanInv
    <2>1. InOrder /\ Clean(w)
      BY <1>1 DEF UndoInv, CleanInv, InOrder
    <2>2. \A v \in Worker : Busy(v)' => v = w
      BY <1>7, <2>1 DEF Clean, OnlyBusy
    <2>3. Clean(w)'
      BY <1>1, <1>3, <1>4, <1>6, <1>8, <1>9, <1>10, <1>11, <1>12, <2>1, SettledWorld, <1>5
        DEF Clean, Newest, At
    <2>4. ASSUME NEW p \in Path PROVE Traced(p)'
      BY <1>5, <1>6, <1>7, <1>10, <2>1, SettledWorld DEF Traced, InOrder
    <2>5. QED
      BY <1>5, <1>6, <1>8, <2>1, <2>2, <2>3, <2>4, SettledWorld DEF InOrder
  <1>14. KnownInv'
    <2> SUFFICES ASSUME Untroubled PROVE NothingLost'
      BY <1>5, <1>6 DEF KnownInv, Untroubled
    <2>1. NothingLost
      BY DEF UndoInv, KnownInv
    <2>2. \A p \in Path : Known(p)'
      BY <1>5, <1>6, <1>7, <1>10, <2>1, SettledWorld DEF Known, NothingLost
    <2>3. \A v \in Worker : Busy(v)' => \A x \in Results(v)' : Left(x)'
      BY <1>5, <1>6, <1>7, <1>10, <2>1, SettledWorld DEF Left, NothingLost
    <2>4. last'.fate = "clean" \/ (Len(deploys') = 0 /\ Quiet')
      BY <1>6, <1>8, <2>1 DEF NothingLost
    <2>5. Newly' = {} /\ Len(deploys') # 0 => FoundThere'
      BY <1>5, <1>6, <2>1, SettledWorld DEF NothingLost
    <2>6. QED
      BY <2>2, <2>3, <2>4, <2>5 DEF NothingLost
  <1>15. ASSUME run[w].promise # "none" PROVE Kept(w)'
    <2>1. Kept(w)
      BY <1>15 DEF UndoInv, PromiseInv
    <2>2. ASSUME NEW p \in Scope(w) PROVE ToVisit(w, p)' /\ Target(w, p)'
      <3>1. Target(w, p)
        BY <1>1, <2>1 DEF Kept, ToVisit
      <3>2. QED
        BY <1>3, <1>4, <1>6, <3>1 DEF ToVisit, Target, At
    <2>3. QED
      BY <1>3, <1>4, <1>7, <1>8, <1>12, <2>1, <2>2 DEF Kept, IsRollback
  <1>16. Tidy(w)'
    BY <1>3, <1>4, <1>9, <1>10, <1>11 DEF Tidy, At
  <1>17. TidyInv' /\ KilledInv' /\ ChoosingInv' /\ PromiseInv'
    <2>1. \A i \in 1 .. Len(rows') : rows'[i].deploy <= Len(deploys')
      BY <1>6 DEF UndoInv, TidyInv
    <2>2. QED
      BY <1>1, <1>3, <1>4, <1>6, <1>7, <1>15, <1>16, <2>1, BusyStep
  <1>18. QED
    BY <1>13, <1>14, <1>17 DEF UndoInv

LEMMA ResultsGrow ==
  ASSUME NEW w \in Worker, run[w].results \in Seq(Row), NEW x \in Row,
         run'[w].results = Append(run[w].results, x)
  PROVE  Results(w)' = Results(w) \cup {x} /\ run'[w].results # <<>>
  <1> DEFINE s == run[w].results
             t == Append(s, x)
  <1>1. Len(t) = Len(s) + 1 /\ Len(s) \in Nat
        /\ (\A i \in 1 .. Len(s) : t[i] = s[i]) /\ t[Len(s) + 1] = x /\ t # <<>>
    OBVIOUS
  <1> HIDE DEF t, s
  <1>2. {t[i] : i \in 1 .. Len(t)} = {s[i] : i \in 1 .. Len(s)} \cup {x}
    BY <1>1
  <1>3. Results(w)' = {t[i] : i \in 1 .. Len(t)} /\ Results(w) = {s[i] : i \in 1 .. Len(s)}
    BY DEF Results, s, t
  <1>4. QED
    BY <1>1, <1>2, <1>3 DEF t, s

LEMMA ResultsShrink ==
  ASSUME NEW w \in Worker, run[w].results \in Seq(Row), run[w].results # <<>>,
         run'[w].results = Tail(run[w].results)
  PROVE  /\ Head(run[w].results) \in Results(w)
         /\ Results(w) = Results(w)' \cup {Head(run[w].results)}
  <1> DEFINE s == run[w].results
             t == Tail(s)
  <1>1. Len(t) = Len(s) - 1 /\ Len(s) \in Nat /\ Len(s) # 0
        /\ (\A i \in 1 .. Len(t) : t[i] = s[i + 1]) /\ Head(s) = s[1]
    OBVIOUS
  <1> HIDE DEF t, s
  <1>2. {s[i] : i \in 1 .. Len(s)} \subseteq {t[i] : i \in 1 .. Len(t)} \cup {s[1]}
    <2> SUFFICES ASSUME NEW i \in 1 .. Len(s), i # 1 PROVE s[i] \in {t[j] : j \in 1 .. Len(t)}
      OBVIOUS
    <2>1. i - 1 \in 1 .. Len(t) /\ t[i - 1] = s[i]
      BY <1>1
    <2>2. QED
      BY <2>1
  <1>3. {t[i] : i \in 1 .. Len(t)} \cup {s[1]} \subseteq {s[i] : i \in 1 .. Len(s)}
    <2>1. ASSUME NEW i \in 1 .. Len(t) PROVE t[i] \in {s[j] : j \in 1 .. Len(s)}
      <3>1. i + 1 \in 1 .. Len(s) /\ t[i] = s[i + 1]
        BY <1>1
      <3>2. QED
        BY <3>1
    <2>2. 1 \in 1 .. Len(s)
      BY <1>1
    <2>3. QED
      BY <2>1, <2>2
  <1>4. Results(w)' = {t[i] : i \in 1 .. Len(t)} /\ Results(w) = {s[i] : i \in 1 .. Len(s)}
    BY DEF Results, s, t
  <1>5. QED
    BY <1>1, <1>2, <1>3, <1>4 DEF s

\* What a visit reports: where it found the tree, or nothing if it left it there; where it
\* left it, unless it failed to; and a rollback leaves a tree where it should, or fails.
HonestVisit(w, sha, prev, new, failed) ==
    LET p == Here(w)
    IN /\ prev \in {None, head[p]} /\ (prev = None => sha = head[p])
       /\ faults' = 0 => IF new = None THEN sha = head[p] ELSE sha = new
       /\ run[w].promise # "none" /\ ~ failed /\ Target(w, p) =>
            sha = run[w].before[p] \/ (run[w].promise = "killed" /\ run[w].targets[p] = None)

LEMMA VisitedUndo ==
  ASSUME HistoryInv, UndoInv, HistoryInv', NEW w \in Worker, NEW sha, NEW via,
         NEW prev, NEW new, NEW failed \in BOOLEAN,
         Visited(w, sha, via, prev, new, failed), HonestVisit(w, sha, prev, new, failed),
         faults' >= faults, kills' = kills
  PROVE  UndoInv'
  <1>0. PICK result : result =
               [deploy |-> run[w].id, path |-> Here(w), prev |-> prev, new |-> new]
    OBVIOUS
  <1> DEFINE p == Here(w)
             results == Append(run[w].results, result)
             r == [run[w] EXCEPT
                     !.todo = @ \ {p}, !.at = IF run[w].todo = {p} THEN "record" ELSE "visit",
                     !.results = results, !.failed = IF failed THEN @ \cup {p} ELSE @]
  <1>1. run[w] \in Run /\ At(w, "visit") /\ Busy(w) /\ run[w].results \in Seq(Row)
    BY DEF HistoryInv, RunsInv, Visited, At, Busy, Run
  <1>2. p \in run[w].todo /\ p \in Path
    BY <1>1, HereOK
  <1>3. run' = [run EXCEPT ![w] = r]
    BY <1>0, Zenon DEF Visited
  <1>4. run'[w] = r /\ \A v \in Worker \ {w} : run'[v] = run[v]
    BY <1>3 DEF HistoryInv, RunsInv
  <1>5. head' = [head EXCEPT ![p] = sha] /\ last' = last /\ overlapped' = overlapped
        /\ rows' = rows /\ deploys' = deploys
    BY DEF Visited, tables
  <1> HIDE DEF p
  <1>6. head'[p] = sha /\ \A q \in Path \ {p} : head'[q] = head[q]
    BY <1>2, <1>5 DEF HistoryInv, TreesInv
  <1>7. result.path = p /\ result.prev = prev /\ result.new = new /\ result.deploy = run[w].id
    BY <1>0 DEF p
  <1> HIDE DEF results
  <1>8. /\ r.at = IF run[w].todo = {p} THEN "record" ELSE "visit"
        /\ r.todo = run[w].todo \ {p} /\ r.id = run[w].id /\ r.results = results
        /\ r.promise = run[w].promise /\ r.kind = run[w].kind /\ r.only = run[w].only
        /\ r.targets = run[w].targets /\ r.before = run[w].before
        /\ r.failed = IF failed THEN run[w].failed \cup {p} ELSE run[w].failed
    BY <1>1 DEF Run
  <1> HIDE DEF r
  <1>9. \A v \in Worker : Busy(v)' <=> Busy(v)
    BY <1>1, <1>4, <1>8 DEF Busy
  <1>10. (Quiet' <=> Quiet) /\ \A v \in Worker : OnlyBusy(v)' <=> OnlyBusy(v)
    BY <1>9 DEF Quiet, OnlyBusy
  <1>11. Results(w)' = Results(w) \cup {result} /\ run'[w].results # <<>>
    <2>1. result \in Row
      <3>1. run'[w].results \in Seq(Row)
        BY DEF HistoryInv, RunsInv, Run
      <3>2. run'[w].results = Append(run[w].results, result)
        BY <1>4, <1>8 DEF results
      <3>3. Len(run'[w].results) = Len(run[w].results) + 1 /\ Len(run[w].results) \in Nat
            /\ run'[w].results[Len(run[w].results) + 1] = result
        BY <1>1, <3>2
      <3>4. QED
        BY <3>1, <3>3
    <2>2. QED
      BY <1>1, <1>4, <1>8, <2>1, ResultsGrow DEF results
  <1>12. \A v \in Worker \ {w} : Results(v)' = Results(v)
    BY <1>4 DEF Results
  <1>13. \A x \in Results(w) : x.path \in Path \ {p} /\ x.deploy = run[w].id
    <2>1. \A x \in Results(w) : x \in Row
      BY <1>1 DEF Results
    <2>2. Tidy(w)
      BY DEF UndoInv, TidyInv
    <2>3. QED
      BY <1>1, <1>2, <2>1, <2>2 DEF Tidy, Row
  <1>14. Newly' = Newly /\ LastSeen' = LastSeen /\ (FoundThere' <=> FoundThere)
    BY <1>5 DEF Newly, RowsOf, LastSeen, FoundThere
  <1>15. \A q \in Path \ {p} : Still(q)' <=> Still(q)
    BY <1>5, <1>6 DEF Still
  <1>16. Tidy(w)'
    <2>1. Tidy(w)
      BY DEF UndoInv, TidyInv
    <2>2. QED
      BY <1>4, <1>7, <1>8, <1>11, <1>13, <2>1, <1>1 DEF Tidy, At
  <1>17. ASSUME last.fate = "clean", InOrder, Clean(w) PROVE InOrder'
    <2>1. Newly = {} /\ OnlyBusy(w)
      BY <1>1, <1>17 DEF Clean, At
    <2>2. Still(p)
      BY <1>1, <1>2, <1>17 DEF Clean
    <2>3. Faithful(result)'
      BY <1>5, <1>6, <1>7, <2>2 DEF Faithful, Still, HonestVisit, p
    <2>4. \A x \in Results(w) : Faithful(x)'
      BY <1>5, <1>13, <1>15, <1>17 DEF Faithful, Clean
    <2>5. \A q \in run'[w].todo : Still(q)'
      <3>1. run[w].todo \subseteq Path
        BY <1>1 DEF Run
      <3>2. QED
        BY <1>1, <1>4, <1>8, <1>15, <1>17, <3>1 DEF Clean
    <2>6. Newest(w)'
      BY <1>4, <1>5, <1>8, <1>17 DEF Clean, Newest
    <2>7. Clean(w)'
      BY <1>4, <1>8, <1>10, <1>11, <1>14, <2>1, <2>3, <2>4, <2>5, <2>6 DEF Clean, At
    <2>8. ASSUME NEW q \in Path PROVE Traced(q)'
      <3>1. CASE q = p
        BY <1>1, <1>7, <1>9, <1>11, <3>1 DEF Traced
      <3>2. CASE q # p
        <4>1. Traced(q)
          BY <1>17 DEF InOrder
        <4>2. QED
          BY <1>9, <1>11, <1>12, <1>15, <2>1, <3>2, <4>1 DEF Traced
      <3>3. QED
        BY <3>1, <3>2
    <2>9. \A v \in Worker : Busy(v)' => v = w
      BY <1>9, <2>1 DEF OnlyBusy
    <2>10. ~ Quiet'
      BY <1>1, <1>9 DEF Quiet
    <2>11. QED
      BY <1>14, <2>1, <2>7, <2>8, <2>9, <2>10 DEF InOrder
  <1>18. CleanInv'
    BY <1>1, <1>5, <1>17 DEF UndoInv, CleanInv, InOrder
  <1>19. KnownInv'
    <2> SUFFICES ASSUME Untroubled' PROVE NothingLost'
      BY DEF KnownInv
    <2>1. faults \in Nat /\ faults' = 0 /\ Untroubled
      BY <1>5, HistoryAssumption DEF Untroubled, HistoryInv, CountsInv
    <2>2. NothingLost /\ ~ Quiet
      BY <1>1, <2>1 DEF UndoInv, KnownInv, Quiet
    <2>3. last.fate = "clean" /\ Clean(w)
      BY <1>1, <2>2 DEF NothingLost, UndoInv, CleanInv, InOrder
    <2>4. \A v \in Worker : Busy(v) => v = w
      BY <2>3 DEF Clean, OnlyBusy
    <2>5. Still(p)
      BY <1>1, <1>2, <2>3 DEF Clean
    <2>6. IF new = None THEN sha = head[p] ELSE sha = new
      BY <2>1 DEF HonestVisit, p
    <2>7. Left(result)'
      BY <1>5, <1>6, <1>7, <2>5, <2>6 DEF Left, Still
    <2>8. \A x \in Results(w) : Left(x)'
      BY <1>1, <1>6, <1>13, <1>15, <2>2 DEF Left, NothingLost
    <2>9. ASSUME NEW q \in Path PROVE Known(q)'
      <3>1. Known(q)
        BY <2>2 DEF NothingLost
      <3>2. CASE q # p
        BY <1>6, <1>9, <1>11, <1>12, <1>14, <3>1, <3>2 DEF Known
      <3>3. CASE q = p /\ new # None
        BY <1>1, <1>7, <1>9, <1>11, <3>3 DEF Known
      <3>4. CASE q = p /\ new = None
        <4>1. LastSeen[p] \in {None, head[p]}
          BY <1>13, <2>4, <3>1, <3>4 DEF Known
        <4>2. QED
          BY <1>6, <1>14, <2>6, <3>4, <4>1 DEF Known
      <3>5. QED
        BY <3>2, <3>3, <3>4
    <2>10. QED
      BY <1>5, <1>9, <1>11, <1>14, <2>2, <2>3, <2>4, <2>7, <2>8, <2>9 DEF NothingLost
  <1>20. ASSUME run[w].promise # "none" PROVE Kept(w)'
    <2>1. Kept(w)
      BY <1>20 DEF UndoInv, PromiseInv
    <2>2. Scope(w)' = Scope(w) /\ Scope(w) \subseteq Path
      BY <1>1, <1>4, <1>8 DEF Scope, Run
    <2>3. ASSUME NEW q \in Scope(w), ToVisit(w, q)' PROVE Target(w, q)'
      <3>1. q \in run[w].todo /\ q # p /\ q \in Path
        BY <1>4, <1>8, <2>2, <2>3 DEF ToVisit, At
      <3>2. Target(w, q)
        BY <1>1, <2>1, <3>1 DEF Kept, ToVisit
      <3>3. QED
        BY <1>4, <1>6, <1>8, <3>1, <3>2 DEF Target
    <2>4. ASSUME NEW q \in Scope(w), ~ ToVisit(w, q)' PROVE Back(w, q)'
      <3>1. CASE q = p
        <4>1. Target(w, p)
          BY <1>1, <1>2, <2>1, <3>1 DEF Kept, ToVisit
        <4>2. failed \/ sha = run[w].before[p]
              \/ (run[w].promise = "killed" /\ run[w].targets[p] = None)
          BY <1>20, <4>1 DEF HonestVisit, p
        <4>3. QED
          BY <1>4, <1>6, <1>8, <3>1, <4>2 DEF Back
      <3>2. CASE q # p
        <4>1. q \notin run[w].todo
          BY <1>4, <1>8, <2>4, <3>2 DEF ToVisit, At
        <4>2. Back(w, q)
          BY <1>1, <2>1, <4>1 DEF Kept, ToVisit, At
        <4>3. head'[q] = head[q]
          BY <1>6, <2>2, <3>2
        <4>4. QED
          BY <1>4, <1>8, <4>2, <4>3 DEF Back
      <3>3. QED
        BY <3>1, <3>2
    <2>5. QED
      BY <1>4, <1>8, <1>10, <2>1, <2>2, <2>3, <2>4, <1>9 DEF Kept, IsRollback
  <1>21. TidyInv' /\ KilledInv' /\ ChoosingInv' /\ PromiseInv'
    <2>1. \A i \in 1 .. Len(rows') : rows'[i].deploy <= Len(deploys')
      BY <1>5 DEF UndoInv, TidyInv
    <2>2. run'[w].promise # "none" => Busy(w)' /\ Kept(w)'
      BY <1>1, <1>4, <1>8, <1>9, <1>20
    <2>3. QED
      BY <1>1, <1>4, <1>5, <1>16, <2>1, <2>2, BusyStep
  <1>22. QED
    BY <1>18, <1>19, <1>21 DEF UndoInv

\* Where a rollback with a promise goes.
LEMMA PromisedAim ==
  ASSUME UndoInv, NEW w \in Worker, run[w].promise # "none", NEW p, Target(w, p)
  PROVE  /\ IsRollback(w)
         /\ Touches(w, p) => Aim(w, p) = run[w].before[p]
         /\ ~ Touches(w, p) =>
              \/ p \in run[w].errs
              \/ run[w].targets[p] = None
                   /\ (run[w].promise = "recorded" => head[p] = run[w].before[p])
  BY DEF UndoInv, PromiseInv, Kept, IsRollback, Touches, Aim, Target

LEMMA VisitsUndo ==
  ASSUME HistoryInv, UndoInv, HistoryInv', NEW w \in Worker,
         LeaveAlone(w) \/ FailsEarly(w) \/ MoveFails(w) \/ Moves(w) \/ Undone(w) \/ UndoFails(w)
  PROVE  UndoInv'
  <1> DEFINE p == Here(w)
  <1>1. At(w, "visit") /\ run[w] \in Run
    BY DEF LeaveAlone, FailsEarly, MoveFails, Moves, Undone, UndoFails, HistoryInv, RunsInv
  <1>2. p \in Path /\ head[p] \in Commit /\ (Touches(w, p) => Aim(w, p) \in Commit)
    BY <1>1, HereOK DEF HistoryInv, TreesInv
  <1>3. faults \in Nat
    BY HistoryAssumption DEF HistoryInv, CountsInv
  <1>4. UNCHANGED counts => faults' >= faults /\ kills' = kills
    BY <1>3 DEF counts
  <1>5. Fault => faults' > 0 /\ faults' >= faults /\ kills' = kills
    BY <1>3 DEF Fault
  <1>6. run[w].promise \in {"none", "recorded", "killed"}
    BY <1>1 DEF Run
  <1>7. head[p] # None /\ (Touches(w, p) => Aim(w, p) # None)
    BY <1>2 DEF Commit, None
  <1>8. ASSUME run[w].promise # "none", Target(w, p)
        PROVE  /\ IsRollback(w)
               /\ Touches(w, p) => Aim(w, p) = run[w].before[p]
               /\ ~ Touches(w, p) =>
                    \/ p \in run[w].errs
                    \/ run[w].targets[p] = None
                         /\ (run[w].promise = "recorded" => head[p] = run[w].before[p])
    BY <1>8, PromisedAim
  <1> HIDE DEF p
  <1>9. CASE LeaveAlone(w)
    <2>1. faults' >= faults /\ kills' = kills
      BY <1>4, <1>9 DEF LeaveAlone
    <2>2. CASE ~ Touches(w, p) /\ Visited(w, head[p], {}, None, None, p \in run[w].errs)
      <3>1. PICK failed \in BOOLEAN : failed <=> p \in run[w].errs
        BY Zenon
      <3>2. Visited(w, head[p], {}, None, None, failed)
        BY <2>2, <3>1, Zenon
      <3>3. HonestVisit(w, head[p], None, None, failed)
        BY <1>6, <1>8, <2>2, <3>1 DEF HonestVisit, p
      <3>4. QED
        BY <2>1, <3>2, <3>3, VisitedUndo
    <2>3. CASE /\ Touches(w, p) /\ IsRollback(w) /\ Aim(w, p) = head[p]
               /\ Visited(w, head[p], {}, head[p], None, FALSE)
      <3>1. HonestVisit(w, head[p], head[p], None, FALSE)
        BY <1>7, <1>8, <2>3 DEF HonestVisit, p
      <3>2. QED
        BY <2>1, <2>3, <3>1, VisitedUndo
    <2>4. QED
      BY <1>9, <2>2, <2>3 DEF LeaveAlone, p
  <1>10. CASE FailsEarly(w)
    <2>1. PICK prev \in {None, head[p]} : Visited(w, head[p], {}, prev, None, TRUE)
      BY <1>10 DEF FailsEarly, p
    <2>2. HonestVisit(w, head[p], prev, None, TRUE)
      BY DEF HonestVisit, p
    <2>3. QED
      BY <1>5, <1>10, <2>1, <2>2, VisitedUndo DEF FailsEarly
  <1>11. CASE MoveFails(w)
    <2>1. PICK sha \in {head[p], Aim(w, p)} : Visited(w, sha, {}, head[p], None, TRUE)
      BY <1>11 DEF MoveFails, p
    <2>2. HonestVisit(w, sha, head[p], None, TRUE)
      BY <1>5, <1>7, <1>11 DEF HonestVisit, MoveFails, p
    <2>3. QED
      BY <1>5, <1>11, <2>1, <2>2, VisitedUndo DEF MoveFails
  <1>12. CASE Moves(w)
    <2>1. PICK failed \in BOOLEAN :
            Visited(w, Aim(w, p), {}, head[p], Aim(w, p), failed)
      BY <1>12 DEF Moves, p
    <2>2. Touches(w, p)
      BY <1>12 DEF Moves, p
    <2>3. HonestVisit(w, Aim(w, p), head[p], Aim(w, p), failed)
      BY <1>7, <1>8, <2>2 DEF HonestVisit, p
    <2>4. QED
      BY <1>4, <1>12, <2>1, <2>3, VisitedUndo DEF Moves
  <1>13. CASE Undone(w)
    <2>1. Visited(w, head[p], {Aim(w, p)}, head[p], head[p], TRUE)
      BY <1>13 DEF Undone, UndoneAt, p
    <2>2. HonestVisit(w, head[p], head[p], head[p], TRUE)
      BY <1>7 DEF HonestVisit, p
    <2>3. QED
      BY <1>4, <1>13, <2>1, <2>2, VisitedUndo DEF Undone
  <1>14. CASE UndoFails(w)
    <2>1. PICK sha \in {head[p], Aim(w, p)} :
            Visited(w, sha, {Aim(w, p)}, head[p], Aim(w, p), TRUE)
      BY <1>14 DEF UndoFails, p
    <2>2. HonestVisit(w, sha, head[p], Aim(w, p), TRUE)
      BY <1>5, <1>7, <1>14 DEF HonestVisit, UndoFails, p
    <2>3. QED
      BY <1>5, <1>14, <2>1, <2>2, VisitedUndo DEF UndoFails
  <1>15. QED
    BY <1>9, <1>10, <1>11, <1>12, <1>13, <1>14

-----------------------------------------------------------------------------
(* Recording. *)

\* The newest row of its path, if it says where it left it, is what rollbackTargets sees.
LEMMA LastSeenGrows ==
  ASSUME rows \in Seq(Row), NEW x \in Row, rows' = Append(rows, x), NEW p \in Path
  PROVE  LastSeen'[p] = IF x.path = p /\ x.new # None THEN x.new ELSE LastSeen[p]
  <1> DEFINE n == Len(rows)
             known == {i \in 1 .. n : rows[i].path = p /\ rows[i].new # None}
             after == {i \in 1 .. (n + 1) : rows'[i].path = p /\ rows'[i].new # None}
  <1>1. n \in Nat /\ DOMAIN rows = 1 .. n /\ DOMAIN rows' = 1 .. (n + 1)
        /\ rows'[n + 1] = x /\ \A i \in 1 .. n : rows'[i] = rows[i]
    OBVIOUS
  <1>2. /\ LastSeen[p] = IF known = {} THEN None ELSE rows[Max(known)].new
        /\ LastSeen'[p] = IF after = {} THEN None ELSE rows'[Max(after)].new
    BY <1>1 DEF LastSeen
  <1>3. CASE x.path = p /\ x.new # None
    <2>1. n + 1 \in after /\ \A i \in after : i <= n + 1 /\ i \in Nat
      BY <1>1, <1>3
    <2> HIDE DEF after, n
    <2>2. Max(after) = n + 1
      BY <1>1, <2>1 DEF Max
    <2>3. QED
      BY <1>1, <1>2, <1>3, <2>1, <2>2
  <1>4. CASE ~ (x.path = p /\ x.new # None)
    <2>1. after = known
      BY <1>1, <1>4
    <2>2. known \subseteq 1 .. n
      OBVIOUS
    <2> HIDE DEF known, after, n
    <2>3. known # {} => Max(known) \in 1 .. n
      BY <1>1, <2>2, MaxExists
    <2>4. QED
      BY <1>1, <1>2, <1>4, <2>1, <2>3
  <1>5. QED
    BY <1>3, <1>4

LEMMA DeployPathInsertUndo ==
  ASSUME HistoryInv, UndoInv, NEW w \in Worker, DeployPathInsert(w)
  PROVE  UndoInv'
  <1> DEFINE r == [run[w] EXCEPT !.results = Tail(run[w].results)]
  <1>1. run[w] \in Run /\ At(w, "record") /\ Busy(w) /\ run[w].results \in Seq(Row)
        /\ run[w].results # <<>> /\ rows \in Seq(Row) /\ deploys \in Seq(DeployRow)
    BY DEF HistoryInv, RunsInv, RowsInv, DeploysInv, DeployPathInsert, Recorded, At, Busy, Run
  <1>2. run' = [run EXCEPT ![w] = r]
    BY DEF DeployPathInsert, HistoryInv, RunsInv
  <1>3. run'[w] = r /\ \A v \in Worker \ {w} : run'[v] = run[v]
    BY <1>2 DEF HistoryInv, RunsInv
  <1>4. /\ r.at = "record" /\ r.todo = run[w].todo /\ r.id = run[w].id
        /\ r.results = Tail(run[w].results)
        /\ r.promise = run[w].promise /\ r.kind = run[w].kind /\ r.only = run[w].only
        /\ r.targets = run[w].targets /\ r.before = run[w].before /\ r.failed = run[w].failed
    BY <1>1 DEF Run, At
  <1> HIDE DEF r
  <1>5. PICK x : x = Head(run[w].results)
    OBVIOUS
  <1>6. x \in Results(w) /\ Results(w) = Results(w)' \cup {x} /\ x \in Row
    BY <1>1, <1>3, <1>4, <1>5, ResultsShrink
  <1>7. rows' = Append(rows, x)
    BY <1>5 DEF DeployPathInsert
  <1>8. head' = head /\ last' = last /\ overlapped' = overlapped /\ deploys' = deploys
        /\ faults' = faults /\ kills' = kills
    BY DEF DeployPathInsert, trees, counts
  <1>9. \A v \in Worker : Busy(v)' <=> Busy(v)
    BY <1>1, <1>3, <1>4 DEF Busy
  <1>10. (Quiet' <=> Quiet) /\ \A v \in Worker : OnlyBusy(v)' <=> OnlyBusy(v)
    BY <1>9 DEF Quiet, OnlyBusy
  <1>11. \A v \in Worker \ {w} : Results(v)' = Results(v)
    BY <1>3 DEF Results
  <1>12. Tidy(w) /\ x.deploy = run[w].id
    BY <1>6 DEF UndoInv, TidyInv, Tidy
  <1>13. Len(rows) \in Nat /\ Len(rows') = Len(rows) + 1 /\ rows'[Len(rows) + 1] = x
         /\ (\A i \in 1 .. Len(rows) : rows'[i] = rows[i])
         /\ DOMAIN rows = 1 .. Len(rows) /\ DOMAIN rows' = 1 .. (Len(rows) + 1)
    BY <1>1, <1>6, <1>7
  <1>14. Newly \subseteq 1 .. Len(rows)
    BY <1>13 DEF Newly, RowsOf
  <1>15. ASSUME Newest(w) PROVE Newly' = Newly \cup {Len(rows) + 1}
    <2>1. x.deploy = Len(deploys)
      BY <1>12, <1>15 DEF Newest
    <2>2. QED
      BY <1>8, <1>13, <2>1 DEF Newly, RowsOf
  <1>16. (\A p : Still(p)' <=> Still(p)) /\ (\A y : Faithful(y)' <=> Faithful(y))
    BY <1>8 DEF Still, Faithful
  <1>17. ASSUME InOrder, Clean(w) PROVE InOrder'
    <2>1. Newest(w) /\ Newly' = Newly \cup {Len(rows) + 1}
      BY <1>15, <1>17 DEF Clean
    <2>2. (\A i \in Newly : Faithful(rows[i]))'
      <3>1. Faithful(x)
        BY <1>6, <1>17 DEF Clean
      <3>2. \A i \in Newly' : rows'[i] = x \/ (i \in Newly /\ rows'[i] = rows[i])
        BY <1>13, <1>14, <2>1
      <3>3. \A i \in Newly' : Faithful(rows'[i])
        BY <1>17, <3>1, <3>2 DEF InOrder
      <3>4. QED
        BY <1>8, <3>3 DEF Faithful, Still
    <2>3. Clean(w)'
      BY <1>1, <1>3, <1>4, <1>6, <1>8, <1>10, <1>16, <1>17, <2>1 DEF Clean, Newest, At
    <2>4. \A v \in Worker : Busy(v)' => v = w
      BY <1>9, <1>17 DEF Clean, OnlyBusy
    <2>5. ASSUME NEW p \in Path PROVE Traced(p)'
      <3>1. Traced(p)
        BY <1>17 DEF InOrder
      <3>2. ASSUME NEW i \in Newly, rows[i].path = p PROVE Traced(p)'
        <4>1. i \in Newly' /\ rows'[i].path = p
          BY <1>13, <1>14, <2>1, <3>2
        <4>2. QED
          BY <4>1 DEF Traced
      <3>3. ASSUME NEW y \in Results(w), y.path = p PROVE Traced(p)'
        <4>1. CASE y = x
          BY <1>13, <2>1, <3>3, <4>1 DEF Traced
        <4>2. CASE y \in Results(w)'
          BY <1>1, <1>9, <3>3, <4>2 DEF Traced
        <4>3. QED
          BY <1>6, <4>1, <4>2
      <3>4. Still(p) => Traced(p)'
        BY <1>16 DEF Traced
      <3>5. \A v \in Worker : Busy(v) => v = w
        BY <1>17 DEF Clean, OnlyBusy
      <3>6. \/ Still(p) \/ \E i \in Newly : rows[i].path = p
            \/ \E y \in Results(w) : y.path = p
        BY <3>1, <3>5 DEF Traced
      <3>7. QED
        BY <3>2, <3>3, <3>4, <3>6
    <2>6. QED
      BY <1>1, <1>9, <2>1, <2>2, <2>3, <2>4, <2>5 DEF InOrder, Quiet
  <1>18. CleanInv'
    BY <1>1, <1>8, <1>17 DEF UndoInv, CleanInv, InOrder
  <1>19. KnownInv'
    <2> SUFFICES ASSUME Untroubled PROVE NothingLost'
      BY <1>8 DEF KnownInv, Untroubled
    <2>1. NothingLost /\ ~ Quiet
      BY <1>1 DEF UndoInv, KnownInv, Quiet
    <2>2. last.fate = "clean" /\ Clean(w)
      BY <1>1, <2>1 DEF NothingLost, UndoInv, CleanInv, InOrder
    <2>3. Newly' # {}
      BY <1>15, <2>2 DEF Clean
    <2>4. \A y \in Results(w)' : Left(y)'
      BY <1>1, <1>6, <1>8, <1>16, <2>1 DEF Left, NothingLost
    <2>5. \A v \in Worker : Busy(v)' => v = w
      BY <1>9, <2>2 DEF Clean, OnlyBusy
    <2>6. ASSUME NEW p \in Path PROVE Known(p)'
      <3>1. Known(p)
        BY <2>1 DEF NothingLost
      <3>2. LastSeen'[p] = IF x.path = p /\ x.new # None THEN x.new ELSE LastSeen[p]
        BY <1>1, <1>6, <1>7, LastSeenGrows
      <3>3. CASE x.path = p /\ x.new # None
        <4>1. head[p] = x.new
          BY <1>1, <1>6, <2>1, <3>3 DEF NothingLost, Left
        <4>2. QED
          BY <1>8, <3>2, <3>3, <4>1 DEF Known
      <3>4. CASE ~ (x.path = p /\ x.new # None)
        <4>1. ASSUME NEW v \in Worker, Busy(v), NEW y \in Results(v), y.path = p, y.new # None
              PROVE  y \in Results(v)'
          BY <1>6, <1>11, <3>4, <4>1
        <4>2. QED
          BY <1>8, <1>9, <3>1, <3>2, <3>4, <4>1 DEF Known
      <3>5. QED
        BY <3>3, <3>4
    <2>7. QED
      BY <1>8, <2>2, <2>3, <2>4, <2>5, <2>6 DEF NothingLost
  <1>20. ASSUME run[w].promise # "none" PROVE Kept(w)'
    <2>1. Kept(w)
      BY <1>20 DEF UndoInv, PromiseInv
    <2>2. Scope(w)' = Scope(w)
      BY <1>3, <1>4 DEF Scope
    <2>3. ASSUME NEW p \in Scope(w) PROVE ~ ToVisit(w, p)' /\ Back(w, p)'
      <3>1. Back(w, p)
        BY <1>1, <2>1 DEF Kept, ToVisit, At
      <3>2. QED
        BY <1>3, <1>4, <1>8, <3>1 DEF Back, ToVisit, At
    <2>4. QED
      BY <1>3, <1>4, <1>10, <2>1, <2>2, <2>3, <1>9 DEF Kept, IsRollback
  <1>21. Tidy(w)'
    BY <1>3, <1>4, <1>6, <1>12 DEF Tidy, At
  <1>22. TidyInv' /\ KilledInv' /\ ChoosingInv' /\ PromiseInv'
    <2>1. ASSUME NEW i \in 1 .. Len(rows') PROVE rows'[i].deploy <= Len(deploys')
      <3>1. i = Len(rows) + 1 \/ i \in 1 .. Len(rows)
        BY <1>13
      <3>2. CASE i \in 1 .. Len(rows)
        BY <1>8, <1>13, <3>2 DEF UndoInv, TidyInv
      <3>3. CASE i = Len(rows) + 1
        <4>1. run[w].id \in 1 .. Len(deploys) /\ Len(deploys) \in Nat
          BY <1>1 DEF HistoryInv, RunsInv, RunSeen, At
        <4>2. QED
          BY <1>8, <1>12, <1>13, <3>3, <4>1
      <3>4. QED
        BY <3>1, <3>2, <3>3
    <2>2. run'[w].promise # "none" => Busy(w)' /\ Kept(w)'
      BY <1>1, <1>3, <1>4, <1>9, <1>20
    <2>3. QED
      BY <1>1, <1>3, <1>8, <1>21, <2>1, <2>2, BusyStep
  <1>23. QED
    BY <1>18, <1>19, <1>22 DEF UndoInv

\* A fault in a run under way, that it does not report: the deploy it is of has lost something.
LEMMA MurkyStep ==
  ASSUME HistoryInv, UndoInv, NEW w \in Worker, Busy(w), Murky(w), Fault,
         \A v \in Worker \ {w} : run'[v] = run[v],
         UNCHANGED <<rows, deploys>>, Tidy(w)',
         run'[w].promise # "none" => Busy(w)' /\ Kept(w)'
  PROVE  UndoInv'
  <1>1. last \in [fate : {"clean", "killed", "murky"}, before : [Path -> Commit]]
        /\ faults \in Nat
    BY HistoryAssumption DEF HistoryInv, LastInv, CountsInv
  <1>2. last'.fate = "murky" \/ (last' = last /\ ~ Newest(w))
    BY <1>1 DEF Murky
  <1>3. last.fate = "clean" => Newest(w)
    BY DEF UndoInv, CleanInv, InOrder, Clean
  <1>4. CleanInv'
    BY <1>2, <1>3 DEF CleanInv
  <1>5. KnownInv'
    BY <1>1 DEF KnownInv, Untroubled, Fault
  <1>6. TidyInv' /\ KilledInv' /\ ChoosingInv' /\ PromiseInv'
    <2>1. \A i \in 1 .. Len(rows') : rows'[i].deploy <= Len(deploys')
      BY DEF UndoInv, TidyInv
    <2>2. last'.fate \in {last.fate, "murky"}
      BY <1>2
    <2>3. QED
      BY <2>1, <2>2, BusyStep
  <1>7. QED
    BY <1>4, <1>5, <1>6 DEF UndoInv

LEMMA ScanFailsUndo ==
  ASSUME HistoryInv, UndoInv, NEW w \in Worker, ScanFails(w)
  PROVE  UndoInv'
  <1> DEFINE r == [run[w] EXCEPT !.at = "record", !.promise = "none"]
  <1>1. run[w] \in Run /\ At(w, "scan") /\ Busy(w)
    BY DEF ScanFails, HistoryInv, RunsInv, Busy, At
  <1>2. run' = [run EXCEPT ![w] = r]
    BY <1>1 DEF ScanFails, HistoryInv, RunsInv
  <1>3. run'[w] = r /\ \A v \in Worker \ {w} : run'[v] = run[v]
    BY <1>2 DEF HistoryInv, RunsInv
  <1>4. r.at = "record" /\ r.promise = "none" /\ r.results = run[w].results
    BY <1>1 DEF Run
  <1> HIDE DEF r
  <1>5. r.results = <<>>
    BY <1>1, <1>4 DEF UndoInv, TidyInv, Tidy, At
  <1>6. Results(w)' = {}
    BY <1>3, <1>5 DEF Results
  <1>7. Tidy(w)'
    BY <1>3, <1>4, <1>6 DEF Tidy, At
  <1>8. UNCHANGED <<rows, deploys>> /\ Fault /\ Murky(w)
    BY DEF ScanFails, tables
  <1>9. QED
    BY <1>1, <1>3, <1>4, <1>7, <1>8, MurkyStep

LEMMA InsertFailsUndo ==
  ASSUME HistoryInv, UndoInv, NEW w \in Worker, InsertFails(w)
  PROVE  UndoInv'
  <1> DEFINE r == [run[w] EXCEPT !.results = Tail(run[w].results)]
  <1>1. run[w] \in Run /\ At(w, "record") /\ Busy(w) /\ run[w].results \in Seq(Row)
        /\ run[w].results # <<>>
    BY DEF HistoryInv, RunsInv, InsertFails, Recorded, At, Busy, Run
  <1>2. run' = [run EXCEPT ![w] = r]
    BY DEF InsertFails, HistoryInv, RunsInv
  <1>3. run'[w] = r /\ \A v \in Worker \ {w} : run'[v] = run[v]
    BY <1>2 DEF HistoryInv, RunsInv
  <1>4. /\ r.at = "record" /\ r.todo = run[w].todo /\ r.id = run[w].id
        /\ r.results = Tail(run[w].results)
        /\ r.promise = run[w].promise /\ r.kind = run[w].kind /\ r.only = run[w].only
        /\ r.targets = run[w].targets /\ r.before = run[w].before /\ r.failed = run[w].failed
    BY <1>1 DEF Run, At
  <1> HIDE DEF r
  <1>5. Results(w)' \subseteq Results(w)
    BY <1>1, <1>3, <1>4, ResultsShrink
  <1>6. Tidy(w)'
    <2>1. Tidy(w)
      BY DEF UndoInv, TidyInv
    <2>2. QED
      BY <1>3, <1>4, <1>5, <2>1 DEF Tidy, At
  <1>7. \A v \in Worker : Busy(v)' <=> Busy(v)
    BY <1>1, <1>3, <1>4 DEF Busy
  <1>8. UNCHANGED <<rows, deploys, head>> /\ Fault /\ Murky(w)
    BY DEF InsertFails, tables, trees
  <1>9. ASSUME run[w].promise # "none" PROVE Kept(w)'
    <2>1. Kept(w)
      BY <1>9 DEF UndoInv, PromiseInv
    <2>2. Scope(w)' = Scope(w)
      BY <1>3, <1>4 DEF Scope
    <2>3. ASSUME NEW p \in Scope(w) PROVE ~ ToVisit(w, p)' /\ Back(w, p)'
      <3>1. Back(w, p)
        BY <1>1, <2>1 DEF Kept, ToVisit, At
      <3>2. QED
        BY <1>3, <1>4, <1>8, <3>1 DEF Back, ToVisit, At
    <2>4. OnlyBusy(w)'
      BY <1>1, <1>7, <2>1 DEF Kept, OnlyBusy
    <2>5. QED
      BY <1>3, <1>4, <2>1, <2>2, <2>3, <2>4 DEF Kept, IsRollback
  <1>10. QED
    BY <1>1, <1>3, <1>4, <1>6, <1>7, <1>8, <1>9, MurkyStep

LEMMA FinishUndo ==
  ASSUME HistoryInv, UndoInv, NEW w \in Worker, DeployFinish(w) \/ FinishFails(w)
  PROVE  UndoInv'
  <1>1. Busy(w) /\ At(w, "record") /\ run[w].results = <<>>
    BY DEF DeployFinish, FinishFails, Recorded, Busy, At
  <1>2. run'[w] = NoRun /\ \A v \in Worker \ {w} : run'[v] = run[v]
    BY DEF DeployFinish, FinishFails, HistoryInv, RunsInv
  <1>3. Settled
    <2>1. Len(deploys') = Len(deploys)
      BY DEF DeployFinish, FinishFails, tables, HistoryInv, DeploysInv
    <2>2. QED
      BY <2>1 DEF DeployFinish, FinishFails, tables, trees, Settled
  <1>4. rows' = rows /\ head' = head /\ last' = last /\ Len(deploys') = Len(deploys)
        /\ overlapped' = overlapped
    BY <1>3 DEF Settled
  <1>5. faults \in Nat /\ faults' >= faults /\ kills' = kills
    BY HistoryAssumption DEF HistoryInv, CountsInv, DeployFinish, FinishFails, Fault, counts
  <1>6. ~ Busy(w)' /\ Results(w) = {} /\ Results(w)' = {}
    BY <1>1, <1>2 DEF Busy, Results, NoRun
  <1>7. ASSUME NEW v \in Worker \ {w} PROVE (Busy(v)' <=> Busy(v)) /\ Results(v)' = Results(v)
    BY <1>2 DEF Busy, Results
  <1>8. CleanInv'
    <2> SUFFICES ASSUME last.fate = "clean" PROVE InOrder'
      BY <1>4 DEF CleanInv
    <2>1. InOrder /\ Clean(w)
      BY <1>1 DEF UndoInv, CleanInv, InOrder
    <2>2. \A v \in Worker : ~ Busy(v)'
      BY <1>6, <1>7, <2>1 DEF Clean, OnlyBusy
    <2>3. Newly' = Newly /\ Newly # {}
      BY <1>1, <1>3, <2>1, SettledWorld DEF Clean
    <2>4. ASSUME NEW p \in Path PROVE Traced(p)'
      <3>1. Still(p) \/ \E i \in Newly : rows[i].path = p
        BY <1>6, <2>1 DEF InOrder, Traced, Clean, OnlyBusy
      <3>2. QED
        BY <1>3, <1>4, <2>3, <3>1, SettledWorld DEF Traced
    <2>5. (\A i \in Newly : Faithful(rows[i]))'
      BY <1>3, <1>4, <2>1, <2>3, SettledWorld DEF InOrder
    <2>6. QED
      BY <2>2, <2>3, <2>4, <2>5 DEF InOrder
  <1>9. KnownInv'
    <2> SUFFICES ASSUME Untroubled' PROVE NothingLost'
      BY DEF KnownInv
    <2>1. Untroubled
      BY <1>4, <1>5 DEF Untroubled
    <2>2. NothingLost /\ ~ Quiet
      BY <1>1, <2>1 DEF UndoInv, KnownInv, Quiet
    <2>3. last.fate = "clean" /\ Clean(w)
      BY <1>1, <2>2 DEF NothingLost, UndoInv, CleanInv, InOrder
    <2>4. \A v \in Worker : ~ Busy(v)'
      BY <1>6, <1>7, <2>3 DEF Clean, OnlyBusy
    <2>5. Newly' # {} /\ LastSeen' = LastSeen
      BY <1>1, <1>3, <2>3, SettledWorld DEF Clean
    <2>6. ASSUME NEW p \in Path PROVE Known(p)'
      <3>1. LastSeen[p] \in {None, head[p]}
        BY <1>6, <2>2, <2>3 DEF NothingLost, Known, Clean, OnlyBusy
      <3>2. QED
        BY <1>4, <2>5, <3>1 DEF Known
    <2>7. QED
      BY <1>4, <2>3, <2>4, <2>5, <2>6 DEF NothingLost
  <1>10. Tidy(w)'
    BY <1>2, <1>6 DEF Tidy, NoRun, At
  <1>11. TidyInv' /\ KilledInv' /\ ChoosingInv' /\ PromiseInv'
    <2>1. \A i \in 1 .. Len(rows') : rows'[i].deploy <= Len(deploys')
      BY <1>4 DEF UndoInv, TidyInv
    <2>2. run'[w].promise = "none"
      BY <1>2 DEF NoRun
    <2>3. QED
      BY <1>1, <1>2, <1>4, <1>10, <2>1, <2>2, BusyStep
  <1>12. QED
    BY <1>8, <1>9, <1>11 DEF UndoInv

-----------------------------------------------------------------------------
(* What a rollback undoes: the theorems. *)

LEMMA UndoStep == HistoryInv /\ HistoryInv' /\ UndoInv /\ [Next]_vars => UndoInv'
  <1> SUFFICES ASSUME HistoryInv, HistoryInv', UndoInv, [Next]_vars PROVE UndoInv'
    OBVIOUS
  <1>1. ASSUME NEW w \in Worker, Choosing(w) PROVE UndoInv'
    BY <1>1, ListUndo, RowsUndo, PriorUndo, StartRollbackUndo, DeclineUndo DEF Choosing
  <1>2. ASSUME NEW w \in Worker, Engine(w) PROVE UndoInv'
    BY <1>2, ScanUndo, ScanFailsUndo, VisitsUndo DEF Engine
  <1>3. ASSUME NEW w \in Worker, Recording(w) PROVE UndoInv'
    BY <1>3, DeployPathInsertUndo, InsertFailsUndo, FinishUndo DEF Recording
  <1>4. ASSUME NEW w \in Worker, KillCommand(w) PROVE UndoInv'
    BY <1>4, DieUndo DEF KillCommand
  <1>5. CASE KillDaemon
    <2> DEFINE ws == {w \in Worker : Busy(w) /\ run[w].kind = "push"}
    <2>1. ws \in SUBSET Worker /\ Die(ws) /\ \A w \in ws : Busy(w)
      BY <1>5 DEF KillDaemon
    <2> HIDE DEF ws
    <2>2. QED
      BY <2>1, DieUndo, NobodyDies
  <1>6. CASE StartDaemon
    BY <1>6, StartDaemonUndo
  <1>7. ASSUME NEW b \in Branch, Push(b) PROVE UndoInv'
    BY <1>7, PushUndo
  <1>8. ASSUME NEW w \in Worker, NEW b \in Branch, BeginPush(w, b) PROVE UndoInv'
    BY <1>8, BeginPushUndo
  <1>9. ASSUME NEW w \in Worker, NEW only \in Selections,
               BeginDeploy(w, only) \/ BeginRollback(w, only)
        PROVE  UndoInv'
    BY <1>9, BeginDeployUndo, BeginRollbackUndo
  <1>10. CASE UNCHANGED vars
    <2>1. Settled /\ run' = run /\ faults' = faults /\ kills' = kills
      BY <1>10 DEF vars, Settled
    <2>2. QED
      BY <2>1, SettledStep
  <1>11. QED
    BY <1>1, <1>2, <1>3, <1>4, <1>5, <1>6, <1>7, <1>8, <1>9, <1>10 DEF Next

LEMMA UndoInvariant == Spec => [](HistoryInv /\ UndoInv)
  <1>1. Init => HistoryInv /\ UndoInv
    BY InitOK, UndoInit
  <1>2. HistoryInv /\ UndoInv /\ [Next]_vars => (HistoryInv /\ UndoInv)'
    BY StepOK, UndoStep
  <1>3. QED
    BY <1>1, <1>2, PTL DEF Spec

\* After a deploy that recorded its paths, a rollback that nobody overtakes puts every
\* checkout it was asked for and did not report as failed where that deploy found it,
\* whatever became of the paths and whatever happened before (rollbackTargets).
THEOREM RollbackUndoesRecorded == Spec => []RecordedIsUndone
  <1>1. QED
    BY UndoInvariant, UndoImplies, PTL

\* The same for a deploy that was killed before it recorded, from the newest row of each
\* checkout, where nothing else went wrong (rollbackTargets, LastDeployPerPathIn).
THEOREM RollbackUndoesKilled == Spec => []KilledIsUndone
  <1>1. QED
    BY UndoInvariant, UndoImplies, PTL

=============================================================================
