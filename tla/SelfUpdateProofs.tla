-------------------------- MODULE SelfUpdateProofs --------------------------
(***************************************************************************)
(* Proofs about SelfUpdate, for any releases, crashing or not, any number  *)
(* of updaters and runs and any trouble.                                   *)
(***************************************************************************)
EXTENDS SelfUpdate, WellFoundedInduction, FiniteSetTheorems, TLAPS

-----------------------------------------------------------------------------
(* The newest release *)

\* Every nonempty set of naturals has a least element.
LEMMA LeastExists ==
  ASSUME NEW S \in SUBSET Nat, S # {}
  PROVE  \E m \in S : \A y \in S : m =< y
  <1>1. IsWellFoundedOn({ss \in Nat \X Nat : ss[1] < ss[2]}, Nat)
    BY NatLessThanWellFounded DEF OpToRel
  <1>2. PICK m \in S : \A y \in S : ~ (<<y, m>> \in {ss \in Nat \X Nat : ss[1] < ss[2]})
    BY <1>1, WFMin
  <1>3. ASSUME NEW y \in S PROVE m =< y
    <2>1. y \in Nat /\ m \in Nat
      OBVIOUS
    <2>2. ~ (y < m)
      BY <1>2, <2>1
    <2>3. QED
      BY <2>1, <2>2
  <1>4. QED
    BY <1>3

\* A nonempty set of naturals with a bound has a maximum.
LEMMA MaxExists ==
  ASSUME NEW n \in Nat, NEW S \in SUBSET (0 .. n), S # {}
  PROVE  /\ Max(S) \in S
         /\ \A y \in S : Max(S) >= y
  <1> DEFINE T == {n - x : x \in S}
  <1>0. \A x \in S : x \in Nat /\ n - x \in Nat
    OBVIOUS
  <1>1. T \subseteq Nat /\ T # {}
    BY <1>0
  <1>2. PICK m \in T : \A y \in T : m =< y
    <2> HIDE DEF T
    <2>1. QED
      BY <1>1, LeastExists
  <1>3. PICK x \in S : m = n - x
    OBVIOUS
  <1>4. \A y \in S : x >= y
    BY <1>0, <1>2, <1>3
  <1>5. QED
    BY <1>4 DEF Max

-----------------------------------------------------------------------------
(* The invariant *)

Early   == {"recall", "check", "prepare", "backup", "install", "decide", "restart", "join"}
Undoing == {"restore", "recover", "record"}

\* Before the watch nothing was sampled; in it, a streak is not yet full; and what is
\* about to be installed or put back (k is what is kept) is a release.
Sound(r, k) ==
    /\ r.at \in Early => r.samples = 0 /\ r.seen = 0
    /\ r.at = "watch" => r.seen < Streak
    /\ r.lived =< r.samples
    /\ r.at \in {"backup", "install"} => r.latest # 0
    /\ \/ r.at = "install" /\ r.supervised
       \/ r.at \in {"decide", "restart", "join", "watch", "restore"}
       => k # 0

RunsSound == \A w \in Updater : Sound(run[w], kept)

\* There is a newest release, and what was withdrawn can be counted.
Countable ==
    /\ \E n \in Nat : releases \subseteq 0 .. n
    /\ IsFiniteSet(withdrawn)

TypeInv == TypeOK /\ RunsSound /\ Countable

\* What a run fetched and what is remembered as bad has been published.
Published ==
    /\ badTag \in releases \cup withdrawn \cup {0}
    /\ \A w \in Updater : run[w].latest \in releases \cup withdrawn \cup {0}

\* Beside a quiet run there is no other.
QuietIsAlone ==
    \A w \in Updater : run[w].quiet =>
        ~ At(w, "idle") /\ \A v \in Updater \ {w} : At(v, "idle")

RolledBackAt(w) == run[w].at \in Undoing \/ (At(w, "done") /\ run[w].rolledBack)

\* What a run has said so far.
SaysLittle(w) ==
    /\ run[w].at \in Early \cup {"watch"} => ~ run[w].restarted /\ ~ run[w].rolledBack
    /\ run[w].at \in Undoing => ~ run[w].restarted
    /\ run[w].at \in {"recall", "check", "backup", "decide", "restart", "join", "watch"}
         => run[w].supervised

\* The way forward: what is installed is newer than what ran and is not remembered as bad,
\* and the run has the memory.
Forward(w) ==
    /\ run[w].at \in {"recall", "check", "prepare", "backup", "install"} =>
         binary = run[w].current
    /\ At(w, "check") => run[w].memory /\ run[w].bad = badTag
    /\ At(w, "prepare") /\ run[w].supervised /\ ~ run[w].cancelled =>
         run[w].memory /\ (Latest > run[w].current => Latest # badTag)
    /\ run[w].at \in {"backup", "install", "decide", "restart", "join", "watch"} =>
         /\ run[w].supervised => run[w].memory
         /\ run[w].latest > run[w].current
    /\ run[w].at \in {"backup", "install"} /\ run[w].supervised => run[w].latest # badTag
    /\ run[w].at \in {"install", "decide", "restart", "join", "watch"} /\ run[w].supervised =>
         kept = run[w].current
    /\ run[w].at \in {"decide", "restart", "join", "watch"} => binary = run[w].latest

\* What the unit does from the restart to the end of the watch: only a release that crashes
\* leaves a gap.
Watching(w) ==
    /\ At(w, "restart") /\ ~ run[w].cancelled => unit \in {"active", "waiting"}
    /\ run[w].at \in {"join", "watch"} =>
         /\ unit = "active" => daemon = binary
         /\ unit = "waiting" => run[w].latest \in Crashers
         /\ unit \in {"active", "waiting", "restarting"}
    /\ At(w, "watch") =>
         /\ unit # "restarting"
         /\ run[w].seen =< run[w].lived
         /\ run[w].latest \notin Crashers => run[w].seen = run[w].samples

\* The way back.
Backward(w) ==
    /\ RolledBackAt(w) =>
         /\ run[w].latest \in Crashers \/ run[w].cancelled
         /\ run[w].memory /\ run[w].latest > run[w].current
    /\ At(w, "restore") => binary = run[w].latest /\ kept = run[w].current
    /\ RolledBackAt(w) /\ ~ At(w, "restore") => binary = run[w].current
    /\ RolledBackAt(w) /\ run[w].at \in {"record", "done"} =>
         (unit = "active" => daemon = binary)
    /\ RolledBackAt(w) /\ At(w, "done") => badTag = run[w].latest

\* An update that is reported stays up.
Reported(w) ==
    At(w, "done") /\ run[w].restarted =>
        unit = "active" /\ binary = run[w].latest /\ daemon = run[w].latest
        /\ run[w].latest \notin Crashers

KeepsWord(w) ==
    SaysLittle(w) /\ Forward(w) /\ Watching(w) /\ Backward(w) /\ Reported(w)

WordInv ==
    /\ Published /\ QuietIsAlone
    /\ \A w \in Updater : run[w].quiet => KeepsWord(w)

-----------------------------------------------------------------------------
(* Types *)

\* What a run compares with is a release, and none is newer.
LEMMA LatestIsNewest ==
  ASSUME TypeInv
  PROVE  Latest \in releases /\ Latest \in Release /\ Latest \in Nat
         /\ \A r \in releases : Latest >= r
  <1>1. PICK n \in Nat : releases \subseteq 0 .. n
    BY DEF TypeInv, Countable
  <1>2. releases # {} /\ releases \subseteq Release
    BY DEF TypeInv, TypeOK
  <1>3. QED
    BY <1>1, <1>2, MaxExists, SelfUpdateAssumption DEF Latest

\* Releases are compared as numbers; none at all counts as 0.
LEMMA ReleasesAreNumbers ==
  \A r \in Release \cup {0} : r \in Nat
BY SelfUpdateAssumption

\* Whatever fails, the bound on troubles holds.
LEMMA FaultCounted ==
  ASSUME TypeInv, Fault \/ UNCHANGED trouble
  PROVE  /\ {faults, meddling, cancels, kills}' \subseteq 0 .. MaxTrouble
         /\ withdrawn' = withdrawn
  <1>1. Cardinality(withdrawn) \in Nat
    BY FS_CardinalityType DEF TypeInv, Countable
  <1>2. {faults, meddling, cancels, kills} \subseteq 0 .. MaxTrouble
    BY DEF TypeInv, TypeOK
  <1>3. QED
    BY <1>1, <1>2, SelfUpdateAssumption DEF Fault, Troubled, trouble

\* Nothing published or withdrawn, nothing new to count.
LEMMA CountableStays ==
  ASSUME TypeInv, UNCHANGED <<releases, withdrawn>>
  PROVE  Countable'
BY DEF TypeInv, Countable

\* A run that has not begun is a sound one.
LEMMA NoRunIsSound ==
  NoRun \in RunType /\ \A k : Sound(NoRun, k)
BY SelfUpdateAssumption DEF NoRun, RunType, Step, Sound, Early, Streak

\* Writing one field of a run keeps it a run.
LEMMA Setting ==
  ASSUME NEW r \in RunType
  PROVE  /\ \A at \in Step : [r EXCEPT !.at = at] \in RunType
         /\ \A b \in BOOLEAN : /\ [r EXCEPT !.quiet = b] \in RunType
                               /\ [r EXCEPT !.memory = b] \in RunType
                               /\ [r EXCEPT !.restarted = b] \in RunType
         /\ \A n \in 0 .. Samples : /\ [r EXCEPT !.samples = n] \in RunType
                                    /\ [r EXCEPT !.lived = n] \in RunType
         /\ \A n \in 0 .. Streak : [r EXCEPT !.seen = n] \in RunType
BY DEF RunType

\* Taking the quiet from runs changes nothing else of them.
LEMMA DisturbedKeeps ==
  ASSUME TypeInv
  PROVE  /\ Disturbed(run) \in [Updater -> RunType]
         /\ \A v \in Updater : /\ Sound(Disturbed(run)[v], kept)
                               /\ Disturbed(run)[v].samples = run[v].samples
  <1>1. run \in [Updater -> RunType]
    BY DEF TypeInv, TypeOK
  <1>2. Disturbed(run) \in [Updater -> RunType]
    BY <1>1 DEF Disturbed, RunType
  <1>3. \A v \in Updater : /\ Sound(Disturbed(run)[v], kept)
                           /\ Disturbed(run)[v].samples = run[v].samples
    BY <1>1 DEF TypeInv, RunsSound, Disturbed, RunType, Sound
  <1>4. QED
    BY <1>2, <1>3

\* A new process is one nobody has seen.
LEMMA StartsKeeps ==
  ASSUME TypeInv, NEW rs \in [Updater -> RunType],
         \A v \in Updater : Sound(rs[v], kept),
         run' = [v \in Updater |-> [rs[v] EXCEPT !.lived = 0]]
  PROVE  /\ run' \in [Updater -> RunType]
         /\ kept' = kept => RunsSound'
  <1>1. 0 \in 0 .. Samples
    BY SelfUpdateAssumption
  <1>2. run' \in [Updater -> RunType]
    BY <1>1 DEF RunType
  <1>3. ASSUME kept' = kept, NEW v \in Updater PROVE Sound(run'[v], kept')
    <2>1. rs[v] \in RunType /\ rs[v].samples >= 0
      BY DEF RunType
    <2>2. QED
      BY <1>3, <2>1 DEF RunType, Sound
  <1>4. QED
    BY <1>2, <1>3 DEF RunsSound

\* A step that goes on, or fails, to another one changes nothing else of a run.
LEMMA MovesOn ==
  ASSUME TypeInv, NEW w \in Updater, NEW at \in Step,
         Goto(w, at) \/ FailsTo(w, at) \/ FaultTo(w, at)
  PROVE  /\ run' \in [Updater -> RunType]
         /\ \A v \in Updater \ {w} : run'[v] = run[v]
         /\ \E q \in {run[w].quiet, FALSE} : run'[w] = [run[w] EXCEPT !.at = at, !.quiet = q]
  <1>1. run \in [Updater -> RunType]
    BY DEF TypeInv, TypeOK
  <1>2. PICK q \in {run[w].quiet, FALSE} :
          run' = [run EXCEPT ![w] = [run[w] EXCEPT !.at = at, !.quiet = q]]
    <2>1. CASE Goto(w, at)
      <3>1. run[w] = [run[w] EXCEPT !.quiet = run[w].quiet]
        BY <1>1 DEF RunType
      <3>2. run' = [run EXCEPT ![w] = [run[w] EXCEPT !.at = at, !.quiet = run[w].quiet]]
        BY <1>1, <2>1, <3>1 DEF Goto, RunType
      <3>3. QED
        BY <3>2
    <2>2. CASE run' = [run EXCEPT ![w].at = at, ![w].quiet = FALSE]
      <3>1. run' = [run EXCEPT ![w] = [run[w] EXCEPT !.at = at, !.quiet = FALSE]]
        BY <1>1, <2>2 DEF RunType
      <3>2. QED
        BY <3>1
    <2>3. QED
      BY <2>1, <2>2 DEF FailsTo, FaultTo
  <1>3. q \in BOOLEAN
    BY <1>1, <1>2 DEF RunType
  <1>4. [run[w] EXCEPT !.at = at, !.quiet = q] \in RunType
    BY <1>1, <1>3 DEF RunType
  <1>5. QED
    BY <1>1, <1>2, <1>4

\* One trouble more stays within the bound, if the action was allowed to make it.
LEMMA TroubleCounted ==
  ASSUME TypeInv, Troubled < MaxTrouble
  PROVE  /\ {faults + 1, meddling + 1, cancels + 1, kills + 1} \subseteq 0 .. MaxTrouble
         /\ {faults, meddling, cancels, kills} \subseteq 0 .. MaxTrouble
  <1>1. Cardinality(withdrawn) \in Nat
    BY FS_CardinalityType DEF TypeInv, Countable
  <1>2. {faults, meddling, cancels, kills} \subseteq 0 .. MaxTrouble
    BY DEF TypeInv, TypeOK
  <1>3. QED
    BY <1>1, <1>2, SelfUpdateAssumption DEF Troubled

\* Each step leaves every variable in its type.
LEMMA TypesKept ==
  ASSUME TypeInv, [Next]_vars
  PROVE  TypeInv'
  <1>1. ASSUME NEW w \in Updater, Recall(w)
       PROVE  TypeInv'
    <2>1. run' \in [Updater -> RunType]
      BY <1>1, LatestIsNewest, NoRunIsSound, SelfUpdateAssumption DEF Recall, At, TypeInv,
          TypeOK, RunsSound, Sound, RunType, Early, Step, Streak
    <2>2. RunsSound'
      BY <1>1, LatestIsNewest, NoRunIsSound, SelfUpdateAssumption DEF Recall, At, TypeInv,
          TypeOK, RunsSound, Sound, RunType, Early, Streak, system
    <2>3. TypeOK'
      BY <1>1, <2>1, LatestIsNewest, FaultCounted, SelfUpdateAssumption DEF Recall, At,
          TypeInv, TypeOK, RunsSound, Sound, Early, system, trouble, counts, UnitState
    <2>4. Countable'
      BY <1>1, FaultCounted, CountableStays DEF Recall, system, trouble, counts
    <2>5. QED
      BY <2>1, <2>2, <2>3, <2>4 DEF TypeInv
  <1>2. ASSUME NEW w \in Updater, RecallFails(w)
       PROVE  TypeInv'
    <2>1. run' \in [Updater -> RunType]
      <3>1. run \in [Updater -> RunType]
        BY DEF TypeInv, TypeOK
      <3>2. CASE Goto(w, "prepare")
        <4>1. "prepare" \in Step
          BY DEF Step
        <4>2. QED
          BY <3>2, <4>1, MovesOn
      <3>3. ASSUME NEW memory \in BOOLEAN,
                   run' = [run EXCEPT ![w].at = "prepare", ![w].memory = memory,
                                      ![w].quiet = FALSE]
            PROVE  run' \in [Updater -> RunType]
        <4>1. [run[w] EXCEPT !.at = "prepare", !.memory = memory, !.quiet = FALSE] \in RunType
          BY <3>1, Setting DEF Step
        <4>2. run' = [run EXCEPT ![w] =
                        [run[w] EXCEPT !.at = "prepare", !.memory = memory, !.quiet = FALSE]]
          BY <3>1, <3>3 DEF RunType
        <4>3. QED
          BY <3>1, <4>1, <4>2
      <3>4. QED
        BY <1>2, <3>2, <3>3 DEF RecallFails
    <2>2. RunsSound'
      <3>1. run \in [Updater -> RunType]
        BY DEF TypeInv, TypeOK
      <3>2. \A v \in Updater \ {w} : run'[v] = run[v]
        BY <1>2, <3>1 DEF RecallFails, Goto
      <3>3. /\ run'[w].at = "prepare" /\ run'[w].samples = run[w].samples
            /\ run'[w].seen = run[w].seen /\ run'[w].lived = run[w].lived
        <4>1. run[w] \in RunType
          BY <3>1
        <4>2. CASE Goto(w, "prepare")
          BY <3>1, <4>1, <4>2 DEF Goto, RunType
        <4>3. ASSUME NEW memory \in BOOLEAN,
                     run' = [run EXCEPT ![w].at = "prepare", ![w].memory = memory,
                                        ![w].quiet = FALSE]
              PROVE  /\ run'[w].at = "prepare" /\ run'[w].samples = run[w].samples
                     /\ run'[w].seen = run[w].seen /\ run'[w].lived = run[w].lived
          BY <3>1, <4>1, <4>3 DEF RunType
        <4>4. QED
          BY <1>2, <4>2, <4>3 DEF RecallFails
      <3>4. kept' = kept /\ run[w].at = "recall"
        BY <1>2 DEF RecallFails, At, system
      <3>5. QED
        BY <3>2, <3>3, <3>4 DEF TypeInv, RunsSound, Sound, Early
    <2>3. TypeOK'
      BY <1>2, <2>1, LatestIsNewest, FaultCounted, SelfUpdateAssumption DEF RecallFails, At,
          Goto, TypeInv, TypeOK, RunsSound, Sound, Early, system, trouble, counts, UnitState
    <2>4. Countable'
      BY <1>2, FaultCounted, CountableStays DEF RecallFails, system, trouble, counts
    <2>5. QED
      BY <2>1, <2>2, <2>3, <2>4 DEF TypeInv
  <1>3. ASSUME NEW w \in Updater, Check(w)
       PROVE  TypeInv'
    <2>1. run' \in [Updater -> RunType]
      BY <1>3, LatestIsNewest, NoRunIsSound, SelfUpdateAssumption DEF Check, SkipsKnownBad,
          At, Goto, TypeInv, TypeOK, RunsSound, Sound, RunType, Early, Step, Streak
    <2>2. RunsSound'
      BY <1>3, LatestIsNewest, NoRunIsSound, SelfUpdateAssumption DEF Check, SkipsKnownBad,
          At, Goto, TypeInv, TypeOK, RunsSound, Sound, RunType, Early, Streak, system
    <2>3. TypeOK'
      BY <1>3, <2>1, LatestIsNewest, FaultCounted, SelfUpdateAssumption DEF Check,
          SkipsKnownBad, At, Goto, TypeInv, TypeOK, RunsSound, Sound, Early, system,
          trouble, counts, UnitState
    <2>4. Countable'
      BY <1>3, FaultCounted, CountableStays DEF Check, system, trouble, counts
    <2>5. QED
      BY <2>1, <2>2, <2>3, <2>4 DEF TypeInv
  <1>4. ASSUME NEW w \in Updater, CheckFails(w)
       PROVE  TypeInv'
    <2>1. run' \in [Updater -> RunType]
      BY <1>4, LatestIsNewest, NoRunIsSound, SelfUpdateAssumption DEF CheckFails, At,
          FailsTo, Goto, TypeInv, TypeOK, RunsSound, Sound, RunType, Early, Step, Streak
    <2>2. RunsSound'
      BY <1>4, LatestIsNewest, NoRunIsSound, SelfUpdateAssumption DEF CheckFails, At,
          FailsTo, Goto, TypeInv, TypeOK, RunsSound, Sound, RunType, Early, Streak, system
    <2>3. TypeOK'
      BY <1>4, <2>1, LatestIsNewest, FaultCounted, SelfUpdateAssumption DEF CheckFails, At,
          FailsTo, Goto, TypeInv, TypeOK, RunsSound, Sound, Early, system, trouble, counts,
          UnitState
    <2>4. Countable'
      BY <1>4, FaultCounted, CountableStays DEF CheckFails, FailsTo, system, trouble, counts
    <2>5. QED
      BY <2>1, <2>2, <2>3, <2>4 DEF TypeInv
  <1>5. ASSUME NEW w \in Updater, Prepare(w)
       PROVE  TypeInv'
    <2>1. run' \in [Updater -> RunType]
      BY <1>5, LatestIsNewest, NoRunIsSound, SelfUpdateAssumption DEF Prepare, At, TypeInv,
          TypeOK, RunsSound, Sound, RunType, Early, Step, Streak
    <2>2. RunsSound'
      BY <1>5, LatestIsNewest, NoRunIsSound, SelfUpdateAssumption DEF Prepare, At, TypeInv,
          TypeOK, RunsSound, Sound, RunType, Early, Streak, system
    <2>3. TypeOK'
      BY <1>5, <2>1, LatestIsNewest, FaultCounted, SelfUpdateAssumption DEF Prepare, At,
          TypeInv, TypeOK, RunsSound, Sound, Early, system, trouble, counts, UnitState
    <2>4. Countable'
      BY <1>5, FaultCounted, CountableStays DEF Prepare, system, trouble, counts
    <2>5. QED
      BY <2>1, <2>2, <2>3, <2>4 DEF TypeInv
  <1>6. ASSUME NEW w \in Updater, PrepareFails(w)
       PROVE  TypeInv'
    <2>1. run' \in [Updater -> RunType]
      BY <1>6, LatestIsNewest, NoRunIsSound, SelfUpdateAssumption DEF PrepareFails, At,
          FailsTo, Goto, TypeInv, TypeOK, RunsSound, Sound, RunType, Early, Step, Streak
    <2>2. RunsSound'
      BY <1>6, LatestIsNewest, NoRunIsSound, SelfUpdateAssumption DEF PrepareFails, At,
          FailsTo, Goto, TypeInv, TypeOK, RunsSound, Sound, RunType, Early, Streak, system
    <2>3. TypeOK'
      BY <1>6, <2>1, LatestIsNewest, FaultCounted, SelfUpdateAssumption DEF PrepareFails,
          At, FailsTo, Goto, TypeInv, TypeOK, RunsSound, Sound, Early, system, trouble,
          counts, UnitState
    <2>4. Countable'
      BY <1>6, FaultCounted, CountableStays DEF PrepareFails, FailsTo, system, trouble,
          counts
    <2>5. QED
      BY <2>1, <2>2, <2>3, <2>4 DEF TypeInv
  <1>7. ASSUME NEW w \in Updater, Backup(w)
       PROVE  TypeInv'
    <2>1. run' \in [Updater -> RunType]
      BY <1>7, LatestIsNewest, NoRunIsSound, SelfUpdateAssumption DEF Backup, At, Goto,
          TypeInv, TypeOK, RunsSound, Sound, RunType, Early, Step, Streak
    <2>2. RunsSound'
      BY <1>7, LatestIsNewest, NoRunIsSound, SelfUpdateAssumption DEF Backup, At, Goto,
          TypeInv, TypeOK, RunsSound, Sound, RunType, Early, Streak, system
    <2>3. TypeOK'
      BY <1>7, <2>1, LatestIsNewest, FaultCounted, SelfUpdateAssumption DEF Backup, At,
          Goto, TypeInv, TypeOK, RunsSound, Sound, Early, system, trouble, counts, UnitState
    <2>4. Countable'
      BY <1>7, FaultCounted, CountableStays DEF Backup, system, trouble, counts
    <2>5. QED
      BY <2>1, <2>2, <2>3, <2>4 DEF TypeInv
  <1>8. ASSUME NEW w \in Updater, BackupFails(w)
       PROVE  TypeInv'
    <2>1. run' \in [Updater -> RunType]
      <3>1. "done" \in Step
        BY DEF Step
      <3>2. FaultTo(w, "done")
        BY <1>8 DEF BackupFails
      <3>3. QED
        BY <3>1, <3>2, MovesOn
    <2>2. RunsSound'
      BY <1>8, LatestIsNewest, NoRunIsSound, SelfUpdateAssumption DEF BackupFails, At,
          FaultTo, TypeInv, TypeOK, RunsSound, Sound, RunType, Early, Streak, system
    <2>3. TypeOK'
      BY <1>8, <2>1, LatestIsNewest, FaultCounted, SelfUpdateAssumption DEF BackupFails, At,
          FaultTo, TypeInv, TypeOK, RunsSound, Sound, Early, system, trouble, counts,
          UnitState
    <2>4. Countable'
      BY <1>8, FaultCounted, CountableStays DEF BackupFails, FaultTo, system, trouble,
          counts
    <2>5. QED
      BY <2>1, <2>2, <2>3, <2>4 DEF TypeInv
  <1>9. ASSUME NEW w \in Updater, Install(w)
       PROVE  TypeInv'
    <2>1. run' \in [Updater -> RunType]
      BY <1>9, LatestIsNewest, NoRunIsSound, SelfUpdateAssumption DEF Install, At, TypeInv,
          TypeOK, RunsSound, Sound, RunType, Early, Step, Streak
    <2>2. RunsSound'
      BY <1>9, LatestIsNewest, NoRunIsSound, SelfUpdateAssumption DEF Install, At, TypeInv,
          TypeOK, RunsSound, Sound, RunType, Early, Streak, system
    <2>3. TypeOK'
      <3>1. run[w].latest \in Release \cup {0}
        BY DEF TypeInv, TypeOK, RunType
      <3>2. binary' \in Release
        BY <1>9, <3>1 DEF Install, At, TypeInv, TypeOK, RunsSound, Sound
      <3>3. QED
        BY <1>9, <2>1, <3>2 DEF Install, TypeInv, TypeOK, system, trouble, counts
    <2>4. Countable'
      BY <1>9, FaultCounted, CountableStays DEF Install, system, trouble, counts
    <2>5. QED
      BY <2>1, <2>2, <2>3, <2>4 DEF TypeInv
  <1>10. ASSUME NEW w \in Updater, InstallFails(w)
       PROVE  TypeInv'
    <2>1. run' \in [Updater -> RunType]
      BY <1>10, LatestIsNewest, NoRunIsSound, SelfUpdateAssumption DEF InstallFails, At,
          FailsTo, Goto, TypeInv, TypeOK, RunsSound, Sound, RunType, Early, Step, Streak
    <2>2. RunsSound'
      BY <1>10, LatestIsNewest, NoRunIsSound, SelfUpdateAssumption DEF InstallFails, At,
          FailsTo, Goto, TypeInv, TypeOK, RunsSound, Sound, RunType, Early, Streak, system
    <2>3. TypeOK'
      BY <1>10, <2>1, LatestIsNewest, FaultCounted, SelfUpdateAssumption DEF InstallFails,
          At, FailsTo, Goto, TypeInv, TypeOK, RunsSound, Sound, Early, system, trouble,
          counts, UnitState
    <2>4. Countable'
      BY <1>10, FaultCounted, CountableStays DEF InstallFails, FailsTo, system, trouble,
          counts
    <2>5. QED
      BY <2>1, <2>2, <2>3, <2>4 DEF TypeInv
  <1>11. ASSUME NEW w \in Updater, Decide(w)
       PROVE  TypeInv'
    <2>1. run' \in [Updater -> RunType]
      BY <1>11, LatestIsNewest, NoRunIsSound, SelfUpdateAssumption DEF Decide, LeftStopped,
          At, Goto, TypeInv, TypeOK, RunsSound, Sound, RunType, Early, Step, Streak
    <2>2. RunsSound'
      BY <1>11, LatestIsNewest, NoRunIsSound, SelfUpdateAssumption DEF Decide, LeftStopped,
          At, Goto, TypeInv, TypeOK, RunsSound, Sound, RunType, Early, Streak, system
    <2>3. TypeOK'
      BY <1>11, <2>1, LatestIsNewest, FaultCounted, SelfUpdateAssumption DEF Decide,
          LeftStopped, At, Goto, TypeInv, TypeOK, RunsSound, Sound, Early, system, trouble,
          counts, UnitState
    <2>4. Countable'
      BY <1>11, FaultCounted, CountableStays DEF Decide, system, trouble, counts
    <2>5. QED
      BY <2>1, <2>2, <2>3, <2>4 DEF TypeInv
  <1>12. ASSUME NEW w \in Updater, Restart(w)
       PROVE  TypeInv'
    <2>1. run' \in [Updater -> RunType]
      BY <1>12, LatestIsNewest, NoRunIsSound, SelfUpdateAssumption DEF Restart,
          TryRestarted, Restartable, At, Goto, TypeInv, TypeOK, RunsSound, Sound, RunType,
          Early, Step, Streak
    <2>2. RunsSound'
      BY <1>12, LatestIsNewest, NoRunIsSound, SelfUpdateAssumption DEF Restart,
          TryRestarted, Restartable, At, Goto, TypeInv, TypeOK, RunsSound, Sound, RunType,
          Early, Streak, system
    <2>3. TypeOK'
      BY <1>12, <2>1, LatestIsNewest, FaultCounted, SelfUpdateAssumption DEF Restart,
          TryRestarted, Restartable, At, Goto, TypeInv, TypeOK, RunsSound, Sound, Early,
          system, trouble, counts, UnitState
    <2>4. Countable'
      BY <1>12, FaultCounted, CountableStays DEF Restart, system, trouble, counts
    <2>5. QED
      BY <2>1, <2>2, <2>3, <2>4 DEF TypeInv
  <1>13. ASSUME NEW w \in Updater, RestartFails(w)
       PROVE  TypeInv'
    <2>1. run' \in [Updater -> RunType]
      BY <1>13, LatestIsNewest, NoRunIsSound, SelfUpdateAssumption DEF RestartFails, At,
          FailsTo, Goto, TypeInv, TypeOK, RunsSound, Sound, RunType, Early, Step, Streak
    <2>2. RunsSound'
      BY <1>13, LatestIsNewest, NoRunIsSound, SelfUpdateAssumption DEF RestartFails, At,
          FailsTo, Goto, TypeInv, TypeOK, RunsSound, Sound, RunType, Early, Streak, system
    <2>3. TypeOK'
      BY <1>13, <2>1, LatestIsNewest, FaultCounted, SelfUpdateAssumption DEF RestartFails,
          At, FailsTo, Goto, TypeInv, TypeOK, RunsSound, Sound, Early, system, trouble,
          counts, UnitState
    <2>4. Countable'
      BY <1>13, FaultCounted, CountableStays DEF RestartFails, FailsTo, system, trouble,
          counts
    <2>5. QED
      BY <2>1, <2>2, <2>3, <2>4 DEF TypeInv
  <1>14. ASSUME NEW w \in Updater, Join(w)
       PROVE  TypeInv'
    <2>1. run' \in [Updater -> RunType]
      BY <1>14, LatestIsNewest, NoRunIsSound, SelfUpdateAssumption DEF Join, At, Goto,
          TypeInv, TypeOK, RunsSound, Sound, RunType, Early, Step, Streak
    <2>2. RunsSound'
      BY <1>14, LatestIsNewest, NoRunIsSound, SelfUpdateAssumption DEF Join, At, Goto,
          TypeInv, TypeOK, RunsSound, Sound, RunType, Early, Streak, system
    <2>3. TypeOK'
      BY <1>14, <2>1, LatestIsNewest, FaultCounted, SelfUpdateAssumption DEF Join, At, Goto,
          TypeInv, TypeOK, RunsSound, Sound, Early, system, trouble, counts, UnitState
    <2>4. Countable'
      BY <1>14, FaultCounted, CountableStays DEF Join, system, trouble, counts
    <2>5. QED
      BY <2>1, <2>2, <2>3, <2>4 DEF TypeInv
  <1>15. ASSUME NEW w \in Updater, JoinFails(w)
       PROVE  TypeInv'
    <2>1. run' \in [Updater -> RunType]
      BY <1>15, LatestIsNewest, NoRunIsSound, SelfUpdateAssumption DEF JoinFails, At, Goto,
          FailsTo, TypeInv, TypeOK, RunsSound, Sound, RunType, Early, Step, Streak
    <2>2. RunsSound'
      BY <1>15, LatestIsNewest, NoRunIsSound, SelfUpdateAssumption DEF JoinFails, At, Goto,
          FailsTo, TypeInv, TypeOK, RunsSound, Sound, RunType, Early, Streak, system
    <2>3. TypeOK'
      BY <1>15, <2>1, LatestIsNewest, FaultCounted, SelfUpdateAssumption DEF JoinFails, At,
          Goto, FailsTo, TypeInv, TypeOK, RunsSound, Sound, Early, system, trouble, counts,
          UnitState
    <2>4. Countable'
      BY <1>15, FaultCounted, CountableStays DEF JoinFails, FailsTo, system, trouble, counts
    <2>5. QED
      BY <2>1, <2>2, <2>3, <2>4 DEF TypeInv
  <1>16. ASSUME NEW w \in Updater, Sample(w)
       PROVE  TypeInv'
    <2>1. run' \in [Updater -> RunType]
      <3>1. run \in [Updater -> RunType]
        BY DEF TypeInv, TypeOK
      <3>2. /\ run[w].samples + 1 \in 0 .. Samples
            /\ run[w].seen + 1 \in 0 .. Streak
            /\ run[w].lived + 1 \in 0 .. Samples
            /\ 0 \in 0 .. Streak
        BY <1>16, <3>1, SelfUpdateAssumption DEF Sample, At, TimeIsUp, TypeInv, RunsSound,
            Sound, RunType, Streak
      <3>3. CASE unit = "active"
        <4> DEFINE b == Healthy(run[w].seen + 1)
                   r == [run[w] EXCEPT !.samples = run[w].samples + 1, !.seen = run[w].seen + 1,
                         !.lived = run[w].lived + 1, !.restarted = b,
                         !.at = IF b THEN "done" ELSE "watch"]
        <4>1. run' = [run EXCEPT ![w] = r]
          BY <1>16, <3>3 DEF Sample
        <4>2. b \in BOOLEAN
          BY DEF Healthy
        <4> HIDE DEF b
        <4>3. r \in RunType
          <5>1. run[w] \in RunType /\ (IF b THEN "done" ELSE "watch") \in Step
            BY <3>1 DEF Step
          <5>2. QED
            BY <3>2, <4>2, <5>1, Setting
        <4> HIDE DEF r
        <4>4. QED
          BY <3>1, <4>1, <4>3
      <3>4. CASE unit # "active"
        BY <1>16, <3>1, <3>2, <3>4 DEF Sample, RunType
      <3>5. QED
        BY <3>3, <3>4
    <2>2. RunsSound'
      <3>1. run \in [Updater -> RunType]
        BY DEF TypeInv, TypeOK
      <3>2. \A v \in Updater \ {w} : run'[v] = run[v]
        BY <1>16, <3>1 DEF Sample
      <3>3. /\ run[w].samples \in Nat /\ run[w].lived \in Nat /\ run[w].seen \in Nat
            /\ run[w].lived =< run[w].samples /\ run[w].seen < Streak
            /\ run[w].at = "watch" /\ kept # 0 /\ kept' = kept
        BY <1>16, <3>1 DEF Sample, At, TypeInv, RunsSound, Sound, RunType, system
      <3>4. CASE unit = "active"
        <4> DEFINE b == Healthy(run[w].seen + 1)
                   r == [run[w] EXCEPT !.samples = run[w].samples + 1, !.seen = run[w].seen + 1,
                         !.lived = run[w].lived + 1, !.restarted = b,
                         !.at = IF b THEN "done" ELSE "watch"]
        <4>1. run' = [run EXCEPT ![w] = r]
          BY <1>16, <3>4 DEF Sample
        <4>2. run'[w] = r
          BY <3>1, <4>1
        <4>3. /\ run'[w].samples = run[w].samples + 1 /\ run'[w].lived = run[w].lived + 1
              /\ run'[w].seen = run[w].seen + 1
              /\ run'[w].at = IF b THEN "done" ELSE "watch"
          <5> HIDE DEF b
          <5>1. QED
            BY <3>1, <4>2 DEF RunType
        <4>4. QED
          BY <3>2, <3>3, <4>3 DEF TypeInv, RunsSound, Sound, Early, Healthy, Streak
      <3>5. CASE unit # "active"
        <4>1. /\ run'[w].samples = run[w].samples + 1 /\ run'[w].lived = run[w].lived
              /\ run'[w].seen = 0 /\ run'[w].at = "watch"
          BY <1>16, <3>1, <3>3, <3>5 DEF Sample, RunType
        <4>2. QED
          BY <3>2, <3>3, <4>1 DEF TypeInv, RunsSound, Sound, Early, Streak
      <3>6. QED
        BY <3>4, <3>5
    <2>3. TypeOK'
      BY <1>16, <2>1, LatestIsNewest, FaultCounted, SelfUpdateAssumption DEF Sample,
          TimeIsUp, Healthy, At, TypeInv, TypeOK, RunsSound, Sound, Early, system, trouble,
          counts, UnitState
    <2>4. Countable'
      BY <1>16, FaultCounted, CountableStays DEF Sample, system, trouble, counts
    <2>5. QED
      BY <2>1, <2>2, <2>3, <2>4 DEF TypeInv
  <1>17. ASSUME NEW w \in Updater, Unhealthy(w)
       PROVE  TypeInv'
    <2>1. run' \in [Updater -> RunType]
      BY <1>17, LatestIsNewest, NoRunIsSound, SelfUpdateAssumption DEF Unhealthy, TimeIsUp,
          At, Goto, TypeInv, TypeOK, RunsSound, Sound, RunType, Early, Step, Streak
    <2>2. RunsSound'
      BY <1>17, LatestIsNewest, NoRunIsSound, SelfUpdateAssumption DEF Unhealthy, TimeIsUp,
          At, Goto, TypeInv, TypeOK, RunsSound, Sound, RunType, Early, Streak, system
    <2>3. TypeOK'
      BY <1>17, <2>1, LatestIsNewest, FaultCounted, SelfUpdateAssumption DEF Unhealthy,
          TimeIsUp, At, Goto, TypeInv, TypeOK, RunsSound, Sound, Early, system, trouble,
          counts, UnitState
    <2>4. Countable'
      BY <1>17, FaultCounted, CountableStays DEF Unhealthy, system, trouble, counts
    <2>5. QED
      BY <2>1, <2>2, <2>3, <2>4 DEF TypeInv
  <1>18. ASSUME NEW w \in Updater, Restore(w)
       PROVE  TypeInv'
    <2>1. run' \in [Updater -> RunType]
      BY <1>18, LatestIsNewest, NoRunIsSound, SelfUpdateAssumption DEF Restore, At, TypeInv,
          TypeOK, RunsSound, Sound, RunType, Early, Step, Streak
    <2>2. RunsSound'
      BY <1>18, LatestIsNewest, NoRunIsSound, SelfUpdateAssumption DEF Restore, At, TypeInv,
          TypeOK, RunsSound, Sound, RunType, Early, Streak, system
    <2>3. TypeOK'
      BY <1>18, <2>1, LatestIsNewest, FaultCounted, SelfUpdateAssumption DEF Restore, At,
          TypeInv, TypeOK, RunsSound, Sound, Early, system, trouble, counts, UnitState
    <2>4. Countable'
      BY <1>18, FaultCounted, CountableStays DEF Restore, system, trouble, counts
    <2>5. QED
      BY <2>1, <2>2, <2>3, <2>4 DEF TypeInv
  <1>19. ASSUME NEW w \in Updater, RestoreFails(w)
       PROVE  TypeInv'
    <2>1. run' \in [Updater -> RunType]
      BY <1>19, LatestIsNewest, NoRunIsSound, SelfUpdateAssumption DEF RestoreFails, At,
          TypeInv, TypeOK, RunsSound, Sound, RunType, Early, Step, Streak
    <2>2. RunsSound'
      BY <1>19, LatestIsNewest, NoRunIsSound, SelfUpdateAssumption DEF RestoreFails, At,
          TypeInv, TypeOK, RunsSound, Sound, RunType, Early, Streak, system
    <2>3. TypeOK'
      BY <1>19, <2>1, LatestIsNewest, FaultCounted, SelfUpdateAssumption DEF RestoreFails,
          At, TypeInv, TypeOK, RunsSound, Sound, Early, system, trouble, counts, UnitState
    <2>4. Countable'
      BY <1>19, FaultCounted, CountableStays DEF RestoreFails, system, trouble, counts
    <2>5. QED
      BY <2>1, <2>2, <2>3, <2>4 DEF TypeInv
  <1>20. ASSUME NEW w \in Updater, Recover(w)
       PROVE  TypeInv'
    <2>1. run' \in [Updater -> RunType]
      BY <1>20, LatestIsNewest, NoRunIsSound, SelfUpdateAssumption DEF Recover,
          TryRestarted, Restartable, At, Goto, TypeInv, TypeOK, RunsSound, Sound, RunType,
          Early, Step, Streak
    <2>2. RunsSound'
      BY <1>20, LatestIsNewest, NoRunIsSound, SelfUpdateAssumption DEF Recover,
          TryRestarted, Restartable, At, Goto, TypeInv, TypeOK, RunsSound, Sound, RunType,
          Early, Streak, system
    <2>3. TypeOK'
      BY <1>20, <2>1, LatestIsNewest, FaultCounted, SelfUpdateAssumption DEF Recover,
          TryRestarted, Restartable, At, Goto, TypeInv, TypeOK, RunsSound, Sound, Early,
          system, trouble, counts, UnitState
    <2>4. Countable'
      BY <1>20, FaultCounted, CountableStays DEF Recover, system, trouble, counts
    <2>5. QED
      BY <2>1, <2>2, <2>3, <2>4 DEF TypeInv
  <1>21. ASSUME NEW w \in Updater, RecoverFails(w)
       PROVE  TypeInv'
    <2>1. run' \in [Updater -> RunType]
      <3>1. "record" \in Step
        BY DEF Step
      <3>2. FaultTo(w, "record")
        BY <1>21 DEF RecoverFails
      <3>3. QED
        BY <3>1, <3>2, MovesOn
    <2>2. RunsSound'
      BY <1>21, LatestIsNewest, NoRunIsSound, SelfUpdateAssumption DEF RecoverFails, At,
          FaultTo, TypeInv, TypeOK, RunsSound, Sound, RunType, Early, Streak, system
    <2>3. TypeOK'
      BY <1>21, <2>1, LatestIsNewest, FaultCounted, SelfUpdateAssumption DEF RecoverFails,
          At, FaultTo, TypeInv, TypeOK, RunsSound, Sound, Early, system, trouble, counts,
          UnitState
    <2>4. Countable'
      BY <1>21, FaultCounted, CountableStays DEF RecoverFails, FaultTo, system, trouble,
          counts
    <2>5. QED
      BY <2>1, <2>2, <2>3, <2>4 DEF TypeInv
  <1>22. ASSUME NEW w \in Updater, Record(w)
       PROVE  TypeInv'
    <2>1. run' \in [Updater -> RunType]
      BY <1>22, LatestIsNewest, NoRunIsSound, SelfUpdateAssumption DEF Record, At, Goto,
          TypeInv, TypeOK, RunsSound, Sound, RunType, Early, Step, Streak
    <2>2. RunsSound'
      BY <1>22, LatestIsNewest, NoRunIsSound, SelfUpdateAssumption DEF Record, At, Goto,
          TypeInv, TypeOK, RunsSound, Sound, RunType, Early, Streak, system
    <2>3. TypeOK'
      <3>1. run[w].latest \in Release \cup {0}
        BY DEF TypeInv, TypeOK, RunType
      <3>2. badTag' \in Release \cup {0}
        BY <1>22, <3>1 DEF Record, At, TypeInv, TypeOK, RunsSound, Sound
      <3>3. QED
        BY <1>22, <2>1, <3>2 DEF Record, TypeInv, TypeOK, system, trouble, counts
    <2>4. Countable'
      BY <1>22, FaultCounted, CountableStays DEF Record, system, trouble, counts
    <2>5. QED
      BY <2>1, <2>2, <2>3, <2>4 DEF TypeInv
  <1>23. ASSUME NEW w \in Updater, RecordFails(w)
       PROVE  TypeInv'
    <2>1. run' \in [Updater -> RunType]
      <3>1. "done" \in Step
        BY DEF Step
      <3>2. FaultTo(w, "done")
        BY <1>23 DEF RecordFails
      <3>3. QED
        BY <3>1, <3>2, MovesOn
    <2>2. RunsSound'
      BY <1>23, LatestIsNewest, NoRunIsSound, SelfUpdateAssumption DEF RecordFails, At,
          FaultTo, TypeInv, TypeOK, RunsSound, Sound, RunType, Early, Streak, system
    <2>3. TypeOK'
      BY <1>23, <2>1, LatestIsNewest, FaultCounted, SelfUpdateAssumption DEF RecordFails,
          At, FaultTo, TypeInv, TypeOK, RunsSound, Sound, Early, system, trouble, counts,
          UnitState
    <2>4. Countable'
      BY <1>23, FaultCounted, CountableStays DEF RecordFails, FaultTo, system, trouble,
          counts
    <2>5. QED
      BY <2>1, <2>2, <2>3, <2>4 DEF TypeInv
  <1>24. ASSUME NEW w \in Updater, Finish(w)
       PROVE  TypeInv'
    <2>1. run' \in [Updater -> RunType]
      BY <1>24, LatestIsNewest, NoRunIsSound, SelfUpdateAssumption DEF Finish, NoRun, At,
          TypeInv, TypeOK, RunsSound, Sound, RunType, Early, Step, Streak
    <2>2. RunsSound'
      BY <1>24, LatestIsNewest, NoRunIsSound, SelfUpdateAssumption DEF Finish, NoRun, At,
          TypeInv, TypeOK, RunsSound, Sound, RunType, Early, Streak, system
    <2>3. TypeOK'
      BY <1>24, <2>1, LatestIsNewest, FaultCounted, SelfUpdateAssumption DEF Finish, At,
          TypeInv, TypeOK, RunsSound, Sound, Early, system, trouble, counts, UnitState
    <2>4. Countable'
      BY <1>24, FaultCounted, CountableStays DEF Finish, system, trouble, counts
    <2>5. QED
      BY <2>1, <2>2, <2>3, <2>4 DEF TypeInv
  <1>25. ASSUME NEW w \in Updater, Cancel(w)
       PROVE  TypeInv'
    <2>1. run' \in [Updater -> RunType]
      <3>1. run \in [Updater -> RunType]
        BY DEF TypeInv, TypeOK
      <3>2. [run[w] EXCEPT !.cancelled = TRUE] \in RunType
        BY <3>1 DEF RunType
      <3>3. run' = [run EXCEPT ![w] = [run[w] EXCEPT !.cancelled = TRUE]]
        BY <1>25 DEF Cancel
      <3>4. QED
        BY <3>1, <3>2, <3>3
    <2>2. RunsSound'
      BY <1>25, LatestIsNewest, NoRunIsSound, SelfUpdateAssumption DEF Cancel, TypeInv,
          TypeOK, RunsSound, Sound, RunType, Early, Streak, system
    <2>3. TypeOK'
      BY <1>25, <2>1, TroubleCounted DEF Cancel, TypeInv, TypeOK, system, trouble, counts
    <2>4. Countable'
      BY <1>25, FaultCounted, CountableStays DEF Cancel, system, trouble, counts
    <2>5. QED
      BY <2>1, <2>2, <2>3, <2>4 DEF TypeInv
  <1>26. ASSUME NEW w \in Updater, Kill(w)
       PROVE  TypeInv'
    <2>1. run' \in [Updater -> RunType]
      BY <1>26, LatestIsNewest, NoRunIsSound, SelfUpdateAssumption DEF Kill, NoRun, At,
          TypeInv, TypeOK, RunsSound, Sound, RunType, Early, Step, Streak
    <2>2. RunsSound'
      BY <1>26, LatestIsNewest, NoRunIsSound, SelfUpdateAssumption DEF Kill, NoRun, At,
          TypeInv, TypeOK, RunsSound, Sound, RunType, Early, Streak, system
    <2>3. TypeOK'
      BY <1>26, <2>1, TroubleCounted DEF Kill, TypeInv, TypeOK, system, trouble, counts
    <2>4. Countable'
      BY <1>26, FaultCounted, CountableStays DEF Kill, system, trouble, counts
    <2>5. QED
      BY <2>1, <2>2, <2>3, <2>4 DEF TypeInv
  <1>27. ASSUME NEW w \in Updater, NEW supervised \in BOOLEAN, Begin(w, supervised)
       PROVE  TypeInv'
    <2>1. run' \in [Updater -> RunType] /\ RunsSound'
      <3> DEFINE r == [NoRun EXCEPT !.at = IF supervised THEN "recall" ELSE "prepare",
                         !.supervised = supervised, !.current = binary,
                         !.quiet = \A v \in Updater : At(v, "idle")]
      <3>1. run' = [Disturbed(run) EXCEPT ![w] = r] /\ kept' = kept
        BY <1>27 DEF Begin, system
      <3>2. r \in RunType
        BY NoRunIsSound DEF TypeInv, TypeOK, RunType, Step
      <3>3. Sound(r, kept)
        BY SelfUpdateAssumption DEF NoRun, Sound, Early, Streak
      <3> HIDE DEF r
      <3>4. run' \in [Updater -> RunType]
        BY <3>1, <3>2, DisturbedKeeps
      <3>5. QED
        BY <3>1, <3>3, <3>4, DisturbedKeeps DEF RunsSound
    <2>3. TypeOK'
      BY <1>27, <2>1, LatestIsNewest, FaultCounted, SelfUpdateAssumption DEF Begin, At,
          TypeInv, TypeOK, RunsSound, Sound, Early, system, trouble, counts, UnitState
    <2>4. Countable'
      BY <1>27, FaultCounted, CountableStays DEF Begin, system, trouble, counts
    <2>5. QED
      BY <2>1, <2>3, <2>4 DEF TypeInv
  <1>28. ASSUME JobEnds
       PROVE  TypeInv'
    <2>1. run' \in [Updater -> RunType] /\ RunsSound'
      BY <1>28, DisturbedKeeps, StartsKeeps, NoRunIsSound DEF JobEnds, Starts, TypeInv,
          TypeOK, RunsSound, system
    <2>3. TypeOK'
      BY <1>28, <2>1, LatestIsNewest, FaultCounted, SelfUpdateAssumption DEF JobEnds,
          Starts, TypeInv, TypeOK, RunsSound, Sound, Early, system, trouble, counts,
          UnitState
    <2>4. Countable'
      BY <1>28, FaultCounted, CountableStays DEF JobEnds, system, trouble, counts
    <2>5. QED
      BY <2>1, <2>3, <2>4 DEF TypeInv
  <1>29. ASSUME Crash
       PROVE  TypeInv'
    <2>1. run' \in [Updater -> RunType]
      BY <1>29, LatestIsNewest, NoRunIsSound, SelfUpdateAssumption DEF Crash, TypeInv,
          TypeOK, RunsSound, Sound, RunType, Early, Step, Streak
    <2>2. RunsSound'
      BY <1>29, LatestIsNewest, NoRunIsSound, SelfUpdateAssumption DEF Crash, TypeInv,
          TypeOK, RunsSound, Sound, RunType, Early, Streak, system
    <2>3. TypeOK'
      BY <1>29, <2>1, LatestIsNewest, FaultCounted, SelfUpdateAssumption DEF Crash, TypeInv,
          TypeOK, RunsSound, Sound, Early, system, trouble, counts, UnitState
    <2>4. Countable'
      BY <1>29, FaultCounted, CountableStays DEF Crash, system, trouble, counts
    <2>5. QED
      BY <2>1, <2>2, <2>3, <2>4 DEF TypeInv
  <1>30. ASSUME AutoRestart
       PROVE  TypeInv'
    <2>1. run' \in [Updater -> RunType] /\ RunsSound'
      BY <1>30, DisturbedKeeps, StartsKeeps, NoRunIsSound DEF AutoRestart, Starts, At,
          TypeInv, TypeOK, RunsSound, system
    <2>3. TypeOK'
      BY <1>30, <2>1, LatestIsNewest, FaultCounted, SelfUpdateAssumption DEF AutoRestart,
          Starts, At, TypeInv, TypeOK, RunsSound, Sound, Early, system, trouble, counts,
          UnitState
    <2>4. Countable'
      BY <1>30, FaultCounted, CountableStays DEF AutoRestart, system, trouble, counts
    <2>5. QED
      BY <2>1, <2>3, <2>4 DEF TypeInv
  <1>31. ASSUME Die
       PROVE  TypeInv'
    <2>1. run' \in [Updater -> RunType] /\ RunsSound'
      BY <1>31, DisturbedKeeps, StartsKeeps, NoRunIsSound DEF Die, TypeInv, TypeOK,
          RunsSound, system
    <2>3. TypeOK'
      BY <1>31, <2>1, LatestIsNewest, FaultCounted, SelfUpdateAssumption DEF Die, TypeInv,
          TypeOK, RunsSound, Sound, Early, system, trouble, counts, UnitState
    <2>4. Countable'
      BY <1>31, FaultCounted, CountableStays DEF Die, system, trouble, counts
    <2>5. QED
      BY <2>1, <2>3, <2>4 DEF TypeInv
  <1>32. ASSUME Meddle
       PROVE  TypeInv'
    <2>1. run' \in [Updater -> RunType] /\ RunsSound'
      BY <1>32, DisturbedKeeps, StartsKeeps, NoRunIsSound DEF Meddle, Starts, TypeInv,
          TypeOK, RunsSound, system
    <2>3. TypeOK'
      <3>1. unit' \in UnitState /\ daemon' \in Release
        BY <1>32 DEF Meddle, Starts, TypeInv, TypeOK, UnitState
      <3>2. QED
        BY <1>32, <2>1, <3>1, TroubleCounted DEF Meddle, TypeInv, TypeOK
    <2>4. Countable'
      BY <1>32, FaultCounted, CountableStays DEF Meddle, system, trouble, counts
    <2>5. QED
      BY <2>1, <2>3, <2>4 DEF TypeInv
  <1>33. ASSUME Withdraw
       PROVE  TypeInv'
    <2>1. run' \in [Updater -> RunType] /\ RunsSound'
      BY <1>33, DisturbedKeeps, StartsKeeps, NoRunIsSound DEF Withdraw, TypeInv, TypeOK,
          RunsSound, system
    <2>3. TypeOK'
      BY <1>33, <2>1, LatestIsNewest, FaultCounted, SelfUpdateAssumption DEF Withdraw,
          TypeInv, TypeOK, RunsSound, Sound, Early, system, trouble, counts, UnitState
    <2>4. Countable'
      <3>1. IsFiniteSet(withdrawn')
        BY <1>33, FS_AddElement DEF Withdraw, TypeInv, Countable
      <3>2. QED
        BY <1>33, <3>1 DEF Withdraw, TypeInv, Countable
    <2>5. QED
      BY <2>1, <2>3, <2>4 DEF TypeInv
  <1>34. ASSUME NEW r \in Release, Publish(r)
       PROVE  TypeInv'
    <2>1. run' \in [Updater -> RunType]
      BY <1>34, LatestIsNewest, NoRunIsSound, SelfUpdateAssumption DEF Publish, TypeInv,
          TypeOK, RunsSound, Sound, RunType, Early, Step, Streak
    <2>2. RunsSound'
      BY <1>34, LatestIsNewest, NoRunIsSound, SelfUpdateAssumption DEF Publish, TypeInv,
          TypeOK, RunsSound, Sound, RunType, Early, Streak, system
    <2>3. TypeOK'
      BY <1>34, <2>1, LatestIsNewest, FaultCounted, SelfUpdateAssumption DEF Publish,
          TypeInv, TypeOK, RunsSound, Sound, Early, system, trouble, counts, UnitState
    <2>4. Countable'
      <3>1. PICK n \in Nat : releases \subseteq 0 .. n
        BY DEF TypeInv, Countable
      <3>2. r \in Nat /\ n + r \in Nat
        BY SelfUpdateAssumption
      <3>3. releases' \subseteq 0 .. (n + r)
        BY <1>34, <3>1, <3>2 DEF Publish
      <3>4. QED
        BY <1>34, <3>2, <3>3 DEF Publish, TypeInv, Countable, counts, trouble
    <2>5. QED
      BY <2>1, <2>2, <2>3, <2>4 DEF TypeInv
  <1>35. CASE UNCHANGED vars
    BY <1>35, CountableStays DEF vars, system, counts, trouble, TypeInv, TypeOK, RunsSound
  <1>36. QED
    BY <1>1, <1>2, <1>3, <1>4, <1>5, <1>6, <1>7, <1>8, <1>9, <1>10, <1>11, <1>12, <1>13,
        <1>14, <1>15, <1>16, <1>17, <1>18, <1>19, <1>20, <1>21, <1>22, <1>23, <1>24, <1>25,
        <1>26, <1>27, <1>28, <1>29, <1>30, <1>31, <1>32, <1>33, <1>34, <1>35 DEF Next,
        Update, Systemd

\* The installation the model starts from is typed and sound.
LEMMA InitTypeInv ==
  Init => TypeInv
  <1>1. ASSUME Init PROVE TypeOK
    BY <1>1, NoRunIsSound, SelfUpdateAssumption DEF Init, TypeOK, UnitState
  <1>2. ASSUME Init PROVE RunsSound
    BY <1>2, NoRunIsSound DEF Init, RunsSound
  <1>3. ASSUME Init PROVE Countable
    <2>1. First \in Nat /\ releases \subseteq 0 .. First
      BY <1>3, SelfUpdateAssumption DEF Init
    <2>2. IsFiniteSet(withdrawn)
      BY <1>3, FS_EmptySet DEF Init
    <2>3. QED
      BY <2>1, <2>2 DEF Countable
  <1>4. QED
    BY <1>1, <1>2, <1>3 DEF TypeInv

\* The types hold in every state of every execution: the run checks it for three releases
\* and one updater.
THEOREM TypeCorrect ==
  Spec => []TypeOK
  <1>1. Init => TypeInv
    BY InitTypeInv
  <1>2. TypeInv => TypeOK
    BY DEF TypeInv
  <1>3. QED
    BY <1>1, <1>2, TypesKept, PTL DEF Spec

-----------------------------------------------------------------------------
(* What a quiet run keeps *)

SameRun(w) ==
    /\ run'[w].supervised = run[w].supervised /\ run'[w].cancelled = run[w].cancelled
    /\ run'[w].memory = run[w].memory /\ run'[w].bad = run[w].bad
    /\ run'[w].current = run[w].current /\ run'[w].latest = run[w].latest
    /\ run'[w].restarted = run[w].restarted /\ run'[w].rolledBack = run[w].rolledBack
    /\ run'[w].samples = run[w].samples /\ run'[w].seen = run[w].seen
    /\ run'[w].lived = run[w].lived

\* A run that moves on and is still quiet met no fault, and fails only if cancelled.
LEMMA QuietMove ==
  ASSUME TypeInv, NEW w \in Updater, NEW at \in Step,
         Goto(w, at) \/ FailsTo(w, at) \/ FaultTo(w, at)
  PROVE  /\ run'[w].at = at /\ SameRun(w)
         /\ \A v \in Updater \ {w} : run'[v] = run[v]
         /\ run'[w].quiet => run[w].quiet /\ ~ FaultTo(w, at)
         /\ run'[w].quiet /\ FailsTo(w, at) => run[w].cancelled
  <1>1. run \in [Updater -> RunType] /\ run[w] \in RunType
    BY DEF TypeInv, TypeOK
  <1>2. PICK q \in {run[w].quiet, FALSE} : run'[w] = [run[w] EXCEPT !.at = at, !.quiet = q]
    BY MovesOn
  <1>3. run'[w].at = at /\ SameRun(w) /\ run'[w].quiet = q
    BY <1>1, <1>2 DEF SameRun, RunType
  <1>4. ASSUME run' = [run EXCEPT ![w].at = at, ![w].quiet = FALSE] PROVE ~ run'[w].quiet
    BY <1>1, <1>4 DEF RunType
  <1>5. FaultTo(w, at) => ~ run'[w].quiet
    BY <1>4 DEF FaultTo
  <1>6. FailsTo(w, at) /\ run'[w].quiet => run[w].cancelled
    BY <1>4 DEF FailsTo
  <1>7. QED
    BY <1>3, <1>5, <1>6, MovesOn

\* A step of an updater matters to nobody's word but its own: nobody else is quiet.
LEMMA OthersAreUnheard ==
  ASSUME WordInv, Published', NEW w \in Updater, ~ At(w, "idle"),
         \A v \in Updater \ {w} : run'[v] = run[v],
         run'[w].quiet => run[w].quiet /\ run'[w].at # "idle" /\ KeepsWord(w)'
  PROVE  WordInv'
  <1>1. \A v \in Updater \ {w} : ~ run[v].quiet
    BY DEF WordInv, QuietIsAlone
  <1>2. QuietIsAlone'
    BY <1>1 DEF WordInv, QuietIsAlone, At
  <1>3. ASSUME NEW v \in Updater, run'[v].quiet PROVE KeepsWord(v)'
    BY <1>1, <1>3
  <1>4. QED
    BY <1>2, <1>3 DEF WordInv

\* Whoever was at work is heard once disturbed, and a quiet run was at work.
LEMMA NobodyIsQuiet ==
  ASSUME TypeInv, WordInv, NEW v \in Updater
  PROVE  /\ Disturbed(run)[v] \in RunType /\ ~ Disturbed(run)[v].quiet
         /\ Disturbed(run)[v].at = run[v].at /\ Disturbed(run)[v].latest = run[v].latest
  <1>1. run[v] \in RunType /\ Disturbed(run)[v] \in RunType
    BY DisturbedKeeps DEF TypeInv, TypeOK
  <1>2. run[v].quiet => run[v].at # "idle"
    BY DEF WordInv, QuietIsAlone, At
  <1>3. QED
    BY <1>1, <1>2 DEF Disturbed, RunType

\* Where nobody is quiet there is no word to keep.
LEMMA NoWordToKeep ==
  ASSUME WordInv, TypeInv, badTag' = badTag, releases' \cup withdrawn' = releases \cup withdrawn,
         \A v \in Updater : ~ run'[v].quiet /\ run'[v].latest = run[v].latest
  PROVE  WordInv'
BY DEF WordInv, Published, QuietIsAlone

\* A new process has not been seen; the rest of a run stays as it is.
LEMMA StartsAnew ==
  ASSUME NEW rs \in [Updater -> RunType], Starts(rs), NEW v \in Updater
  PROVE  /\ run'[v].lived = 0 /\ run'[v].at = rs[v].at /\ run'[v].quiet = rs[v].quiet
         /\ run'[v].supervised = rs[v].supervised /\ run'[v].cancelled = rs[v].cancelled
         /\ run'[v].memory = rs[v].memory /\ run'[v].bad = rs[v].bad
         /\ run'[v].current = rs[v].current /\ run'[v].latest = rs[v].latest
         /\ run'[v].restarted = rs[v].restarted /\ run'[v].rolledBack = rs[v].rolledBack
         /\ run'[v].samples = rs[v].samples /\ run'[v].seen = rs[v].seen
BY DEF Starts, RunType

\* A step of systemd keeps the word of the quiet run, if it keeps what that run knows.
LEMMA SystemdIsNobody ==
  ASSUME TypeInv, WordInv, UNCHANGED <<releases, badTag, counts>>,
         \A v \in Updater : /\ run'[v].latest = run[v].latest /\ run'[v].at = run[v].at
                            /\ run'[v].quiet = run[v].quiet,
         \A v \in Updater : run[v].quiet /\ KeepsWord(v) => KeepsWord(v)'
  PROVE  WordInv'
BY DEF WordInv, Published, QuietIsAlone, At, counts, trouble

\* Each step of each run, of systemd and of the world keeps the word of a quiet run.
LEMMA WordKept ==
  ASSUME TypeInv, WordInv, [Next]_vars
  PROVE  WordInv'
  <1>0. run \in [Updater -> RunType] /\ \A w \in Updater : run[w].latest \in Release \cup {0}
    BY DEF TypeInv, TypeOK, RunType
  <1>1. ASSUME NEW w \in Updater, Recall(w)
       PROVE  WordInv'
    <2>1. /\ run[w].at = "recall" /\ \A v \in Updater \ {w} : run'[v] = run[v]
          /\ run'[w].memory /\ run'[w].bad = badTag
          /\ run'[w].at = IF badTag # 0 THEN "check" ELSE "prepare"
          /\ run'[w].supervised = run[w].supervised /\ run'[w].cancelled = run[w].cancelled
          /\ run'[w].current = run[w].current /\ run'[w].latest = run[w].latest
          /\ run'[w].restarted = run[w].restarted /\ run'[w].rolledBack = run[w].rolledBack
          /\ run'[w].samples = run[w].samples /\ run'[w].seen = run[w].seen
          /\ run'[w].lived = run[w].lived /\ run'[w].quiet = run[w].quiet
      BY <1>1, <1>0 DEF Recall, At, RunType
    <2>2. Published'
      BY <1>1, <1>0, <2>1 DEF Recall, WordInv, Published, system, trouble, counts
    <2>3. ASSUME run'[w].quiet PROVE run[w].quiet /\ KeepsWord(w)'
      <3>1. KeepsWord(w)
        BY <2>1, <2>3 DEF WordInv
      <3>2. Latest # 0 /\ Latest' = Latest /\ UNCHANGED system
        BY <1>1, LatestIsNewest, SelfUpdateAssumption DEF Recall, Latest
      <3>3. QED
        BY <2>1, <2>3, <3>1, <3>2 DEF system, KeepsWord, SaysLittle, Forward, Watching,
            Backward, Reported, RolledBackAt, At, Early, Undoing
    <2>4. QED
      BY <2>1, <2>2, <2>3, OthersAreUnheard DEF At
  <1>2. ASSUME NEW w \in Updater, RecallFails(w)
       PROVE  WordInv'
    <2>1. /\ run[w].at = "recall" /\ \A v \in Updater \ {w} : run'[v] = run[v]
          /\ run'[w].at = "prepare"
          /\ run'[w].latest = run[w].latest
          /\ run'[w].quiet => Goto(w, "prepare") /\ run[w].cancelled
      <3>1. CASE Goto(w, "prepare") /\ run[w].cancelled
        BY <1>2, <1>0, <3>1 DEF RecallFails, Goto, At, RunType
      <3>2. ASSUME NEW memory \in BOOLEAN,
                   run' = [run EXCEPT ![w].at = "prepare", ![w].memory = memory,
                                      ![w].quiet = FALSE]
            PROVE  /\ \A v \in Updater \ {w} : run'[v] = run[v]
                   /\ run'[w].at = "prepare" /\ run'[w].latest = run[w].latest
                   /\ ~ run'[w].quiet
        BY <1>0, <3>2 DEF RunType
      <3>3. QED
        BY <1>2, <3>1, <3>2 DEF RecallFails, At
    <2>2. Published'
      BY <1>2, <1>0, <2>1 DEF RecallFails, Fault, WordInv, Published, system, trouble, counts
    <2>3. ASSUME run'[w].quiet PROVE run[w].quiet /\ KeepsWord(w)'
      <3>1. run'[w].at = "prepare" /\ SameRun(w) /\ run[w].quiet /\ run[w].cancelled
        <4>1. "prepare" \in Step
          BY DEF Step
        <4>2. QED
          BY <2>1, <2>3, <4>1, QuietMove
      <3>2. KeepsWord(w) /\ UNCHANGED system
        BY <1>2, <3>1 DEF RecallFails, WordInv
      <3>3. QED
        BY <2>1, <3>1, <3>2 DEF SameRun, system, KeepsWord, SaysLittle, Forward, Watching,
            Backward, Reported, RolledBackAt, At, Early, Undoing
    <2>4. QED
      BY <2>1, <2>2, <2>3, OthersAreUnheard DEF At
  <1>3. ASSUME NEW w \in Updater, Check(w)
       PROVE  WordInv'
    <2>1. PICK at \in {"done", "prepare"} : Goto(w, at) \/ FailsTo(w, at) \/ FaultTo(w, at)
      BY <1>3 DEF Check
    <2>2. at \in Step
      BY DEF Step
    <2>3. /\ run'[w].at = at /\ SameRun(w)
          /\ \A v \in Updater \ {w} : run'[v] = run[v]
          /\ run'[w].quiet => run[w].quiet
      BY <2>1, <2>2, QuietMove
    <2>4. Published'
      BY <1>3, <2>3 DEF Check, WordInv, Published, SameRun, system, trouble, counts, Fault,
          FailsTo, FaultTo
    <2>5. ASSUME run'[w].quiet PROVE KeepsWord(w)'
      <3>1. KeepsWord(w) /\ run[w].at = "check" /\ UNCHANGED <<releases, system>>
        BY <1>3, <2>3, <2>5 DEF WordInv, Check, At, counts
      <3>2. /\ run[w].memory /\ run[w].bad = badTag /\ binary = run[w].current
            /\ ~ run[w].restarted /\ ~ run[w].rolledBack /\ run[w].supervised
        BY <3>1 DEF KeepsWord, SaysLittle, Forward, Watching,
            Backward, Reported, RolledBackAt, At, Early, Undoing
      <3>3. Latest' = Latest /\ badTag' = badTag /\ binary' = binary
        BY <3>1 DEF Latest, system
      <3>4. run'[w].at = IF SkipsKnownBad(w) THEN "done" ELSE "prepare"
        BY <1>3, <1>0 DEF Check, Goto
      <3>5. CASE SkipsKnownBad(w)
        BY <2>3, <3>2, <3>4, <3>5 DEF SameRun, KeepsWord, SaysLittle, Forward, Watching,
            Backward, Reported, RolledBackAt, At, Early, Undoing
      <3>6. CASE ~ SkipsKnownBad(w)
        BY <2>3, <3>2, <3>3, <3>4, <3>6 DEF SkipsKnownBad, SameRun, KeepsWord, SaysLittle,
            Forward, Watching, Backward, Reported, RolledBackAt, At, Early, Undoing
      <3>7. QED
        BY <3>5, <3>6
    <2>6. QED
      BY <1>3, <2>3, <2>4, <2>5, OthersAreUnheard DEF Check, At
  <1>4. ASSUME NEW w \in Updater, CheckFails(w)
       PROVE  WordInv'
    <2>1. PICK at \in {"prepare"} : Goto(w, at) \/ FailsTo(w, at) \/ FaultTo(w, at)
      BY <1>4 DEF CheckFails
    <2>2. at \in Step
      BY DEF Step
    <2>3. /\ run'[w].at = at /\ SameRun(w)
          /\ \A v \in Updater \ {w} : run'[v] = run[v]
          /\ run'[w].quiet => run[w].quiet
      BY <2>1, <2>2, QuietMove
    <2>4. Published'
      BY <1>4, <2>3 DEF CheckFails, WordInv, Published, SameRun, system, trouble, counts,
          Fault, FailsTo, FaultTo
    <2>5. ASSUME run'[w].quiet PROVE KeepsWord(w)'
      <3>1. KeepsWord(w)
        BY <2>3, <2>5 DEF WordInv
      <3>2. QED
        BY <1>4, <2>3, <2>5, <3>1, QuietMove, LatestIsNewest, SelfUpdateAssumption DEF
            CheckFails, At, SameRun, system, counts, KeepsWord, SaysLittle, Forward,
            Watching, Backward, Reported, RolledBackAt, Early, Undoing, Step
    <2>6. QED
      BY <1>4, <2>3, <2>4, <2>5, OthersAreUnheard DEF CheckFails, At
  <1>5. ASSUME NEW w \in Updater, Prepare(w)
       PROVE  WordInv'
    <2>1. /\ run[w].at = "prepare" /\ \A v \in Updater \ {w} : run'[v] = run[v]
          /\ run'[w].latest = Latest /\ ~ run[w].cancelled
          /\ run'[w].at = IF Latest =< run[w].current THEN "done"
                        ELSE IF run[w].supervised THEN "backup" ELSE "install"
          /\ run'[w].supervised = run[w].supervised /\ run'[w].cancelled = run[w].cancelled
          /\ run'[w].memory = run[w].memory /\ run'[w].bad = run[w].bad
          /\ run'[w].current = run[w].current /\ run'[w].restarted = run[w].restarted
          /\ run'[w].rolledBack = run[w].rolledBack /\ run'[w].samples = run[w].samples
          /\ run'[w].seen = run[w].seen /\ run'[w].lived = run[w].lived
          /\ run'[w].quiet = run[w].quiet
      BY <1>5, <1>0 DEF Prepare, At, RunType
    <2>2. Published'
      BY <1>5, <1>0, <2>1, LatestIsNewest DEF Prepare, WordInv, Published, system, trouble,
          counts
    <2>3. ASSUME run'[w].quiet PROVE run[w].quiet /\ KeepsWord(w)'
      <3>1. KeepsWord(w) /\ UNCHANGED system
        BY <1>5, <2>1, <2>3 DEF WordInv, Prepare
      <3>2. Latest \in Nat /\ run[w].current \in Nat
        <4>1. run[w] \in RunType
          BY <1>0
        <4>2. run[w].current \in Release \cup {0}
          BY <4>1 DEF RunType
        <4>3. run[w].current \in Nat
          BY <4>2, ReleasesAreNumbers
        <4>4. QED
          BY <4>3, LatestIsNewest
      <3>3. QED
        BY <2>1, <2>3, <3>1, <3>2 DEF system, KeepsWord, SaysLittle, Forward, Watching,
            Backward, Reported, RolledBackAt, At, Early, Undoing
    <2>4. QED
      BY <2>1, <2>2, <2>3, OthersAreUnheard DEF At
  <1>6. ASSUME NEW w \in Updater, PrepareFails(w)
       PROVE  WordInv'
    <2>1. PICK at \in {"done"} : Goto(w, at) \/ FailsTo(w, at) \/ FaultTo(w, at)
      BY <1>6 DEF PrepareFails
    <2>2. at \in Step
      BY DEF Step
    <2>3. /\ run'[w].at = at /\ SameRun(w)
          /\ \A v \in Updater \ {w} : run'[v] = run[v]
          /\ run'[w].quiet => run[w].quiet
      BY <2>1, <2>2, QuietMove
    <2>4. Published'
      BY <1>6, <2>3 DEF PrepareFails, WordInv, Published, SameRun, system, trouble, counts,
          Fault, FailsTo, FaultTo
    <2>5. ASSUME run'[w].quiet PROVE KeepsWord(w)'
      <3>1. KeepsWord(w)
        BY <2>3, <2>5 DEF WordInv
      <3>2. QED
        BY <1>6, <2>3, <2>5, <3>1, QuietMove, LatestIsNewest, SelfUpdateAssumption DEF
            PrepareFails, At, SameRun, system, counts, KeepsWord, SaysLittle, Forward,
            Watching, Backward, Reported, RolledBackAt, Early, Undoing, Step
    <2>6. QED
      BY <1>6, <2>3, <2>4, <2>5, OthersAreUnheard DEF PrepareFails, At
  <1>7. ASSUME NEW w \in Updater, Backup(w)
       PROVE  WordInv'
    <2>1. PICK at \in {"install"} : Goto(w, at) \/ FailsTo(w, at) \/ FaultTo(w, at)
      BY <1>7 DEF Backup
    <2>2. at \in Step
      BY DEF Step
    <2>3. /\ run'[w].at = at /\ SameRun(w)
          /\ \A v \in Updater \ {w} : run'[v] = run[v]
          /\ run'[w].quiet => run[w].quiet
      BY <2>1, <2>2, QuietMove
    <2>4. Published'
      BY <1>7, <2>3 DEF Backup, WordInv, Published, SameRun, system, trouble, counts, Fault,
          FailsTo, FaultTo
    <2>5. ASSUME run'[w].quiet PROVE KeepsWord(w)'
      <3>1. KeepsWord(w)
        BY <2>3, <2>5 DEF WordInv
      <3>2. QED
        BY <1>7, <2>3, <2>5, <3>1, QuietMove, LatestIsNewest, SelfUpdateAssumption DEF
            Backup, At, SameRun, system, counts, KeepsWord, SaysLittle, Forward, Watching,
            Backward, Reported, RolledBackAt, Early, Undoing, Step
    <2>6. QED
      BY <1>7, <2>3, <2>4, <2>5, OthersAreUnheard DEF Backup, At
  <1>8. ASSUME NEW w \in Updater, BackupFails(w)
       PROVE  WordInv'
    <2>1. PICK at \in {"done"} : Goto(w, at) \/ FailsTo(w, at) \/ FaultTo(w, at)
      BY <1>8 DEF BackupFails
    <2>2. at \in Step
      BY DEF Step
    <2>3. /\ run'[w].at = at /\ SameRun(w)
          /\ \A v \in Updater \ {w} : run'[v] = run[v]
          /\ run'[w].quiet => run[w].quiet
      BY <2>1, <2>2, QuietMove
    <2>4. Published'
      BY <1>8, <2>3 DEF BackupFails, WordInv, Published, SameRun, system, trouble, counts,
          Fault, FailsTo, FaultTo
    <2>5. ASSUME run'[w].quiet PROVE KeepsWord(w)'
      <3>1. KeepsWord(w)
        BY <2>3, <2>5 DEF WordInv
      <3>2. QED
        BY <1>8, <2>3, <2>5, <3>1, QuietMove, LatestIsNewest, SelfUpdateAssumption DEF
            BackupFails, At, SameRun, system, counts, KeepsWord, SaysLittle, Forward,
            Watching, Backward, Reported, RolledBackAt, Early, Undoing, Step
    <2>6. QED
      BY <1>8, <2>3, <2>4, <2>5, OthersAreUnheard DEF BackupFails, At
  <1>9. ASSUME NEW w \in Updater, Install(w)
       PROVE  WordInv'
    <2>1. /\ run[w].at = "install" /\ \A v \in Updater \ {w} : run'[v] = run[v]
          /\ run'[w].at = IF run[w].supervised THEN "decide" ELSE "done"
          /\ run'[w].supervised = run[w].supervised /\ run'[w].cancelled = run[w].cancelled
          /\ run'[w].memory = run[w].memory /\ run'[w].bad = run[w].bad
          /\ run'[w].current = run[w].current /\ run'[w].latest = run[w].latest
          /\ run'[w].restarted = run[w].restarted /\ run'[w].rolledBack = run[w].rolledBack
          /\ run'[w].samples = run[w].samples /\ run'[w].seen = run[w].seen
          /\ run'[w].lived = run[w].lived /\ run'[w].quiet = run[w].quiet
      BY <1>9, <1>0 DEF Install, At, RunType
    <2>2. Published'
      BY <1>9, <1>0, <2>1 DEF Install, WordInv, Published, system, trouble, counts
    <2>3. ASSUME run'[w].quiet PROVE run[w].quiet /\ KeepsWord(w)'
      <3>1. KeepsWord(w) /\ binary' = run[w].latest /\ UNCHANGED <<kept, badTag>>
        BY <1>9, <2>1, <2>3 DEF WordInv, Install
      <3>2. QED
        BY <2>1, <2>3, <3>1 DEF KeepsWord, SaysLittle, Forward, Watching,
            Backward, Reported, RolledBackAt, At, Early, Undoing
    <2>4. QED
      BY <2>1, <2>2, <2>3, OthersAreUnheard DEF At
  <1>10. ASSUME NEW w \in Updater, InstallFails(w)
       PROVE  WordInv'
    <2>1. PICK at \in {"done"} : Goto(w, at) \/ FailsTo(w, at) \/ FaultTo(w, at)
      BY <1>10 DEF InstallFails
    <2>2. at \in Step
      BY DEF Step
    <2>3. /\ run'[w].at = at /\ SameRun(w)
          /\ \A v \in Updater \ {w} : run'[v] = run[v]
          /\ run'[w].quiet => run[w].quiet
      BY <2>1, <2>2, QuietMove
    <2>4. Published'
      BY <1>10, <2>3 DEF InstallFails, WordInv, Published, SameRun, system, trouble, counts,
          Fault, FailsTo, FaultTo
    <2>5. ASSUME run'[w].quiet PROVE KeepsWord(w)'
      <3>1. KeepsWord(w)
        BY <2>3, <2>5 DEF WordInv
      <3>2. QED
        BY <1>10, <2>3, <2>5, <3>1, QuietMove, LatestIsNewest, SelfUpdateAssumption DEF
            InstallFails, At, SameRun, system, counts, KeepsWord, SaysLittle, Forward,
            Watching, Backward, Reported, RolledBackAt, Early, Undoing, Step
    <2>6. QED
      BY <1>10, <2>3, <2>4, <2>5, OthersAreUnheard DEF InstallFails, At
  <1>11. ASSUME NEW w \in Updater, Decide(w)
       PROVE  WordInv'
    <2>1. PICK at \in {"done", "restart"} : Goto(w, at) \/ FailsTo(w, at) \/ FaultTo(w, at)
      BY <1>11 DEF Decide
    <2>2. at \in Step
      BY DEF Step
    <2>3. /\ run'[w].at = at /\ SameRun(w)
          /\ \A v \in Updater \ {w} : run'[v] = run[v]
          /\ run'[w].quiet => run[w].quiet
      BY <2>1, <2>2, QuietMove
    <2>4. Published'
      BY <1>11, <2>3 DEF Decide, WordInv, Published, SameRun, system, trouble, counts,
          Fault, FailsTo, FaultTo
    <2>5. ASSUME run'[w].quiet PROVE KeepsWord(w)'
      <3>1. KeepsWord(w)
        BY <2>3, <2>5 DEF WordInv
      <3>2. QED
        BY <1>11, <2>3, <2>5, <3>1, QuietMove, LatestIsNewest, SelfUpdateAssumption DEF
            Decide, LeftStopped, At, SameRun, system, counts, KeepsWord, SaysLittle,
            Forward, Watching, Backward, Reported, RolledBackAt, Early, Undoing, Step
    <2>6. QED
      BY <1>11, <2>3, <2>4, <2>5, OthersAreUnheard DEF Decide, At
  <1>12. ASSUME NEW w \in Updater, Restart(w)
       PROVE  WordInv'
    <2>1. PICK at \in {"join", "watch"} : Goto(w, at) \/ FailsTo(w, at) \/ FaultTo(w, at)
      BY <1>12 DEF Restart
    <2>2. at \in Step
      BY DEF Step
    <2>3. /\ run'[w].at = at /\ SameRun(w)
          /\ \A v \in Updater \ {w} : run'[v] = run[v]
          /\ run'[w].quiet => run[w].quiet
      BY <2>1, <2>2, QuietMove
    <2>4. Published'
      BY <1>12, <2>3 DEF Restart, WordInv, Published, SameRun, system, trouble, counts,
          Fault, FailsTo, FaultTo
    <2>5. ASSUME run'[w].quiet PROVE KeepsWord(w)'
      <3>1. KeepsWord(w)
        BY <2>3, <2>5 DEF WordInv
      <3>2. QED
        BY <1>12, <2>3, <2>5, <3>1, QuietMove, LatestIsNewest, SelfUpdateAssumption DEF
            Restart, TryRestarted, Restartable, At, SameRun, system, counts, KeepsWord,
            SaysLittle, Forward, Watching, Backward, Reported, RolledBackAt, Early, Undoing,
            Step
    <2>6. QED
      BY <1>12, <2>3, <2>4, <2>5, OthersAreUnheard DEF Restart, At
  <1>13. ASSUME NEW w \in Updater, RestartFails(w)
       PROVE  WordInv'
    <2>1. PICK at \in {"restore"} : Goto(w, at) \/ FailsTo(w, at) \/ FaultTo(w, at)
      BY <1>13 DEF RestartFails
    <2>2. at \in Step
      BY DEF Step
    <2>3. /\ run'[w].at = at /\ SameRun(w)
          /\ \A v \in Updater \ {w} : run'[v] = run[v]
          /\ run'[w].quiet => run[w].quiet
      BY <2>1, <2>2, QuietMove
    <2>4. Published'
      BY <1>13, <2>3 DEF RestartFails, WordInv, Published, SameRun, system, trouble, counts,
          Fault, FailsTo, FaultTo
    <2>5. ASSUME run'[w].quiet PROVE KeepsWord(w)'
      <3>1. KeepsWord(w)
        BY <2>3, <2>5 DEF WordInv
      <3>2. QED
        BY <1>13, <2>3, <2>5, <3>1, QuietMove, LatestIsNewest, SelfUpdateAssumption DEF
            RestartFails, At, SameRun, system, counts, KeepsWord, SaysLittle, Forward,
            Watching, Backward, Reported, RolledBackAt, Early, Undoing, Step
    <2>6. QED
      BY <1>13, <2>3, <2>4, <2>5, OthersAreUnheard DEF RestartFails, At
  <1>14. ASSUME NEW w \in Updater, Join(w)
       PROVE  WordInv'
    <2>1. PICK at \in {"watch"} : Goto(w, at) \/ FailsTo(w, at) \/ FaultTo(w, at)
      BY <1>14 DEF Join
    <2>2. at \in Step
      BY DEF Step
    <2>3. /\ run'[w].at = at /\ SameRun(w)
          /\ \A v \in Updater \ {w} : run'[v] = run[v]
          /\ run'[w].quiet => run[w].quiet
      BY <2>1, <2>2, QuietMove
    <2>4. Published'
      BY <1>14, <2>3 DEF Join, WordInv, Published, SameRun, system, trouble, counts, Fault,
          FailsTo, FaultTo
    <2>5. ASSUME run'[w].quiet PROVE KeepsWord(w)'
      <3>1. KeepsWord(w) /\ run[w].at = "join" /\ unit # "restarting" /\ UNCHANGED system
        BY <1>14, <2>3, <2>5 DEF WordInv, Join, At
      <3>2. run[w].seen = 0 /\ run[w].samples = 0 /\ run[w].lived >= 0 /\ run'[w].at = "watch"
        BY <1>0, <2>1, <2>3, <3>1 DEF TypeInv, RunsSound, Sound, Early, RunType
      <3>3. QED
        BY <2>3, <3>1, <3>2 DEF SameRun, system, KeepsWord, SaysLittle, Forward, Watching,
            Backward, Reported, RolledBackAt, At, Early, Undoing
    <2>6. QED
      BY <1>14, <2>3, <2>4, <2>5, OthersAreUnheard DEF Join, At
  <1>15. ASSUME NEW w \in Updater, JoinFails(w)
       PROVE  WordInv'
    <2>1. PICK at \in {"restore"} : Goto(w, at) \/ FailsTo(w, at) \/ FaultTo(w, at)
      BY <1>15 DEF JoinFails
    <2>2. at \in Step
      BY DEF Step
    <2>3. /\ run'[w].at = at /\ SameRun(w)
          /\ \A v \in Updater \ {w} : run'[v] = run[v]
          /\ run'[w].quiet => run[w].quiet
      BY <2>1, <2>2, QuietMove
    <2>4. Published'
      BY <1>15, <2>3 DEF JoinFails, WordInv, Published, SameRun, system, trouble, counts,
          Fault, FailsTo, FaultTo
    <2>5. ASSUME run'[w].quiet PROVE KeepsWord(w)'
      <3>1. KeepsWord(w)
        BY <2>3, <2>5 DEF WordInv
      <3>2. QED
        BY <1>15, <2>3, <2>5, <3>1, QuietMove, LatestIsNewest, SelfUpdateAssumption DEF
            JoinFails, At, SameRun, system, counts, KeepsWord, SaysLittle, Forward,
            Watching, Backward, Reported, RolledBackAt, Early, Undoing, Step
    <2>6. QED
      BY <1>15, <2>3, <2>4, <2>5, OthersAreUnheard DEF JoinFails, At
  <1>16. ASSUME NEW w \in Updater, Sample(w)
       PROVE  WordInv'
    <2>1. /\ run[w].at = "watch" /\ \A v \in Updater \ {w} : run'[v] = run[v]
      BY <1>16, <1>0 DEF Sample, At
    <2>2. run[w] \in RunType /\ run[w].seen < Streak /\ UNCHANGED <<releases, system, counts>>
      BY <1>16, <1>0, <2>1 DEF Sample, TypeInv, RunsSound, Sound
    <2>3. CASE unit = "active"
      <3> DEFINE b == Healthy(run[w].seen + 1)
                 r == [run[w] EXCEPT !.samples = run[w].samples + 1, !.seen = run[w].seen + 1,
                           !.lived = run[w].lived + 1, !.restarted = b,
                           !.at = IF b THEN "done" ELSE "watch"]
      <3>1. run'[w] = r
        BY <1>16, <1>0, <2>3 DEF Sample
      <3>2. /\ run'[w].at = (IF b THEN "done" ELSE "watch") /\ run'[w].restarted = b
            /\ run'[w].samples = run[w].samples + 1 /\ run'[w].seen = run[w].seen + 1
            /\ run'[w].lived = run[w].lived + 1 /\ run'[w].quiet = run[w].quiet
            /\ run'[w].supervised = run[w].supervised /\ run'[w].cancelled = run[w].cancelled
            /\ run'[w].memory = run[w].memory /\ run'[w].current = run[w].current
            /\ run'[w].latest = run[w].latest /\ run'[w].rolledBack = run[w].rolledBack
        <4> HIDE DEF b
        <4>1. QED
          BY <2>2, <3>1 DEF RunType
      <3>3. Published'
        BY <2>1, <2>2, <3>2 DEF WordInv, Published, system, trouble, counts
      <3>4. ASSUME run'[w].quiet PROVE KeepsWord(w)'
        <4>1. KeepsWord(w) /\ (daemon \in Crashers => run[w].lived < Streak - 1)
          BY <1>16, <2>3, <3>2, <3>4 DEF WordInv, Sample
        <4>2. /\ run[w].seen \in Nat /\ run[w].lived \in Nat /\ run[w].samples \in Nat
          BY <2>2 DEF RunType
        <4>3. CASE b
          <5>1. daemon \notin Crashers
            BY <2>1, <4>1, <4>2, <4>3 DEF Healthy, Streak, KeepsWord, SaysLittle, Forward,
                Watching,
            Backward, Reported, RolledBackAt, At, Early, Undoing
          <5>2. run'[w].restarted
            BY <3>2, <4>3
          <5>3. QED
            BY <2>1, <2>2, <2>3, <3>2, <4>1, <4>3, <5>1, <5>2 DEF system, KeepsWord,
                SaysLittle, Forward, Watching,
            Backward, Reported, RolledBackAt, At, Early, Undoing
        <4>4. CASE ~ b
          <5>1. ~ run'[w].restarted
            BY <3>2, <4>4
          <5>2. QED
            BY <2>1, <2>2, <2>3, <3>2, <4>1, <4>2, <4>4, <5>1 DEF system, KeepsWord,
                SaysLittle, Forward, Watching,
            Backward, Reported, RolledBackAt, At, Early, Undoing
        <4>5. QED
          BY <4>3, <4>4
      <3>5. run'[w].at # "idle"
        BY <3>2
      <3>6. QED
        BY <2>1, <3>2, <3>3, <3>4, <3>5, OthersAreUnheard DEF At
    <2>4. CASE unit # "active"
      <3>1. run'[w] = [run[w] EXCEPT !.samples = @ + 1, !.seen = 0]
        BY <1>16, <1>0, <2>4 DEF Sample
      <3>2. /\ run'[w].at = "watch" /\ run'[w].restarted = run[w].restarted
            /\ run'[w].seen = 0
            /\ run'[w].lived = run[w].lived /\ run'[w].quiet = run[w].quiet
            /\ run'[w].supervised = run[w].supervised /\ run'[w].cancelled = run[w].cancelled
            /\ run'[w].memory = run[w].memory /\ run'[w].current = run[w].current
            /\ run'[w].latest = run[w].latest /\ run'[w].rolledBack = run[w].rolledBack
        BY <2>1, <2>2, <3>1 DEF RunType
      <3>3. Published'
        BY <2>1, <2>2, <3>2 DEF WordInv, Published, system, trouble, counts
      <3>4. ASSUME run'[w].quiet PROVE KeepsWord(w)'
        <4>1. KeepsWord(w)
          BY <3>2, <3>4 DEF WordInv
        <4>2. run[w].lived >= 0
          BY <2>2 DEF RunType
        <4>3. run[w].latest \in Crashers
          BY <2>1, <2>4, <4>1 DEF KeepsWord, SaysLittle, Forward, Watching,
            Backward, Reported, RolledBackAt, At, Early, Undoing
        <4>4. QED
          BY <2>1, <2>2, <2>4, <3>2, <4>1, <4>2, <4>3 DEF system, KeepsWord, SaysLittle,
              Forward, Watching,
            Backward, Reported, RolledBackAt, At, Early, Undoing
      <3>5. QED
        BY <2>1, <3>2, <3>3, <3>4, OthersAreUnheard DEF At
    <2>5. QED
      BY <2>3, <2>4
  <1>17. ASSUME NEW w \in Updater, Unhealthy(w)
       PROVE  WordInv'
    <2>1. PICK at \in {"restore"} : Goto(w, at) \/ FailsTo(w, at) \/ FaultTo(w, at)
      BY <1>17 DEF Unhealthy
    <2>2. at \in Step
      BY DEF Step
    <2>3. /\ run'[w].at = at /\ SameRun(w)
          /\ \A v \in Updater \ {w} : run'[v] = run[v]
          /\ run'[w].quiet => run[w].quiet
      BY <2>1, <2>2, QuietMove
    <2>4. Published'
      BY <1>17, <2>3 DEF Unhealthy, WordInv, Published, SameRun, system, trouble, counts,
          Fault, FailsTo, FaultTo
    <2>5. ASSUME run'[w].quiet PROVE KeepsWord(w)'
      <3>1. KeepsWord(w) /\ run[w].at = "watch" /\ UNCHANGED system
        BY <1>17, <2>3, <2>5 DEF WordInv, Unhealthy, At
      <3>2. run[w].cancelled \/ run[w].samples = Samples
        BY <1>17 DEF Unhealthy, TimeIsUp
      <3>3. run[w].seen # Samples
        BY <1>0, <3>1, SelfUpdateAssumption DEF TypeInv, RunsSound, Sound, RunType, Streak
      <3>4. run[w].latest \in Crashers \/ run[w].cancelled
        BY <3>1, <3>2, <3>3 DEF KeepsWord, SaysLittle, Forward, Watching,
            Backward, Reported, RolledBackAt, At, Early, Undoing
      <3>5. run'[w].at = "restore"
        BY <2>1, <2>3
      <3>6. QED
        BY <2>3, <3>1, <3>4, <3>5 DEF SameRun, system, KeepsWord, SaysLittle, Forward, Watching,
            Backward, Reported, RolledBackAt, At, Early, Undoing
    <2>6. QED
      BY <1>17, <2>3, <2>4, <2>5, OthersAreUnheard DEF Unhealthy, At
  <1>18. ASSUME NEW w \in Updater, Restore(w)
       PROVE  WordInv'
    <2>1. /\ run[w].at = "restore" /\ \A v \in Updater \ {w} : run'[v] = run[v]
          /\ run'[w].at = "recover" /\ run'[w].rolledBack
          /\ run'[w].supervised = run[w].supervised /\ run'[w].cancelled = run[w].cancelled
          /\ run'[w].memory = run[w].memory /\ run'[w].bad = run[w].bad
          /\ run'[w].current = run[w].current /\ run'[w].latest = run[w].latest
          /\ run'[w].restarted = run[w].restarted /\ run'[w].samples = run[w].samples
          /\ run'[w].seen = run[w].seen /\ run'[w].lived = run[w].lived
          /\ run'[w].quiet = run[w].quiet
      BY <1>18, <1>0 DEF Restore, At, RunType
    <2>2. Published'
      BY <1>18, <1>0, <2>1 DEF Restore, WordInv, Published, system, trouble, counts
    <2>3. ASSUME run'[w].quiet PROVE run[w].quiet /\ KeepsWord(w)'
      <3>1. KeepsWord(w) /\ binary' = kept
        BY <1>18, <2>1, <2>3 DEF WordInv, Restore
      <3>2. QED
        BY <2>1, <2>3, <3>1 DEF KeepsWord, SaysLittle, Forward, Watching,
            Backward, Reported, RolledBackAt, At, Early, Undoing
    <2>4. QED
      BY <2>1, <2>2, <2>3, OthersAreUnheard DEF At
  <1>19. ASSUME NEW w \in Updater, RestoreFails(w)
       PROVE  WordInv'
    <2>1. /\ run[w].at = "restore" /\ \A v \in Updater \ {w} : run'[v] = run[v]
          /\ run'[w].at = "record" /\ ~ run'[w].quiet
          /\ run'[w].latest = run[w].latest
      BY <1>19, <1>0 DEF RestoreFails, At, RunType
    <2>2. Published'
      BY <1>19, <1>0, <2>1 DEF RestoreFails, WordInv, Published, system, trouble, counts, Fault
    <2>3. ASSUME run'[w].quiet PROVE run[w].quiet /\ KeepsWord(w)'
      BY <2>1, <2>3
    <2>4. QED
      BY <2>1, <2>2, <2>3, OthersAreUnheard DEF At
  <1>20. ASSUME NEW w \in Updater, Recover(w)
       PROVE  WordInv'
    <2>1. PICK at \in {"record"} : Goto(w, at) \/ FailsTo(w, at) \/ FaultTo(w, at)
      BY <1>20 DEF Recover
    <2>2. at \in Step
      BY DEF Step
    <2>3. /\ run'[w].at = at /\ SameRun(w)
          /\ \A v \in Updater \ {w} : run'[v] = run[v]
          /\ run'[w].quiet => run[w].quiet
      BY <2>1, <2>2, QuietMove
    <2>4. Published'
      BY <1>20, <2>3 DEF Recover, WordInv, Published, SameRun, system, trouble, counts,
          Fault, FailsTo, FaultTo
    <2>5. ASSUME run'[w].quiet PROVE KeepsWord(w)'
      <3>1. KeepsWord(w)
        BY <2>3, <2>5 DEF WordInv
      <3>2. QED
        BY <1>20, <2>3, <2>5, <3>1, QuietMove, LatestIsNewest, SelfUpdateAssumption DEF
            Recover, TryRestarted, Restartable, At, SameRun, system, counts, KeepsWord,
            SaysLittle, Forward, Watching, Backward, Reported, RolledBackAt, Early, Undoing,
            Step
    <2>6. QED
      BY <1>20, <2>3, <2>4, <2>5, OthersAreUnheard DEF Recover, At
  <1>21. ASSUME NEW w \in Updater, RecoverFails(w)
       PROVE  WordInv'
    <2>1. PICK at \in {"record"} : Goto(w, at) \/ FailsTo(w, at) \/ FaultTo(w, at)
      BY <1>21 DEF RecoverFails
    <2>2. at \in Step
      BY DEF Step
    <2>3. /\ run'[w].at = at /\ SameRun(w)
          /\ \A v \in Updater \ {w} : run'[v] = run[v]
          /\ run'[w].quiet => run[w].quiet
      BY <2>1, <2>2, QuietMove
    <2>4. Published'
      BY <1>21, <2>3 DEF RecoverFails, WordInv, Published, SameRun, system, trouble, counts,
          Fault, FailsTo, FaultTo
    <2>5. ASSUME run'[w].quiet PROVE KeepsWord(w)'
      <3>1. KeepsWord(w)
        BY <2>3, <2>5 DEF WordInv
      <3>2. QED
        BY <1>21, <2>3, <2>5, <3>1, QuietMove, LatestIsNewest, SelfUpdateAssumption DEF
            RecoverFails, At, SameRun, system, counts, KeepsWord, SaysLittle, Forward,
            Watching, Backward, Reported, RolledBackAt, Early, Undoing, Step
    <2>6. QED
      BY <1>21, <2>3, <2>4, <2>5, OthersAreUnheard DEF RecoverFails, At
  <1>22. ASSUME NEW w \in Updater, Record(w)
       PROVE  WordInv'
    <2>1. PICK at \in {"done"} : Goto(w, at) \/ FailsTo(w, at) \/ FaultTo(w, at)
      BY <1>22 DEF Record
    <2>2. at \in Step
      BY DEF Step
    <2>3. /\ run'[w].at = at /\ SameRun(w)
          /\ \A v \in Updater \ {w} : run'[v] = run[v]
          /\ run'[w].quiet => run[w].quiet
      BY <2>1, <2>2, QuietMove
    <2>4. Published'
      BY <1>22, <2>3 DEF Record, WordInv, Published, SameRun, system, trouble, counts,
          Fault, FailsTo, FaultTo
    <2>5. ASSUME run'[w].quiet PROVE KeepsWord(w)'
      <3>1. KeepsWord(w)
        BY <2>3, <2>5 DEF WordInv
      <3>2. QED
        BY <1>22, <2>3, <2>5, <3>1, QuietMove, LatestIsNewest, SelfUpdateAssumption DEF
            Record, At, SameRun, system, counts, KeepsWord, SaysLittle, Forward, Watching,
            Backward, Reported, RolledBackAt, Early, Undoing, Step
    <2>6. QED
      BY <1>22, <2>3, <2>4, <2>5, OthersAreUnheard DEF Record, At
  <1>23. ASSUME NEW w \in Updater, RecordFails(w)
       PROVE  WordInv'
    <2>1. PICK at \in {"done"} : Goto(w, at) \/ FailsTo(w, at) \/ FaultTo(w, at)
      BY <1>23 DEF RecordFails
    <2>2. at \in Step
      BY DEF Step
    <2>3. /\ run'[w].at = at /\ SameRun(w)
          /\ \A v \in Updater \ {w} : run'[v] = run[v]
          /\ run'[w].quiet => run[w].quiet
      BY <2>1, <2>2, QuietMove
    <2>4. Published'
      BY <1>23, <2>3 DEF RecordFails, WordInv, Published, SameRun, system, trouble, counts,
          Fault, FailsTo, FaultTo
    <2>5. ASSUME run'[w].quiet PROVE KeepsWord(w)'
      <3>1. KeepsWord(w)
        BY <2>3, <2>5 DEF WordInv
      <3>2. QED
        BY <1>23, <2>3, <2>5, <3>1, QuietMove, LatestIsNewest, SelfUpdateAssumption DEF
            RecordFails, At, SameRun, system, counts, KeepsWord, SaysLittle, Forward,
            Watching, Backward, Reported, RolledBackAt, Early, Undoing, Step
    <2>6. QED
      BY <1>23, <2>3, <2>4, <2>5, OthersAreUnheard DEF RecordFails, At
  <1>24. ASSUME NEW w \in Updater, Finish(w)
       PROVE  WordInv'
    <2>1. run'[w] = NoRun /\ \A v \in Updater \ {w} : run'[v] = run[v]
      BY <1>24, <1>0 DEF Finish
    <2>2. Published'
      BY <1>24, <2>1 DEF Finish, WordInv, Published, NoRun, system, trouble, counts
    <2>3. QED
      BY <1>24, <2>1, <2>2, OthersAreUnheard DEF Finish, At, NoRun
  <1>25. ASSUME NEW w \in Updater, Cancel(w)
       PROVE  WordInv'
    <2>1. run' = [run EXCEPT ![w] = [run[w] EXCEPT !.cancelled = TRUE]]
      BY <1>25 DEF Cancel
    <2>2. run[w] \in RunType /\ run[w].at \notin {"idle", "done"} /\ UNCHANGED <<releases, system>>
      BY <1>25, <1>0 DEF Cancel
    <2>3. /\ \A v \in Updater \ {w} : run'[v] = run[v]
          /\ run'[w].at = run[w].at /\ run'[w].cancelled /\ run'[w].quiet = run[w].quiet
          /\ run'[w].supervised = run[w].supervised /\ run'[w].restarted = run[w].restarted
          /\ run'[w].memory = run[w].memory /\ run'[w].current = run[w].current
          /\ run'[w].bad = run[w].bad
          /\ run'[w].latest = run[w].latest /\ run'[w].rolledBack = run[w].rolledBack
          /\ run'[w].samples = run[w].samples /\ run'[w].seen = run[w].seen
          /\ run'[w].lived = run[w].lived
      BY <1>0, <2>1, <2>2 DEF RunType
    <2>4. Published'
      BY <1>25, <2>2, <2>3 DEF Cancel, WordInv, Published, system, trouble, counts
    <2>5. ASSUME run'[w].quiet PROVE KeepsWord(w)'
      <3>1. KeepsWord(w)
        BY <2>3, <2>5 DEF WordInv
      <3>2. QED
        BY <2>2, <2>3, <3>1 DEF system, KeepsWord, SaysLittle, Forward, Watching,
            Backward, Reported, RolledBackAt, At, Early, Undoing
    <2>6. QED
      BY <2>2, <2>3, <2>4, <2>5, OthersAreUnheard DEF At
  <1>26. ASSUME NEW w \in Updater, Kill(w)
       PROVE  WordInv'
    <2>1. run'[w] = NoRun /\ \A v \in Updater \ {w} : run'[v] = run[v]
      BY <1>26, <1>0 DEF Kill
    <2>2. Published'
      BY <1>26, <2>1 DEF Kill, WordInv, Published, NoRun, system, trouble, counts
    <2>3. QED
      BY <1>26, <2>1, <2>2, OthersAreUnheard DEF Kill, At, NoRun
  <1>27. ASSUME NEW w \in Updater, NEW supervised \in BOOLEAN, Begin(w, supervised)
       PROVE  WordInv'
    <2>1. /\ run[w].at = "idle" /\ UNCHANGED <<releases, system, trouble>>
          /\ binary \in Release /\ "recall" \in Step /\ "prepare" \in Step
      BY <1>27 DEF Begin, At, TypeInv, TypeOK, Step
    <2> DEFINE r == [NoRun EXCEPT !.at = IF supervised THEN "recall" ELSE "prepare",
                       !.supervised = supervised, !.current = binary,
                       !.quiet = \A v \in Updater : At(v, "idle")]
    <2>2. run' = [Disturbed(run) EXCEPT ![w] = r]
      BY <1>27 DEF Begin
    <2>3. /\ r.at = (IF supervised THEN "recall" ELSE "prepare")
          /\ r.supervised = supervised /\ ~ r.cancelled /\ r.current = binary /\ r.latest = 0
          /\ ~ r.restarted /\ ~ r.rolledBack
          /\ r.quiet <=> \A v \in Updater : At(v, "idle")
      BY DEF NoRun
    <2> HIDE DEF r
    <2>4. run'[w] = r /\ \A v \in Updater \ {w} : run'[v] = Disturbed(run)[v]
      BY <2>2, DisturbedKeeps
    <2>5. \A v \in Updater \ {w} : /\ ~ run'[v].quiet /\ run'[v].latest = run[v].latest
                                   /\ run'[v].at = run[v].at
      BY <2>4, NobodyIsQuiet
    <2>6. Published'
      <3>1. \A v \in Updater : run'[v].latest \in {0, run[v].latest}
        BY <2>3, <2>4, <2>5
      <3>2. QED
        BY <2>1, <3>1 DEF WordInv, Published, system, trouble
    <2>7. QuietIsAlone'
      BY <2>3, <2>4, <2>5 DEF QuietIsAlone, At
    <2>8. KeepsWord(w)'
      BY <2>1, <2>3, <2>4 DEF system, KeepsWord, SaysLittle, Forward, Watching,
            Backward, Reported, RolledBackAt, At, Early, Undoing
    <2>9. QED
      BY <2>5, <2>6, <2>7, <2>8 DEF WordInv
  <1>28. ASSUME JobEnds
       PROVE  WordInv'
    <2>1. CASE unit = "restarting" /\ Starts(run)
      <3>1. ASSUME NEW v \in Updater, KeepsWord(v) PROVE KeepsWord(v)'
        <4>1. run[v] \in RunType /\ run[v].seen \in Nat /\ run[v].samples \in Nat
          BY <1>0 DEF RunType
        <4>2. unit' = "active" /\ daemon' = binary /\ UNCHANGED <<releases, binary, kept, badTag>>
          BY <1>28, <2>1 DEF JobEnds, Starts
        <4>3. Latest' = Latest
          BY <4>2 DEF Latest
        <4>4. ~ At(v, "watch") /\ (At(v, "done") => ~ run[v].restarted)
          BY <2>1, <3>1 DEF KeepsWord, SaysLittle, Forward, Watching,
            Backward, Reported, RolledBackAt, At, Early, Undoing
        <4>5. QED
          BY <1>0, <2>1, <3>1, <4>1, <4>2, <4>3, <4>4, StartsAnew DEF KeepsWord, SaysLittle,
              Forward, Watching,
            Backward, Reported, RolledBackAt, At, Early, Undoing
      <3>2. QED
        BY <1>28, <1>0, <2>1, <3>1, StartsAnew, SystemdIsNobody DEF JobEnds
    <2>2. CASE unit = "stopping" /\ unit' = "stopped" /\ UNCHANGED <<daemon, run>>
      <3>1. ASSUME NEW v \in Updater, KeepsWord(v) PROVE KeepsWord(v)'
        <4>1. UNCHANGED <<releases, binary, kept, badTag>> /\ Latest' = Latest
          BY <1>28 DEF JobEnds, Latest
        <4>2. QED
          BY <2>2, <3>1, <4>1 DEF KeepsWord, SaysLittle, Forward, Watching,
            Backward, Reported, RolledBackAt, At, Early, Undoing
      <3>2. QED
        BY <1>28, <2>2, <3>1, SystemdIsNobody DEF JobEnds
    <2>3. QED
      BY <1>28, <2>1, <2>2 DEF JobEnds
  <1>29. ASSUME Crash
       PROVE  WordInv'
    <2>1. ASSUME NEW v \in Updater, KeepsWord(v) PROVE KeepsWord(v)'
      <3>1. Latest' = Latest
        BY <1>29 DEF Crash, Latest
      <3>2. QED
        BY <1>29, <2>1, <3>1 DEF Crash, KeepsWord, SaysLittle, Forward, Watching,
            Backward, Reported, RolledBackAt, At, Early, Undoing
    <2>2. QED
      BY <1>29, <2>1, SystemdIsNobody DEF Crash
  <1>30. ASSUME AutoRestart
       PROVE  WordInv'
    <2>1. Starts(run) /\ unit = "waiting" /\ UNCHANGED <<releases, binary, kept, badTag, counts>>
      BY <1>30 DEF AutoRestart
    <2>2. ASSUME NEW v \in Updater, KeepsWord(v) PROVE KeepsWord(v)'
      <3>1. At(v, "watch") => run[v].seen = 0 /\ run[v].latest \in Crashers
        BY <1>30, <2>1, <2>2 DEF AutoRestart, KeepsWord, Watching, At
      <3>2. unit' = "active" /\ daemon' = binary /\ Latest' = Latest
        BY <2>1 DEF Starts, Latest
      <3>3. QED
        BY <1>0, <2>1, <2>2, <3>1, <3>2, StartsAnew DEF KeepsWord, SaysLittle, Forward,
            Watching, Backward, Reported, RolledBackAt, At, Early, Undoing
    <2>3. QED
      BY <1>0, <2>1, <2>2, StartsAnew, SystemdIsNobody
  <1>31. ASSUME Die
       PROVE  WordInv'
    <2>1. UNCHANGED <<releases, badTag, withdrawn>> /\ run' = Disturbed(run)
      BY <1>31 DEF Die, Fault
    <2>2. QED
      BY <2>1, NobodyIsQuiet, NoWordToKeep
  <1>32. ASSUME Meddle
       PROVE  WordInv'
    <2>1. UNCHANGED <<releases, badTag, withdrawn>>
      BY <1>32 DEF Meddle
    <2>2. \A v \in Updater : ~ run'[v].quiet /\ run'[v].latest = run[v].latest
      <3>1. CASE run' = Disturbed(run)
        BY <3>1, NobodyIsQuiet
      <3>2. CASE Starts(Disturbed(run))
        BY <3>2, NobodyIsQuiet, DisturbedKeeps, StartsAnew
      <3>3. QED
        BY <1>32, <3>1, <3>2 DEF Meddle
    <2>3. QED
      BY <2>1, <2>2, NoWordToKeep
  <1>33. ASSUME Withdraw
       PROVE  WordInv'
    <2>1. /\ releases' = releases \ {Latest} /\ withdrawn' = withdrawn \cup {Latest}
          /\ badTag' = badTag /\ run' = Disturbed(run)
      BY <1>33 DEF Withdraw, system
    <2>2. releases' \cup withdrawn' = releases \cup withdrawn
      BY <2>1, LatestIsNewest
    <2>3. QED
      BY <2>1, <2>2, NobodyIsQuiet, NoWordToKeep
  <1>34. ASSUME NEW r \in Release, Publish(r)
       PROVE  WordInv'
    <2>1. /\ r > Latest /\ r \notin withdrawn /\ releases' = releases \cup {r}
          /\ UNCHANGED <<system, run, counts>>
      BY <1>34 DEF Publish
    <2>2. r \notin releases /\ r # 0 /\ r \in Nat /\ Latest \in Nat
      BY <2>1, LatestIsNewest, SelfUpdateAssumption
    <2>3. Published' /\ badTag # r
      BY <2>1, <2>2 DEF WordInv, Published, system, counts, trouble
    <2>4. Latest' \in releases' /\ \A x \in releases' : Latest' >= x
      <3>1. \A x \in releases : x \in Nat /\ x =< r
        BY <2>1, <2>2, LatestIsNewest, SelfUpdateAssumption DEF TypeInv, TypeOK
      <3>2. releases' \in SUBSET (0 .. r) /\ releases' # {}
        BY <2>1, <2>2, <3>1
      <3>3. QED
        BY <2>2, <3>2, MaxExists DEF Latest
    <2>5. Latest' = r
      <3>1. \A x \in releases : x \in Nat
        BY SelfUpdateAssumption DEF TypeInv, TypeOK
      <3>2. Latest' >= r /\ Latest' \in releases \cup {r}
        BY <2>1, <2>4
      <3>3. \A x \in releases : ~ (x >= r)
        BY <2>1, <2>2, <3>1, LatestIsNewest
      <3>4. QED
        BY <3>2, <3>3
    <2>6. ASSUME NEW v \in Updater, KeepsWord(v) PROVE KeepsWord(v)'
      BY <2>1, <2>3, <2>5, <2>6 DEF system, KeepsWord, SaysLittle, Forward, Watching,
            Backward, Reported, RolledBackAt, At, Early, Undoing
    <2>7. QED
      BY <2>1, <2>3, <2>6 DEF WordInv, QuietIsAlone, At
  <1>35. CASE UNCHANGED vars
    BY <1>35 DEF vars, system, counts, trouble, WordInv, Published, QuietIsAlone, At,
        RolledBackAt, Latest, KeepsWord, SaysLittle, Forward, Watching, Backward, Reported
  <1>36. QED
    BY <1>1, <1>2, <1>3, <1>4, <1>5, <1>6, <1>7, <1>8, <1>9, <1>10, <1>11, <1>12, <1>13,
        <1>14, <1>15, <1>16, <1>17, <1>18, <1>19, <1>20, <1>21, <1>22, <1>23, <1>24, <1>25,
        <1>26, <1>27, <1>28, <1>29, <1>30, <1>31, <1>32, <1>33, <1>34, <1>35 DEF Next,
        Update, Systemd

\* What a quiet run knows of the unit, the binaries and the memory holds all the way.
THEOREM WordHolds ==
  Spec => [](TypeInv /\ WordInv)
  <1>1. Init => TypeInv
    BY InitTypeInv
  <1>2. Init => WordInv
    <2>1. NoRun.quiet = FALSE /\ NoRun.latest = 0
      BY DEF NoRun
    <2>2. QED
      BY <2>1 DEF Init, WordInv, Published, QuietIsAlone
  <1>3. QED
    BY <1>1, <1>2, TypesKept, WordKept, PTL DEF Spec

-----------------------------------------------------------------------------
(* What a run reports is what there is *)

\* An update reported as restarted runs, and its release is none that crashes.
THEOREM ReportedIsRunning ==
  Spec => []RestartedIsRunning
  <1>1. TypeInv /\ WordInv => RestartedIsRunning
    BY DEF WordInv, KeepsWord, Reported, RestartedIsRunning, At
  <1>2. QED
    BY <1>1, WordHolds, PTL

\* A rollback leaves the outgoing binary, the memory of the tag, and no process of the new
\* release, whatever was cancelled on the way.
THEOREM RollbackIsWhole ==
  Spec => []RolledBackIsBack
  <1>1. ASSUME TypeInv, WordInv PROVE RolledBackIsBack
    <2>1. ASSUME NEW w \in Updater, At(w, "done"), run[w].quiet, run[w].rolledBack
          PROVE  /\ binary = run[w].current /\ badTag = run[w].latest
                 /\ unit = "active" => daemon # run[w].latest
      <3>1. Backward(w) /\ RolledBackAt(w)
        BY <1>1, <2>1 DEF WordInv, KeepsWord, RolledBackAt
      <3>2. run[w].latest > run[w].current /\ run[w].current \in Nat
        <4>1. run[w] \in RunType
          BY <1>1 DEF TypeInv, TypeOK
        <4>2. run[w].current \in Release \cup {0}
          BY <4>1 DEF RunType
        <4>3. run[w].current \in Nat
          BY <4>2, ReleasesAreNumbers
        <4>4. QED
          BY <3>1, <4>3 DEF Backward
      <3>3. run[w].latest # run[w].current
        BY <3>2
      <3>4. QED
        BY <2>1, <3>1, <3>3 DEF Backward, At
    <2>2. QED
      BY <2>1 DEF RolledBackIsBack
  <1>2. QED
    BY <1>1, WordHolds, PTL

\* Only a release that crashes, or a run that was cancelled, is rolled back.
THEOREM GoodStays ==
  Spec => []GoodReleaseIsKept
  <1>1. TypeInv /\ WordInv => GoodReleaseIsKept
    BY DEF WordInv, KeepsWord, Backward, RolledBackAt, GoodReleaseIsKept
  <1>2. QED
    BY <1>1, WordHolds, PTL

\* From the installation only a supervised run goes on to the restart.
LEMMA DecidesIfSupervised ==
  ASSUME TypeInv, [Next]_vars, NEW w \in Updater, At(w, "install"), run'[w].at = "decide"
  PROVE  run[w].supervised
  <1>1. run \in [Updater -> RunType]
    BY DEF TypeInv, TypeOK
  <1>2. ASSUME NEW v \in Updater, v # w, Update(v) PROVE FALSE
    <2>1. run'[w] = run[w]
      BY <1>1, <1>2 DEF Update, Recall, RecallFails, Check, CheckFails, Prepare, PrepareFails,
          Backup, BackupFails, Install, InstallFails, Decide, Restart, RestartFails, Join,
          JoinFails, Sample, Unhealthy, Restore, RestoreFails, Recover, RecoverFails, Record,
          RecordFails, Finish, Goto, FailsTo, FaultTo
    <2>2. QED
      BY <2>1 DEF At
  <1>3. CASE Update(w)
    <2>1. Install(w) \/ InstallFails(w)
      BY <1>3 DEF Update, Recall, RecallFails, Check, CheckFails, Prepare, PrepareFails,
          Backup, BackupFails, Decide, Restart, RestartFails, Join, JoinFails, Sample,
          Unhealthy, Restore, RestoreFails, Recover, RecoverFails, Record, RecordFails,
          Finish, At
    <2>2. CASE Install(w)
      BY <1>1, <2>2 DEF Install, RunType
    <2>3. ~ InstallFails(w)
      BY <1>1 DEF InstallFails, FailsTo, Goto, RunType
    <2>4. QED
      BY <2>1, <2>2, <2>3
  <1>4. ASSUME NEW v \in Updater,
               Cancel(v) \/ Kill(v) \/ \E supervised \in BOOLEAN : Begin(v, supervised)
        PROVE  FALSE
    <2>1. ~ Begin(v, TRUE) /\ ~ Begin(v, FALSE)
      <3>1. ASSUME NEW supervised \in BOOLEAN, Begin(v, supervised) PROVE FALSE
        <4>1. v # w /\ run'[w] = Disturbed(run)[w]
          BY <1>1, <3>1 DEF Begin, At, Disturbed
        <4>2. run'[w].at = run[w].at
          BY <1>1, <4>1 DEF Disturbed, RunType
        <4>3. QED
          BY <4>2 DEF At
      <3>2. QED
        BY <3>1
    <2>2. ~ Cancel(v)
      BY <1>1 DEF Cancel, At, RunType
    <2>3. ~ Kill(v)
      BY <1>1 DEF Kill, At, NoRun
    <2>4. QED
      BY <1>4, <2>1, <2>2, <2>3
  <1>5. ASSUME run' = run \/ run' = Disturbed(run) \/ Starts(run) \/ Starts(Disturbed(run))
        PROVE  FALSE
    <2>1. run'[w].at = run[w].at
      BY <1>1, <1>5, DisturbedKeeps, StartsAnew DEF Disturbed, RunType
    <2>2. QED
      BY <2>1 DEF At
  <1>6. CASE Systemd \/ Die \/ Meddle \/ Withdraw \/ (\E r \in Release : Publish(r))
             \/ UNCHANGED vars
    BY <1>5, <1>6 DEF Systemd, JobEnds, Crash, AutoRestart, Die, Meddle, Withdraw, Publish, vars
  <1>7. QED
    BY <1>2, <1>3, <1>4, <1>6 DEF Next

\* No supervised run installs the release that is remembered as bad.
THEOREM BadStaysOut ==
  Spec => BadIsNotRetried
  <1>1. ASSUME TypeInv, WordInv, [Next]_vars, NEW w \in Updater,
               At(w, "install"), run'[w].at = "decide", run[w].quiet
        PROVE  run[w].latest # badTag
    <2>1. run[w].supervised
      BY <1>1, DecidesIfSupervised
    <2>2. Forward(w)
      BY <1>1 DEF WordInv, KeepsWord
    <2>3. QED
      BY <1>1, <2>1, <2>2 DEF Forward, At
  <1>2. TypeInv /\ WordInv /\ [Next]_vars =>
        [\A w \in Updater :
           /\ At(w, "install") /\ run'[w].at = "decide" /\ run[w].quiet
           => run[w].latest # badTag]_vars
    BY <1>1
  <1>3. QED
    BY <1>2, WordHolds, PTL DEF Spec, BadIsNotRetried

=============================================================================
