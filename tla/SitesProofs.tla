---------------------------- MODULE SitesProofs -----------------------------
(***************************************************************************)
(* Proofs about Sites, for any tree of directories, users, repositories    *)
(* and manifests: what discovery finds, for which the two recursive        *)
(* definitions have to be solved, and what an installation can rely on.    *)
(***************************************************************************)
EXTENDS Sites, FiniteSetTheorems, TLAPS

-----------------------------------------------------------------------------
(* The tree of directories. *)

\* A set that holds the parents of its members.
Closed(S) == \A e \in S : ParentOf[e] \in S

LEMMA AboveExists ==
  \E f : f = [d \in Dir |-> IF Top(d) THEN {d} ELSE {d} \cup f[ParentOf[d]]]
  <1> DEFINE f == [d \in Dir |-> {x \in Dir : \A S \in SUBSET Dir : d \in S /\ Closed(S) => x \in S}]
  <1>1. \A d \in Dir : ParentOf[d] \in Dir
    BY SitesAssumption
  <1>2. ASSUME NEW d \in Dir, Top(d) PROVE f[d] = {d}
    <2>1. Closed({d})
      BY <1>2 DEF Closed, Top
    <2>2. QED
      BY <2>1
  <1>3. ASSUME NEW d \in Dir PROVE f[d] \in SUBSET Dir /\ Closed(f[d]) /\ d \in f[d]
    BY <1>1 DEF Closed
  <1>4. ASSUME NEW d \in Dir, ~ Top(d) PROVE f[d] = {d} \cup f[ParentOf[d]]
    <2> DEFINE S == {d} \cup f[ParentOf[d]]
    <2>1. S \in SUBSET Dir /\ Closed(S) /\ d \in S
      BY <1>1, <1>3 DEF Closed
    <2>2. f[d] \subseteq S
      BY <2>1
    <2>3. f[ParentOf[d]] \subseteq f[d]
      BY <1>1 DEF Closed
    <2>4. QED
      BY <1>3, <2>2, <2>3
  <1>5. f = [d \in Dir |-> f[d]]
    OBVIOUS
  <1> HIDE DEF f
  <1>6. f = [d \in Dir |-> IF Top(d) THEN {d} ELSE {d} \cup f[ParentOf[d]]]
    BY <1>2, <1>4, <1>5
  <1>7. QED
    BY <1>6

\* The definition of Above has a solution, which Above is.
LEMMA AboveIs ==
  \A d \in Dir : Above[d] = IF Top(d) THEN {d} ELSE {d} \cup Above[ParentOf[d]]
  <1>1. Above = [d \in Dir |-> IF Top(d) THEN {d} ELSE {d} \cup Above[ParentOf[d]]]
    BY AboveExists DEF Above
  <1>2. QED
    BY <1>1

LEMMA AboveSelf == \A d \in Dir : d \in Above[d]
  BY AboveIs

\* Whatever holds outermost and passes from a directory to what lies in it holds everywhere.
LEMMA Outermost ==
  ASSUME NEW S \in SUBSET Dir, \A d \in S : ~ Top(d) /\ ParentOf[d] \in S
  PROVE  S = {}
  <1> SUFFICES ASSUME S # {} PROVE FALSE
    OBVIOUS
  <1>1. PICK d \in S : ParentOf[d] \notin S \ {d}
    BY SitesAssumption
  <1>2. QED
    BY <1>1 DEF Top

\* And the other way round.
LEMMA Innermost ==
  ASSUME NEW S \in SUBSET Dir, \A d \in S : \E e \in Children(d) : e \in S
  PROVE  S = {}
  <1> SUFFICES ASSUME S # {} PROVE FALSE
    OBVIOUS
  <1>1. PICK d \in S : \A e \in S \ {d} : ParentOf[e] # d
    BY SitesAssumption
  <1>2. QED
    BY <1>1 DEF Children

LEMMA AboveIn == \A d \in Dir : Above[d] \subseteq Dir
  <1> DEFINE S == {d \in Dir : ~ (Above[d] \subseteq Dir)}
  <1>1. ASSUME NEW d \in S PROVE ~ Top(d) /\ ParentOf[d] \in S
    <2>1. ParentOf[d] \in Dir
      BY SitesAssumption
    <2>2. Above[d] = IF Top(d) THEN {d} ELSE {d} \cup Above[ParentOf[d]]
      BY AboveIs
    <2>3. QED
      BY <2>1, <2>2
  <1>2. S = {}
    <2> HIDE DEF S
    <2>1. S \subseteq Dir
      BY DEF S
    <2>2. QED
      BY <1>1, <2>1, Outermost
  <1>3. QED
    BY <1>2

LEMMA AboveAbove == \A d \in Dir : \A e \in Above[d] : Above[e] \subseteq Above[d]
  <1> DEFINE S == {d \in Dir : \E e \in Above[d] : ~ (Above[e] \subseteq Above[d])}
  <1>1. ASSUME NEW d \in S PROVE ~ Top(d) /\ ParentOf[d] \in S
    <2>1. PICK e \in Above[d] : ~ (Above[e] \subseteq Above[d])
      OBVIOUS
    <2>2. ParentOf[d] \in Dir
      BY SitesAssumption
    <2>3. Above[d] = IF Top(d) THEN {d} ELSE {d} \cup Above[ParentOf[d]]
      BY AboveIs
    <2>4. ~ Top(d) /\ e \in Above[ParentOf[d]] /\ Above[ParentOf[d]] \subseteq Above[d]
      BY <2>1, <2>3
    <2>5. QED
      BY <2>1, <2>2, <2>4
  <1>2. S = {}
    <2> HIDE DEF S
    <2>1. S \subseteq Dir
      BY DEF S
    <2>2. QED
      BY <1>1, <2>1, Outermost
  <1>3. QED
    BY <1>2

\* What two directories that hold d have to do with each other.
LEMMA AboveChain ==
  \A d \in Dir : \A e, f \in Above[d] : e \in Above[f] \/ f \in Above[e]
  <1> DEFINE S == {d \in Dir : \E e, f \in Above[d] : e \notin Above[f] /\ f \notin Above[e]}
  <1>1. ASSUME NEW d \in S PROVE ~ Top(d) /\ ParentOf[d] \in S
    <2>1. PICK e, f \in Above[d] : e \notin Above[f] /\ f \notin Above[e]
      OBVIOUS
    <2>2. e # f /\ e # d /\ f # d
      BY <2>1, AboveSelf, AboveIn
    <2>3. ~ Top(d) /\ e \in Above[ParentOf[d]] /\ f \in Above[ParentOf[d]]
      <3>1. Above[d] = IF Top(d) THEN {d} ELSE {d} \cup Above[ParentOf[d]]
        BY AboveIs
      <3>2. QED
        BY <2>2, <3>1
    <2>4. ParentOf[d] \in Dir
      BY SitesAssumption
    <2>5. QED
      BY <2>1, <2>3, <2>4
  <1>2. S = {}
    <2> HIDE DEF S
    <2>1. S \subseteq Dir
      BY DEF S
    <2>2. QED
      BY <1>1, <2>1, Outermost
  <1>3. QED
    BY <1>2

LEMMA AboveOnce ==
  ASSUME NEW d \in Dir, NEW e \in Above[d], d \in Above[e]
  PROVE  d = e
  <1> SUFFICES ASSUME d # e PROVE FALSE
    OBVIOUS
  <1> DEFINE S == {x \in Dir : d \in Above[x] /\ x \in Above[d]}
  <1>1. ASSUME NEW x \in S PROVE ~ Top(x) /\ ParentOf[x] \in S
    <2>1. ~ Top(x)
      BY AboveIs
    <2>2. ParentOf[x] \in Dir /\ ParentOf[x] \in Above[x] /\ Above[x] = {x} \cup Above[ParentOf[x]]
      BY <2>1, AboveIs, AboveSelf, SitesAssumption
    <2>3. ParentOf[x] \in Above[d]
      BY <2>2, AboveAbove
    <2>4. d \in Above[ParentOf[x]]
      <3>1. CASE d # x
        BY <2>2, <3>1
      <3>2. CASE d = x
        <4>1. e \in Above[ParentOf[x]]
          BY <2>2, <3>2
        <4>2. QED
          BY <2>2, <4>1, AboveAbove
      <3>3. QED
        BY <3>1, <3>2
    <2>5. QED
      BY <2>1, <2>2, <2>3, <2>4
  <1>2. d \in S
    BY AboveSelf
  <1>3. S = {}
    <2> HIDE DEF S
    <2>1. S \subseteq Dir
      BY DEF S
    <2>2. QED
      BY <1>1, <2>1, Outermost
  <1>4. QED
    BY <1>2, <1>3

\* The way from d down to what lies below it begins at one of its children.
LEMMA FirstBelow ==
  \A x \in Dir : \A d \in Above[x] \ {x} : \E e \in Children(d) : e \in Above[x]
  <1> DEFINE S == {x \in Dir : \E d \in Above[x] \ {x} : \A e \in Children(d) : e \notin Above[x]}
  <1>1. ASSUME NEW x \in S PROVE ~ Top(x) /\ ParentOf[x] \in S
    <2>1. PICK d \in Above[x] \ {x} : \A e \in Children(d) : e \notin Above[x]
      OBVIOUS
    <2>2. ~ Top(x) /\ d \in Above[ParentOf[x]] /\ Above[ParentOf[x]] \subseteq Above[x]
      BY <2>1, AboveIs
    <2>3. ParentOf[x] \in Dir
      BY SitesAssumption
    <2>4. d # ParentOf[x]
      BY <2>1, AboveSelf DEF Children
    <2>5. QED
      BY <2>1, <2>2, <2>3, <2>4
  <1>2. S = {}
    <2> HIDE DEF S
    <2>1. S \subseteq Dir
      BY DEF S
    <2>2. QED
      BY <1>1, <2>1, Outermost
  <1>3. QED
    BY <1>2

-----------------------------------------------------------------------------
(* What a walk finds.  W solves the definition of Walk's Visit, and no other does. *)

\* Nothing between d and x, both included, hides x from a walk that began at base.
Way(base, d, x) ==
  \A y \in Above[x] \cap Below(d) :
    IsDir(y) /\ (y # base => y \notin Pruned) /\ (y # x => ~ tree[y].is)

FoundBelow(base, d) == {x \in Below(d) : tree[x].is /\ Exists(x) /\ Way(base, d, x)}

Hidden(base, d) == ~ IsDir(d) \/ (d # base /\ d \in Pruned)

LEMMA FoundHidden ==
  ASSUME NEW base \in Dir, NEW d \in Dir, Hidden(base, d)
  PROVE  FoundBelow(base, d) = {}
  <1> SUFFICES ASSUME NEW x \in Below(d), Way(base, d, x) PROVE FALSE
    BY DEF FoundBelow
  <1>1. d \in Above[x] /\ d \in Below(d)
    BY AboveSelf DEF Below
  <1>2. QED
    BY <1>1 DEF Way, Hidden

LEMMA FoundItself ==
  ASSUME NEW base \in Dir, NEW d \in Dir, ~ Hidden(base, d)
  PROVE  d \in FoundBelow(base, d) <=> tree[d].is /\ Exists(d)
  <1>1. d \in Below(d)
    BY AboveSelf DEF Below
  <1>2. ASSUME NEW y \in Above[d] \cap Below(d) PROVE y = d
    BY AboveOnce, <1>2 DEF Below
  <1>3. Way(base, d, d)
    BY <1>2 DEF Way, Hidden
  <1>4. QED
    BY <1>1, <1>3 DEF FoundBelow

LEMMA FoundDeeper ==
  ASSUME NEW base \in Dir, NEW d \in Dir, ~ Hidden(base, d), NEW x \in Dir \ {d}
  PROVE  x \in FoundBelow(base, d)
           <=> ~ tree[d].is /\ \E e \in Children(d) : x \in FoundBelow(base, e)
  <1>1. \A e \in Children(d) : e \in Dir /\ d \in Above[e] /\ Above[e] = {e} \cup Above[d]
    <2>1. ASSUME NEW e \in Children(d) PROVE d \in Above[e] /\ Above[e] = {e} \cup Above[d]
      <3>1. e \in Dir /\ ~ Top(e) /\ ParentOf[e] = d
        BY DEF Children, Top
      <3>2. Above[e] = {e} \cup Above[d]
        BY <3>1, AboveIs
      <3>3. QED
        BY <3>2, AboveSelf
    <2>2. QED
      BY <2>1 DEF Children
  <1>2. ASSUME x \in FoundBelow(base, d)
        PROVE  ~ tree[d].is /\ \E e \in Children(d) : x \in FoundBelow(base, e)
    <2>1. d \in Above[x] /\ d \in Below(d) /\ tree[x].is /\ Exists(x) /\ Way(base, d, x)
      BY <1>2, AboveSelf DEF Below, FoundBelow
    <2>2. ~ tree[d].is
      BY <2>1 DEF Way
    <2>3. PICK e \in Children(d) : e \in Above[x]
      BY <2>1, FirstBelow
    <2>4. ASSUME NEW y \in Above[x] \cap Below(e) PROVE y \in Below(d)
      <3>1. y \in Dir /\ e \in Above[y]
        BY DEF Below
      <3>2. Above[e] \subseteq Above[y]
        BY <3>1, AboveAbove
      <3>3. QED
        BY <1>1, <3>1, <3>2 DEF Below
    <2>5. Way(base, e, x)
      BY <2>1, <2>4 DEF Way
    <2>6. x \in FoundBelow(base, e)
      BY <2>1, <2>3, <2>5 DEF FoundBelow, Below
    <2>7. QED
      BY <2>2, <2>6
  <1>3. ASSUME ~ tree[d].is, NEW e \in Children(d), x \in FoundBelow(base, e)
        PROVE  x \in FoundBelow(base, d)
    <2>1. e \in Dir /\ e \in Above[x] /\ tree[x].is /\ Exists(x) /\ Way(base, e, x)
      BY <1>1, <1>3 DEF Below, FoundBelow
    <2>2. d \in Above[x]
      BY <1>1, <2>1, AboveAbove
    <2>3. ASSUME NEW y \in Above[x] \cap Below(d), y # d PROVE y \in Below(e)
      <3>1. y \in Dir /\ d \in Above[y]
        BY DEF Below
      <3>2. e \in Above[y] \/ y \in Above[e]
        BY <2>1, AboveChain
      <3>3. ASSUME y \in Above[e] PROVE y = e
        <4>1. CASE y \in Above[d]
          BY <2>3, <3>1, <4>1, AboveOnce
        <4>2. QED
          BY <1>1, <3>3, <4>1
      <3>4. QED
        BY <3>1, <3>2, <3>3, AboveSelf, <2>1 DEF Below
    <2>4. Way(base, d, x)
      BY <1>3, <2>1, <2>3 DEF Way, Hidden
    <2>5. QED
      BY <2>1, <2>2, <2>4 DEF FoundBelow, Below
  <1>4. QED
    BY <1>2, <1>3

LEMMA WalkIs ==
  ASSUME NEW base \in Dir
  PROVE  Walk(base) = FoundBelow(base, base)
  <1> DEFINE Body(f) ==
        [d \in Dir |-> IF ~ IsDir(d) \/ (d # base /\ d \in Pruned) THEN {}
                       ELSE (IF tree[d].is /\ Exists(d) THEN {d} ELSE {})
                            \cup (IF StopsAt(d) THEN {} ELSE UNION {f[e] : e \in Children(d)})]
  <1> DEFINE W == [d \in Dir |-> FoundBelow(base, d)]
  <1>1. ASSUME NEW d \in Dir PROVE W[d] = Body(W)[d]
    <2>1. CASE Hidden(base, d)
      BY <2>1, FoundHidden DEF Hidden
    <2>2. CASE ~ Hidden(base, d)
      <3>1. \A e \in Children(d) : e \in Dir
        BY DEF Children
      <3>2. ASSUME NEW x PROVE x \in W[d] <=> x \in Body(W)[d]
        <4>1. \A e \in Dir : FoundBelow(base, e) \subseteq Dir
          BY DEF FoundBelow, Below
        <4>2. CASE x \notin Dir
          BY <3>1, <4>1, <4>2
        <4>3. x \in Body(W)[d] <=> \/ x = d /\ tree[d].is /\ Exists(d)
                                   \/ ~ tree[d].is /\ \E e \in Children(d) : x \in FoundBelow(base, e)
          BY <2>2, <3>1 DEF Hidden, StopsAt
        <4>4. CASE x = d
          <5>1. ~ \E e \in Children(d) : d \in FoundBelow(base, e)
            <6> SUFFICES ASSUME NEW e \in Children(d), d \in FoundBelow(base, e) PROVE FALSE
              OBVIOUS
            <6>1. e \in Dir /\ e # d /\ ParentOf[e] = d
              BY DEF Children
            <6>2. e \in Above[d] /\ d \in Above[e]
              BY <6>1, AboveIs, AboveSelf DEF FoundBelow, Below, Top
            <6>3. QED
              BY <6>1, <6>2, AboveOnce
          <5>2. QED
            BY <2>2, <4>3, <4>4, <5>1, FoundItself
        <4>5. CASE x \in Dir \ {d}
          BY <2>2, <4>3, <4>5, FoundDeeper
        <4>6. QED
          BY <4>2, <4>4, <4>5
      <3>3. QED
        BY <3>2
    <2>3. QED
      BY <2>1, <2>2
  <1>2. W = Body(W)
    BY <1>1
  <1> DEFINE V == CHOOSE f : f = Body(f)
  <1>3. V = Body(V)
    BY <1>2
  <1>4. Walk(base) = V[base]
    BY DEF Walk
  <1> DEFINE S == {d \in Dir : V[d] # W[d]}
  <1>5. ASSUME NEW d \in S PROVE \E e \in Children(d) : e \in S
    <2> SUFFICES ASSUME \A e \in Children(d) : e \notin S PROVE FALSE
      OBVIOUS
    <2> HIDE DEF V, W
    <2>1. \A e \in Children(d) : V[e] = W[e]
      BY DEF Children
    <2>2. {V[e] : e \in Children(d)} = {W[e] : e \in Children(d)}
      BY <2>1
    <2>3. Body(V)[d] = Body(W)[d]
      BY <2>2
    <2>4. V[d] = W[d]
      <3> HIDE DEF Body
      <3> QED
        BY <1>2, <1>3, <2>3
    <2>5. QED
      BY <2>4
  <1>6. S = {}
    <2> HIDE DEF S
    <2>1. S \subseteq Dir
      BY DEF S
    <2>2. QED
      BY <1>5, <2>1, Innermost
  <1>7. QED
    BY <1>4, <1>6

-----------------------------------------------------------------------------
(* A push. *)

LEMMA SluggedIs == \A r \in Repo : Slugged(r) \in Slug /\ Slugged(r) # None /\ Slugged(r)[1] = r
  <1>1. (CHOOSE s \in Spelling : TRUE) \in Spelling
    BY SitesAssumption
  <1>2. QED
    BY <1>1, SitesAssumption DEF Slugged, Slug

LEMMA ScanIs ==
  ASSUME NEW roots \in SUBSET Dir
  PROVE  Scan(roots) = {Inspect(d) : d \in {x \in Dir : \E base \in roots : x \in FoundBelow(base, base)}}
  <1>1. UNION {Walk(base) : base \in roots} = {x \in Dir : \E base \in roots : x \in FoundBelow(base, base)}
    <2>1. \A base \in roots : Walk(base) = FoundBelow(base, base) /\ Walk(base) \subseteq Dir
      BY WalkIs DEF FoundBelow, Below
    <2>2. QED
      BY <2>1
  <1>2. QED
    BY <1>1 DEF Scan

LEMMA ScanOfBase ==
  Scan(Base) = {Inspect(d) : d \in {x \in Dir : tree[x].is /\ Exists(x) /\ Reachable(x)}}
  <1>1. Base \subseteq Dir
    BY SitesAssumption
  <1>2. ASSUME NEW x \in Dir
        PROVE  (\E base \in Base : x \in FoundBelow(base, base)) <=> tree[x].is /\ Exists(x) /\ Reachable(x)
    <2>1. \A base \in Base : x \in Below(base) <=> base \in Above[x]
      BY DEF Below
    <2>2. QED
      BY <2>1 DEF FoundBelow, Way, Reachable
  <1>3. QED
    BY <1>1, <1>2, ScanIs

\* What inspect says of a checkout.
LEMMA InspectIs ==
  ASSUME NEW d \in Dir
  PROVE  /\ Inspect(d).path = d /\ Inspect(d).repository = Attributed(d)
         /\ ~ Inspect(d).err <=> /\ OriginSlug(d) # None /\ Loads(tree[d].content) /\ Branch(d)
                                 /\ Same(OriginSlug(d), tree[d].content.declares)
         /\ Inspect(d).inconsistent <=> ~ Inspect(d).err /\ Stray(d)
  BY Zenon DEF Inspect

\* "An unattributed checkout is dropped from its own push rather than reported": a push
\* reaches every checkout that carries a manifest, broken or not, and that its origin, or
\* failing that its manifest, says is the repository's, in whatever spelling; it reaches
\* no other; and it deploys one only if both agree.
LEMMA PushReaches == PushReachesItsCheckouts
  <1> SUFFICES ASSUME NEW r \in Repo
      PROVE LET found == Filter(Scan(Base), Slugged(r))
                said(d) == IF tree[d].origin # None THEN {tree[d].origin[1]}
                           ELSE IF Loads(tree[d].content) THEN {tree[d].content.declares[1]} ELSE {}
            IN /\ {in.path : in \in found} = {d \in Dir : tree[d].is /\ Exists(d) /\ Reachable(d)
                                                          /\ r \in said(d)}
               /\ \A in \in found : ~ in.err =>
                    /\ Cardinality(tree[in.path].content.files) = 1
                    /\ tree[in.path].content.declares[1] = r /\ tree[in.path].origin[1] = r
    BY DEF PushReachesItsCheckouts
  <1> DEFINE found == Filter(Scan(Base), Slugged(r))
  <1> DEFINE said(d) == IF tree[d].origin # None THEN {tree[d].origin[1]}
                        ELSE IF Loads(tree[d].content) THEN {tree[d].content.declares[1]} ELSE {}
  <1> DEFINE There == {d \in Dir : tree[d].is /\ Exists(d) /\ Reachable(d)}
  <1>1. ASSUME NEW d \in Dir PROVE Same(Attributed(d), Slugged(r)) <=> r \in said(d)
    <2>1. Slugged(r) # None /\ Slugged(r)[1] = r
      BY SluggedIs
    <2>2. QED
      BY <2>1 DEF Same, Attributed, OriginSlug, Loads
  <1>2. found = {in \in {Inspect(d) : d \in There} : Same(in.repository, Slugged(r))}
    BY ScanOfBase DEF Filter
  <1> HIDE DEF found, There
  <1>3. ASSUME NEW in \in found
        PROVE  \E d \in There : in = Inspect(d) /\ Same(Attributed(d), Slugged(r))
    <2>1. PICK d \in There : in = Inspect(d)
      BY <1>2
    <2>2. d \in Dir
      BY DEF There
    <2>3. in.repository = Attributed(d)
      BY <2>1, <2>2, InspectIs
    <2>4. QED
      BY <1>2, <2>1, <2>3
  <1>4. ASSUME NEW d \in There, Same(Attributed(d), Slugged(r)) PROVE Inspect(d) \in found
    <2>1. d \in Dir
      BY DEF There
    <2>2. QED
      BY <1>2, <1>4, <2>1, InspectIs
  <1>5. {in.path : in \in found} = {d \in There : r \in said(d)}
    <2>1. ASSUME NEW in \in found PROVE in.path \in {d \in There : r \in said(d)}
      <3>1. PICK d \in There : in = Inspect(d) /\ Same(Attributed(d), Slugged(r))
        BY <1>3
      <3>2. QED
        BY <1>1, <3>1, InspectIs DEF There
    <2>2. ASSUME NEW d \in There, r \in said(d) PROVE \E in \in found : d = in.path
      <3>1. d \in Dir
        BY DEF There
      <3>2. Inspect(d) \in found
        BY <1>1, <1>4, <2>2, <3>1
      <3>3. QED
        BY <3>1, <3>2, InspectIs
    <2>3. QED
      BY <2>1, <2>2
  <1>6. ASSUME NEW in \in found, ~ in.err
        PROVE  /\ Cardinality(tree[in.path].content.files) = 1
               /\ tree[in.path].content.declares[1] = r /\ tree[in.path].origin[1] = r
    <2>1. PICK d \in There : in = Inspect(d) /\ Same(Attributed(d), Slugged(r))
      BY <1>3
    <2>2. d \in Dir
      BY DEF There
    <2>3. /\ in.path = d /\ OriginSlug(d) # None /\ Loads(tree[d].content)
          /\ Same(OriginSlug(d), tree[d].content.declares)
      BY <1>6, <2>1, <2>2, InspectIs
    <2>4. tree[d].origin[1] = r
      BY <2>1, <2>3, SluggedIs DEF Attributed, Same, OriginSlug
    <2>5. QED
      BY <2>3, <2>4 DEF Same, OriginSlug, Loads
  <1>7. {d \in There : r \in said(d)}
          = {d \in Dir : tree[d].is /\ Exists(d) /\ Reachable(d) /\ r \in said(d)}
    BY DEF There
  <1>8. QED
    BY <1>5, <1>6, <1>7 DEF found

-----------------------------------------------------------------------------
(* The type invariant: a checkout lies in a directory, and what a step installs is      *)
(* always of a registered repository.                                                    *)

Place == [kind : {"absent", "dir", "file", "link"}, owner : User, stuff : BOOLEAN]

Tree == [is : BOOLEAN, origin : Slug \cup {None}, branch : BOOLEAN,
         content : Content \cup {None}, owner : User]

Install == [at : Step, repo : Slug \cup {None}, dir : Dir \cup {None}, from : Dir \cup {None},
            owner : User, setup : BOOLEAN, exit : {"none", "ok", "bare", "error"}, raced : BOOLEAN]

\* Part 1: a checkout, at its path.
Checkout(d) == tree[d].is => IsDir(d) /\ tree[d].content \in Content
Bare(d) == ~ tree[d].is => tree[d] = NoTree

DiskInv ==
  /\ place \in [Dir -> Place] /\ tree \in [Dir -> Tree] /\ ran \in [Dir -> SUBSET {"setup", "post"}]
  /\ \A d \in Dir : Checkout(d) /\ Bare(d)

\* Part 2: the installation under way has a destination and a repository.
CommandInv ==
  /\ install \in Install
  /\ install.at \in {"idle", "ended"} \/ ~ Top(Here)
  /\ install.at \notin {"idle", "ended"} =>
       Here \in Dir /\ install.repo \in Slug /\ install.repo[1] \in Registered
  /\ At("owner") => install.from \in Dir

CountInv ==
  /\ published \in [Registered -> Contents]
  /\ installs \in 0 .. MaxInstalls /\ touches \in 0 .. MaxTouches

\* Part 3: the clone is still there when the manifest is read from it.
ClonedInv == At("manifest") => tree[Here].is

KindInv == DiskInv /\ CommandInv /\ CountInv

LEMMA KindIsType == KindInv => TypeOK
  BY DEF KindInv, DiskInv, CommandInv, CountInv, TypeOK, Checkout, Bare, Place, Tree, Install

LEMMA BelowSelf == \A d \in Dir : d \in Below(d)
  BY AboveSelf DEF Below

\* What lies below a directory lies below whatever that one lies below.
LEMMA BelowBelow ==
  ASSUME NEW d \in Dir, NEW e \in Below(d)
  PROVE  Below(e) \subseteq Below(d)
  <1> SUFFICES ASSUME NEW x \in Below(e) PROVE d \in Above[x]
    BY DEF Below
  <1>1. x \in Dir /\ e \in Above[x] /\ d \in Above[e]
    BY DEF Below
  <1>2. QED
    BY <1>1, AboveAbove

LEMMA Childhood ==
  ASSUME NEW e \in Dir, ~ Top(e)
  PROVE  /\ ParentOf[e] \in Dir /\ e \in Children(ParentOf[e]) /\ e \in Below(ParentOf[e])
         /\ Above[e] = {e} \cup Above[ParentOf[e]]
  <1>1. ParentOf[e] \in Dir
    BY SitesAssumption
  <1>2. Above[e] = {e} \cup Above[ParentOf[e]]
    BY AboveIs
  <1>3. QED
    BY <1>1, <1>2, AboveSelf DEF Children, Below, Top

LEMMA SweptAt ==
  ASSUME NEW d \in Dir, NEW e \in Dir
  PROVE  /\ e = d => Swept(d)[e] = [place[e] EXCEPT !.stuff = FALSE]
         /\ e \in Below(d) \ {d} /\ (\A x \in Below(e) : ~ tree[x].is) => Swept(d)[e] = Nothing
         /\ e # d /\ ~ (e \in Below(d) /\ \A x \in Below(e) : ~ tree[x].is) => Swept(d)[e] = place[e]
  BY DEF Swept

LEMMA SweptKeeps ==
  ASSUME DiskInv, NEW d \in Dir
  PROVE  /\ Swept(d) \in [Dir -> Place]
         /\ \A e \in Dir : tree[e].is => Swept(d)[e].kind = place[e].kind
  <1>1. ASSUME NEW e \in Dir
        PROVE  Swept(d)[e] \in Place /\ (tree[e].is => Swept(d)[e].kind = place[e].kind)
    <2>1. place[e] \in Place /\ Nothing \in Place /\ [place[e] EXCEPT !.stuff = FALSE] \in Place
      <3>1. Nothing \in Place
        BY SitesAssumption DEF Place, Nothing
      <3>2. place[e] \in Place
        BY DEF DiskInv
      <3>3. QED
        BY <3>1, <3>2 DEF Place
    <2>2. [place[e] EXCEPT !.stuff = FALSE].kind = place[e].kind
      BY <2>1 DEF Place
    <2>3. tree[e].is => ~ \A x \in Below(e) : ~ tree[x].is
      BY BelowSelf
    <2>4. QED
      BY <2>1, <2>2, <2>3, SweptAt
  <1>2. Swept(d) = [e \in Dir |-> Swept(d)[e]]
    BY DEF Swept
  <1>3. QED
    BY <1>1, <1>2

LEMMA PulledIs ==
  ASSUME DiskInv, CountInv, NEW d \in Dir, tree[d].is, tree[d].origin # None, tree[d].origin[1] \in Registered
  PROVE  /\ Pulled(d) \in [Dir -> Tree]
         /\ Pulled(d)[d] = [tree[d] EXCEPT !.content = published[tree[d].origin[1]]]
         /\ \A e \in Dir \ {d} : Pulled(d)[e] = tree[e]
         /\ published[tree[d].origin[1]] \in Content
         /\ \A e \in Dir : Pulled(d)[e].is = tree[e].is
  <1>1. tree \in [Dir -> Tree]
    BY DEF DiskInv
  <1>2. published[tree[d].origin[1]] \in Content
    BY SitesAssumption DEF CountInv, Content
  <1>3. Pulled(d)[d] = [tree[d] EXCEPT !.content = published[tree[d].origin[1]]]
    BY <1>1 DEF Pulled
  <1>4. [tree[d] EXCEPT !.content = published[tree[d].origin[1]]] \in Tree
    BY <1>1, <1>2 DEF Tree
  <1>5. Pulled(d) \in [Dir -> Tree]
    BY <1>1, <1>3, <1>4 DEF Pulled
  <1>6. \A e \in Dir \ {d} : Pulled(d)[e] = tree[e]
    BY <1>1 DEF Pulled
  <1>7. Pulled(d)[d].is = tree[d].is
    BY <1>1, <1>3 DEF Tree
  <1>8. QED
    BY <1>2, <1>3, <1>5, <1>6, <1>7

\* A deploy changes the checkout it is of, and what it sweeps.
LEMMA DeployKeepsDisk ==
  ASSUME DiskInv, CountInv, NEW d \in Dir, tree[d].is, tree[d].origin # None,
         tree[d].origin[1] \in Registered, NEW setup \in BOOLEAN, NEW well \in BOOLEAN,
         Deploys(d, setup, well)
  PROVE  DiskInv'
  <1>1. ran' \in [Dir -> SUBSET {"setup", "post"}]
    <2>1. \A content : PipelineSteps(content, setup) \subseteq {"setup", "post"}
      BY DEF PipelineSteps
    <2>2. PICK s : s \subseteq {"setup", "post"} /\ ran' = [ran EXCEPT ![d] = @ \cup s]
      <3>1. CASE well
        BY <2>1, <3>1 DEF Deploys
      <3>2. CASE ~ well
        <4>1. PICK steps \in Unasked(d, tree'[d].content, setup) :
                ran' = [ran EXCEPT ![d] = @ \cup steps]
          BY <3>2 DEF Deploys
        <4>2. steps \subseteq {"setup", "post"}
          BY <2>1, <4>1 DEF Unasked
        <4>3. QED
          BY <4>1, <4>2
      <3>3. QED
        BY <3>1, <3>2
    <2>3. QED
      BY <2>2 DEF DiskInv
  <1>2. CASE UNCHANGED <<tree, place>>
    BY <1>1, <1>2 DEF DiskInv, Checkout, Bare, IsDir
  <1>3. CASE tree' = Pulled(d) /\ place' = Swept(d)
    <2>1. place' \in [Dir -> Place] /\ tree' \in [Dir -> Tree]
      BY <1>3, SweptKeeps, PulledIs
    <2>2. ASSUME NEW e \in Dir PROVE Checkout(e)' /\ Bare(e)'
      <3>1. (tree'[e].is = tree[e].is) /\ (tree[e].is => place'[e].kind = place[e].kind)
        BY <1>3, SweptKeeps, PulledIs
      <3>2. Checkout(e) /\ Bare(e)
        BY DEF DiskInv
      <3>3. CASE e = d
        <4>1. tree'[e].content \in Content
          <5>1. tree[e] \in Tree /\ published[tree[d].origin[1]] \in Content
            BY PulledIs DEF DiskInv
          <5>2. QED
            BY <1>3, <3>3, <5>1, PulledIs DEF Tree
        <4>2. QED
          BY <3>1, <3>2, <3>3, <4>1 DEF Checkout, Bare, IsDir
      <3>4. CASE e # d
        <4>1. tree'[e] = tree[e]
          BY <1>3, <3>4, PulledIs
        <4>2. QED
          BY <3>1, <3>2, <4>1 DEF Checkout, Bare, IsDir
      <3>5. QED
        BY <3>3, <3>4
    <2>3. QED
      BY <1>1, <2>1, <2>2 DEF DiskInv
  <1>4. QED
    BY <1>2, <1>3 DEF Deploys

LEMMA ClearedKeepsDisk ==
  ASSUME DiskInv, Here \in Dir, NEW gone \in SUBSET Dir, NEW own \in BOOLEAN, Cleared(gone, own)
  PROVE  DiskInv'
  <1> DEFINE bare == UNION {Below(x) : x \in gone} \cup IF own THEN {Here} ELSE {}
  <1>0. NoTree \in Tree /\ Nothing \in Place /\ NoTree.is = FALSE
    BY SitesAssumption DEF NoTree, Nothing, Tree, Place
  <1>1. place' \in [Dir -> Place]
    <2>1. \A e \in Dir : place[e] \in Place /\ [place[e] EXCEPT !.stuff = FALSE] \in Place
      BY DEF DiskInv, Place
    <2>2. QED
      BY <1>0, <2>1 DEF Cleared
  <1>2. tree' = [e \in Dir |-> IF e \in bare THEN NoTree ELSE tree[e]]
    BY DEF Cleared
  <1>3. tree' \in [Dir -> Tree]
    <2> HIDE DEF bare
    <2> QED
      BY <1>0, <1>2 DEF DiskInv
  <1>4. ran' \in [Dir -> SUBSET {"setup", "post"}]
    BY DEF Cleared, DiskInv
  <1>5. ASSUME NEW e \in Dir PROVE Checkout(e)' /\ Bare(e)'
    <2>1. Checkout(e) /\ Bare(e) /\ place[e] \in Place
      BY DEF DiskInv
    <2>2. CASE e \in bare
      BY <1>0, <1>2, <2>2 DEF Checkout, Bare
    <2>3. CASE e \notin bare
      <3>1. tree'[e] = tree[e]
        BY <1>2, <2>3
      <3>2. ~ \E x \in gone : e \in Below(x)
        BY <2>3
      <3>3. place'[e].kind = place[e].kind
        BY <2>1, <3>2 DEF Cleared, Place
      <3>4. QED
        BY <2>1, <3>1, <3>3 DEF Checkout, Bare, IsDir
    <2>4. QED
      BY <2>2, <2>3
  <1>6. QED
    BY <1>1, <1>3, <1>4, <1>5 DEF DiskInv

LEMMA ClonedKeepsDisk ==
  ASSUME DiskInv, CommandInv, CountInv, ~ At("idle"), ~ At("ended"), CanClone, Cloned
  PROVE  DiskInv'
  <1>1. Here \in Dir /\ install.repo \in Slug /\ install.repo[1] \in Registered /\ install.owner \in User
    BY DEF CommandInv, Install, At
  <1>2. published[install.repo[1]] \in Content
    BY <1>1, SitesAssumption DEF CountInv, Content
  <1> DEFINE made == [kind |-> "dir", owner |-> install.owner, stuff |-> FALSE]
  <1> DEFINE new == [is |-> TRUE, origin |-> install.repo, branch |-> TRUE,
                     content |-> published[install.repo[1]], owner |-> install.owner]
  <1>3. made \in Place /\ new \in Tree /\ new.is = TRUE /\ new.content \in Content /\ made.kind = "dir"
    BY <1>1, <1>2 DEF Place, Tree
  <1>4. tree' = [tree EXCEPT ![Here] = new] /\ ran' = [ran EXCEPT ![Here] = {}]
    BY DEF Cloned
  <1>5. place' = (IF Absent(Here) THEN [place EXCEPT ![Here] = made] ELSE place)
    BY DEF Cloned
  <1> HIDE DEF made, new
  <1>6. place' \in [Dir -> Place] /\ tree' \in [Dir -> Tree] /\ ran' \in [Dir -> SUBSET {"setup", "post"}]
    BY <1>1, <1>3, <1>4, <1>5 DEF DiskInv
  <1>7. ASSUME NEW e \in Dir PROVE Checkout(e)' /\ Bare(e)'
    <2>1. Checkout(e) /\ Bare(e)
      BY DEF DiskInv
    <2>2. CASE e = Here
      <3>1. tree'[e] = new
        BY <1>1, <1>4, <2>2 DEF DiskInv
      <3>2. place'[e].kind = "dir"
        BY <1>1, <1>3, <1>5, <2>2 DEF DiskInv, CanClone, IsDir
      <3>3. QED
        BY <1>3, <3>1, <3>2 DEF Checkout, Bare, IsDir
    <2>3. CASE e # Here
      <3>1. tree'[e] = tree[e] /\ place'[e] = place[e]
        BY <1>4, <1>5, <2>3 DEF DiskInv
      <3>2. QED
        BY <2>1, <3>1 DEF Checkout, Bare, IsDir
    <2>4. QED
      BY <2>2, <2>3
  <1>8. QED
    BY <1>6, <1>7 DEF DiskInv

-----------------------------------------------------------------------------
(* What the steps of a command do to its record. *)

LEMMA EndsDoes ==
  ASSUME CommandInv, NEW exit \in {"ok", "bare", "error"}, Ends(exit)
  PROVE  /\ CommandInv' /\ install'.at = "ended" /\ install'.exit = exit
         /\ exit # "error" => /\ install'.dir = Here /\ install'.repo = install.repo
                              /\ install'.setup = install.setup /\ install'.raced = install.raced
  <1>0. install \in Install /\ NoInstall \in Install
    BY SitesAssumption DEF CommandInv, NoInstall, Install, Step
  <1>1. CASE exit = "error"
    <2>1. install' = [NoInstall EXCEPT !.at = "ended", !.exit = exit]
      BY <1>1 DEF Ends
    <2>2. install' \in Install /\ install'.at = "ended" /\ install'.exit = exit
      BY <1>0, <2>1 DEF Install, Step
    <2>3. QED
      BY <1>1, <2>2 DEF CommandInv, At
  <1>2. CASE exit # "error"
    <2>1. install' = [[install EXCEPT !.from = None, !.owner = Root] EXCEPT !.at = "ended", !.exit = exit]
      BY <1>2 DEF Ends
    <2>2. [install EXCEPT !.from = None, !.owner = Root] \in Install
      BY <1>0, SitesAssumption DEF Install
    <2>3. /\ install' \in Install /\ install'.at = "ended" /\ install'.exit = exit
          /\ install'.dir = Here /\ install'.repo = install.repo
          /\ install'.setup = install.setup /\ install'.raced = install.raced
      BY <1>0, <2>1, <2>2 DEF Install, Step, Here
    <2>4. QED
      BY <2>3 DEF CommandInv, At
  <1>3. QED
    BY <1>1, <1>2

LEMMA RacedDoes ==
  ASSUME CommandInv, NEW d \in Dir, install' = Raced(d)
  PROVE  /\ CommandInv'
         /\ install'.at = install.at /\ install'.exit = install.exit /\ install'.dir = install.dir
         /\ install'.repo = install.repo /\ install'.from = install.from
         /\ install'.owner = install.owner /\ install'.setup = install.setup
         /\ ~ install'.raced => /\ ~ install.raced
                                /\ Here \in Dir => d \notin Below(Here) /\ d \notin Above[Here]
  <1>0. install \in Install
    BY DEF CommandInv
  <1>1. CASE install' = install
    <2>0. Here \in Dir => Here # None
      BY SitesAssumption
    <2>1. ~ install'.raced => (Here \in Dir => d \notin Below(Here) /\ d \notin Above[Here])
      <3> SUFFICES ASSUME ~ install.raced, Here \in Dir,
                          d \in Below(Here) \/ d \in Above[Here]
                   PROVE  FALSE
        BY <1>1
      <3>1. Here # None
        BY <2>0
      <3>2. install' = [install EXCEPT !.raced = TRUE]
        BY <3>1 DEF Raced
      <3>3. QED
        BY <1>0, <1>1, <3>2 DEF Install
    <2>2. QED
      BY <1>1, <2>1 DEF CommandInv, At, Here
  <1>2. CASE install' = [install EXCEPT !.raced = TRUE]
    <2>1. /\ install' \in Install /\ install'.raced = TRUE
          /\ install'.at = install.at /\ install'.exit = install.exit /\ install'.dir = install.dir
          /\ install'.repo = install.repo /\ install'.from = install.from
          /\ install'.owner = install.owner /\ install'.setup = install.setup
      BY <1>0, <1>2 DEF Install
    <2>2. QED
      BY <2>1 DEF CommandInv, At, Here
  <1>3. QED
    BY <1>1, <1>2 DEF Raced

LEMMA GotoDoes ==
  ASSUME CommandInv, ~ At("idle"), ~ At("ended"), NEW at \in Step \ {"idle", "owner"}, Goto(at)
  PROVE  /\ CommandInv' /\ install'.at = at
         /\ install'.exit = install.exit /\ install'.dir = install.dir /\ install'.repo = install.repo
         /\ install'.owner = install.owner /\ install'.setup = install.setup
         /\ install'.raced = install.raced
  <1>1. install \in Install
    BY DEF CommandInv
  <1>2. /\ install' \in Install /\ install'.at = at
        /\ install'.exit = install.exit /\ install'.dir = install.dir /\ install'.repo = install.repo
        /\ install'.owner = install.owner /\ install'.setup = install.setup
        /\ install'.raced = install.raced
    BY <1>1 DEF Goto, Install
  <1>3. QED
    BY <1>2 DEF CommandInv, At, Here

\* What the scan of a command, or of a push, hands to a deploy.
LEMMA FoundFit ==
  ASSUME DiskInv, NEW roots \in SUBSET Dir, NEW s \in Slug, s[1] \in Registered,
         NEW in \in Filter(Scan(roots), s), ~ in.err
  PROVE  /\ in.path \in Dir /\ tree[in.path].is /\ tree[in.path].origin # None
         /\ tree[in.path].origin[1] = s[1] /\ tree[in.path].branch
  <1>1. PICK d \in Dir : /\ in = Inspect(d) /\ \E base \in roots : d \in FoundBelow(base, base)
                         /\ Same(Attributed(d), s)
    <2>1. PICK d \in Dir : in = Inspect(d) /\ \E base \in roots : d \in FoundBelow(base, base)
      BY ScanIs DEF Filter
    <2>2. Same(in.repository, s) /\ in.repository = Attributed(d)
      BY <2>1, InspectIs DEF Filter
    <2>3. QED
      BY <2>1, <2>2
  <1>2. in.path = d /\ OriginSlug(d) # None /\ Branch(d) /\ tree[d].is
    BY <1>1, InspectIs DEF FoundBelow
  <1>3. Attributed(d) = tree[d].origin
    BY <1>2 DEF Attributed, OriginSlug
  <1>4. QED
    BY <1>1, <1>2, <1>3 DEF Same, OriginSlug, Branch

LEMMA DeployableFit ==
  ASSUME DiskInv, CommandInv, At("deploy"), Deployable
  PROVE  /\ Here \in Dir /\ tree[Here].is /\ tree[Here].origin # None
         /\ tree[Here].origin[1] = install.repo[1] /\ install.repo[1] \in Registered
         /\ tree[Here].branch /\ install.repo \in Slug
  <1>1. PICK in \in Found : ~ in.err
    BY DEF Deployable
  <1>2. in \in Filter(Scan(Roots), install.repo) /\ in.path = Here
    BY DEF Found
  <1>3. Here \in Dir /\ install.repo \in Slug /\ install.repo[1] \in Registered
    BY DEF CommandInv, At
  <1>4. Roots \in SUBSET Dir
    BY <1>3, SitesAssumption DEF Roots
  <1>5. QED
    BY <1>1, <1>2, <1>3, <1>4, FoundFit

LEMMA InstallingKeepsKind ==
  ASSUME KindInv, ClonedInv, Installing
  PROVE  KindInv'
  <1>0. DiskInv /\ CommandInv /\ CountInv /\ install \in Install
    BY DEF KindInv, CommandInv
  <1>1. MaxInstalls \in Nat /\ MaxTouches \in Nat
    BY SitesAssumption
  <1>2. ASSUME Touch PROVE touches' \in 0 .. MaxTouches
    BY <1>0, <1>1, <1>2 DEF Touch, CountInv
  <1>3. ASSUME UNCHANGED disk PROVE DiskInv'
    BY <1>0, <1>3 DEF disk, DiskInv, Checkout, Bare, IsDir
  <1>4. ASSUME NEW r \in Registered, NEW d \in Dir, ~ Top(d), BeginInstall(r, d) PROVE KindInv'
    <2>1. r \in Repo /\ Slugged(r) \in Slug /\ Slugged(r)[1] = r
      BY SluggedIs, SitesAssumption
    <2>2. install' = [NoInstall EXCEPT !.at = "inspect", !.repo = Slugged(r), !.dir = d]
      BY <1>4 DEF BeginInstall
    <2>3. install' \in Install /\ install'.at = "inspect" /\ install'.repo = Slugged(r) /\ install'.dir = d
      BY <2>1, <2>2, SitesAssumption DEF NoInstall, Install, Step
    <2>4. CommandInv'
      BY <1>4, <2>1, <2>3 DEF CommandInv, At, Here, Top
    <2>5. CountInv'
      BY <1>0, <1>1, <1>4 DEF BeginInstall, CountInv
    <2>6. QED
      BY <1>3, <1>4, <2>4, <2>5 DEF KindInv, BeginInstall
  <1>5. ASSUME CloneOwnerDir PROVE KindInv'
    <2>1. CommandInv'
      <3>1. CASE install' = [install EXCEPT !.from = OwnerDir(Here), !.at = "owner"]
        <4>1. Here \in Dir /\ OwnerDir(Here) \in Dir
          BY <1>0, <1>5, SitesAssumption DEF CloneOwnerDir, CommandInv, At, OwnerDir
        <4>2. /\ install' \in Install /\ install'.at = "owner" /\ install'.from = OwnerDir(Here)
              /\ install'.dir = install.dir /\ install'.repo = install.repo
          BY <1>0, <3>1, <4>1 DEF Install, Step
        <4>3. QED
          BY <1>0, <1>5, <4>1, <4>2 DEF CloneOwnerDir, CommandInv, At, Here
      <3>2. CASE Goto("confirm")
        BY <1>0, <1>5, <3>2, GotoDoes DEF CloneOwnerDir, At, Step
      <3>3. CASE Ends("error")
        BY <1>0, <3>3, EndsDoes
      <3>4. QED
        BY <1>5, <3>1, <3>2, <3>3 DEF CloneOwnerDir
    <2>2. QED
      BY <1>0, <1>3, <1>5, <2>1 DEF CloneOwnerDir, KindInv, CountInv
  <1>6. ASSUME ConfirmClear PROVE KindInv'
    <2>1. CommandInv'
      <3>1. CASE Goto("clear")
        BY <1>0, <1>6, <3>1, GotoDoes DEF ConfirmClear, At, Step
      <3>2. CASE Ends("error")
        BY <1>0, <3>2, EndsDoes
      <3>3. QED
        BY <1>6, <3>1, <3>2 DEF ConfirmClear
    <2>2. QED
      BY <1>0, <1>3, <1>6, <2>1 DEF ConfirmClear, KindInv, CountInv
  <1>7. ASSUME ClearContents PROVE KindInv'
    <2>1. Here \in Dir /\ Children(Here) \subseteq Dir
      BY <1>0, <1>7 DEF ClearContents, CommandInv, At, Children
    <2>2. DiskInv'
      BY <1>0, <1>7, <2>1, ClearedKeepsDisk DEF ClearContents
    <2>3. /\ install' \in Install /\ install'.at = "owner" /\ install'.from = Here
          /\ install'.dir = install.dir /\ install'.repo = install.repo
      BY <1>0, <1>7, <2>1 DEF ClearContents, Install, Step
    <2>4. CommandInv'
      BY <1>0, <1>7, <2>1, <2>3 DEF ClearContents, CommandInv, At, Here
    <2>5. QED
      BY <1>0, <1>7, <2>2, <2>4 DEF ClearContents, KindInv, CountInv
  <1>8. ASSUME ClearFails PROVE KindInv'
    <2>1. Here \in Dir /\ Children(Here) \subseteq Dir
      BY <1>0, <1>8 DEF ClearFails, CommandInv, At, Children
    <2>2. CommandInv'
      BY <1>0, <1>8, EndsDoes DEF ClearFails
    <2>3. DiskInv'
      <3>1. CASE UNCHANGED disk
        BY <1>3, <3>1
      <3>2. ASSUME NEW gone \in SUBSET Children(Here), NEW own \in BOOLEAN, Cleared(gone, own)
            PROVE  DiskInv'
        BY <1>0, <2>1, <3>2, ClearedKeepsDisk
      <3>3. QED
        BY <1>8, <3>1, <3>2 DEF ClearFails
    <2>4. touches' \in 0 .. MaxTouches
      BY <1>0, <1>2, <1>8 DEF ClearFails, CountInv
    <2>5. QED
      BY <1>0, <1>8, <2>2, <2>3, <2>4 DEF ClearFails, KindInv, CountInv
  <1>9. ASSUME FindOwner PROVE KindInv'
    <2>1. CommandInv'
      <3>1. CASE Ends("error")
        BY <1>0, <3>1, EndsDoes
      <3>2. CASE /\ OwnerOf(install.from) # None
                 /\ install' = [install EXCEPT !.owner = OwnerOf(install.from), !.at = "clone"]
        <4>1. install.from \in Dir
          BY <1>0, <1>9 DEF FindOwner, CommandInv
        <4>2. OwnerOf(install.from) \in User
          BY <1>0, <3>2, <4>1 DEF OwnerOf, DiskInv, Place
        <4>3. /\ install' \in Install /\ install'.at = "clone"
              /\ install'.dir = install.dir /\ install'.repo = install.repo
          BY <1>0, <3>2, <4>2 DEF Install, Step
        <4>4. QED
          BY <1>0, <1>9, <4>3 DEF FindOwner, CommandInv, At, Here
      <3>3. QED
        BY <1>9, <3>1, <3>2 DEF FindOwner
    <2>2. QED
      BY <1>0, <1>3, <1>9, <2>1 DEF FindOwner, KindInv, CountInv
  <1>10. ASSUME PrepareFails PROVE KindInv'
    BY <1>0, <1>2, <1>3, <1>10, EndsDoes DEF PrepareFails, KindInv, CountInv
  <1>11. ASSUME Clone PROVE KindInv'
    <2>1. ~ At("idle") /\ ~ At("ended")
      BY <1>11 DEF Clone, At
    <2>2. DiskInv'
      BY <1>0, <1>11, <2>1, ClonedKeepsDisk DEF Clone
    <2>3. CommandInv'
      BY <1>0, <1>11, <2>1, GotoDoes DEF Clone, Step
    <2>4. QED
      BY <1>0, <1>11, <2>2, <2>3 DEF Clone, KindInv, CountInv
  <1>12. ASSUME CloneFails PROVE KindInv'
    <2>1. touches' \in 0 .. MaxTouches
      BY <1>0, <1>2, <1>12 DEF CloneFails, CountInv
    <2>2. QED
      BY <1>0, <1>3, <1>12, <2>1, EndsDoes DEF CloneFails, KindInv, CountInv
  <1>13. ASSUME LoadManifest PROVE KindInv'
    <2>1. CommandInv'
      <3>1. CASE Ends("bare") \/ Ends("error")
        BY <1>0, <3>1, EndsDoes
      <3>2. CASE /\ Loads(tree[Here].content)
                 /\ install' = [install EXCEPT !.setup = tree[Here].content.setup, !.at = "deploy"]
        <4>1. Here \in Dir
          BY <1>0, <1>13 DEF LoadManifest, CommandInv, At
        <4>2. tree[Here].content.setup \in BOOLEAN
          <5>1. tree[Here].is
            BY <1>13 DEF LoadManifest, ClonedInv
          <5>2. QED
            BY <1>0, <4>1, <5>1 DEF DiskInv, Checkout, Content
        <4>3. /\ install' \in Install /\ install'.at = "deploy"
              /\ install'.dir = install.dir /\ install'.repo = install.repo
          BY <1>0, <3>2, <4>2 DEF Install, Step
        <4>4. QED
          BY <1>0, <1>13, <4>3 DEF LoadManifest, CommandInv, At, Here
      <3>3. QED
        BY <1>13, <3>1, <3>2 DEF LoadManifest
    <2>2. QED
      BY <1>0, <1>3, <1>13, <2>1 DEF LoadManifest, KindInv, CountInv
  <1>14. ASSUME DeployFirst PROVE KindInv'
    <2>1. install.setup \in BOOLEAN
      BY <1>0 DEF Install
    <2>2. DiskInv'
      <3>1. PICK well \in BOOLEAN : Deploys(Here, install.setup, well)
        BY <1>14 DEF DeployFirst
      <3>2. QED
        BY <1>0, <1>14, <2>1, <3>1, DeployableFit, DeployKeepsDisk DEF DeployFirst
    <2>3. CommandInv'
      BY <1>0, <1>14, EndsDoes DEF DeployFirst
    <2>4. touches' \in 0 .. MaxTouches
      BY <1>0, <1>2, <1>14 DEF DeployFirst, CountInv
    <2>5. QED
      BY <1>0, <1>14, <2>2, <2>3, <2>4 DEF DeployFirst, KindInv, CountInv
  <1>15. ASSUME DeployRefused PROVE KindInv'
    <2>1. install.setup \in BOOLEAN
      BY <1>0 DEF Install
    <2>2. DiskInv'
      <3>1. CASE UNCHANGED disk
        BY <1>3, <3>1
      <3>2. CASE Deployable /\ Deploys(Here, install.setup, FALSE)
        BY <1>0, <1>15, <2>1, <3>2, DeployableFit, DeployKeepsDisk DEF DeployRefused
      <3>3. QED
        BY <1>15, <3>1, <3>2 DEF DeployRefused
    <2>3. CommandInv'
      BY <1>0, <1>15, EndsDoes DEF DeployRefused
    <2>4. QED
      BY <1>0, <1>15, <2>2, <2>3 DEF DeployRefused, KindInv, CountInv
  <1>16. ASSUME Kill PROVE KindInv'
    <2>1. DiskInv'
      <3>1. CASE UNCHANGED disk
        BY <1>3, <3>1
      <3>2. CASE CanClone /\ Cloned
        BY <1>0, <1>16, <3>2, ClonedKeepsDisk DEF Kill
      <3>3. QED
        BY <1>16, <3>1, <3>2 DEF Kill
    <2>2. CommandInv'
      <3>1. install' \in Install /\ install'.at = "idle"
        BY <1>16, SitesAssumption DEF Kill, NoInstall, Install, Step
      <3>2. QED
        BY <3>1 DEF CommandInv, At
    <2>3. QED
      BY <1>0, <1>2, <1>16, <2>1, <2>2 DEF Kill, KindInv, CountInv
  <1>17. QED
    BY <1>4, <1>5, <1>6, <1>7, <1>8, <1>9, <1>10, <1>11, <1>12, <1>13, <1>14, <1>15, <1>16 DEF Installing

LEMMA InstallingKeepsClone ==
  ASSUME KindInv, Installing
  PROVE  ClonedInv'
  <1>0. CommandInv /\ install \in Install
    BY DEF KindInv, CommandInv
  <1>1. ASSUME NEW exit \in {"ok", "bare", "error"}, Ends(exit) PROVE install'.at # "manifest"
    BY <1>0, <1>1, EndsDoes
  <1>2. CASE Clone
    <2>1. install'.dir = Here /\ Here \in Dir
      BY <1>0, <1>2 DEF Clone, Goto, CommandInv, At, Here, Install
    <2>2. tree'[Here].is
      BY <1>2, <2>1 DEF Clone, Cloned, KindInv, DiskInv
    <2>3. QED
      BY <2>1, <2>2 DEF ClonedInv, Here
  <1>3. CASE ~ Clone
    <2>1. install'.at # "manifest"
      <3>1. ASSUME NEW r \in Registered, NEW d \in Dir, BeginInstall(r, d) PROVE install'.at # "manifest"
        BY <3>1 DEF BeginInstall, NoInstall
      <3>2. CASE CloneOwnerDir
        BY <1>0, <1>1, <3>2 DEF CloneOwnerDir, Goto, Install
      <3>3. CASE ConfirmClear
        BY <1>0, <1>1, <3>3 DEF ConfirmClear, Goto, Install
      <3>4. CASE ClearContents
        BY <1>0, <3>4 DEF ClearContents, Install
      <3>5. CASE FindOwner
        BY <1>0, <1>1, <3>5 DEF FindOwner, Install
      <3>6. CASE LoadManifest
        BY <1>0, <1>1, <3>6 DEF LoadManifest, Install
      <3>7. CASE ClearFails \/ PrepareFails \/ CloneFails \/ DeployFirst \/ DeployRefused
        BY <1>1, <3>7 DEF ClearFails, PrepareFails, CloneFails, DeployFirst, DeployRefused
      <3>8. CASE Kill
        BY <3>8 DEF Kill, NoInstall
      <3>9. QED
        BY <1>3, <3>1, <3>2, <3>3, <3>4, <3>5, <3>6, <3>7, <3>8 DEF Installing
    <2>2. QED
      BY <2>1 DEF ClonedInv, At
  <1>4. QED
    BY <1>2, <1>3

\* What everybody else can do to the disk.
LEMMA EditsAre ==
  ASSUME NEW t \in Tree, t.is, t.content \in Content, NEW u \in Edits(t)
  PROVE  u \in Tree /\ u.is /\ u.content \in Content
  <1>1. \A r \in Repo : Slugged(r) \in Slug
    BY SluggedIs
  <1>2. CASE \E s \in Slug \cup {None} : u = [t EXCEPT !.origin = s]
    BY <1>2 DEF Tree
  <1>3. CASE u = [t EXCEPT !.branch = FALSE]
    BY <1>3 DEF Tree
  <1>4. CASE u = [t EXCEPT !.content.files = Name]
    <2>1. u = [t EXCEPT !.content = [t.content EXCEPT !.files = Name]]
      BY <1>4
    <2>2. [t.content EXCEPT !.files = Name] \in Content
      BY DEF Content
    <2>3. QED
      BY <2>1, <2>2 DEF Tree
  <1>5. ASSUME NEW s \in Slug \cup {None}, u = [t EXCEPT !.content.declares = s]
        PROVE  u \in Tree /\ u.is /\ u.content \in Content
    <2>1. u = [t EXCEPT !.content = [t.content EXCEPT !.declares = s]]
      BY <1>5
    <2>2. [t.content EXCEPT !.declares = s] \in Content
      BY DEF Content
    <2>3. QED
      BY <2>1, <2>2 DEF Tree
  <1>6. QED
    BY <1>1, <1>2, <1>3, <1>4, <1>5 DEF Edits

\* A step of somebody else: what it changes lies below d, and it takes no checkout away.
Foreign(d) ==
  /\ install' = Raced(d)
  /\ \A e \in Dir \ Below(d) : place'[e] = place[e] /\ tree'[e] = tree[e]
  /\ \A e \in Dir : tree'[e].is = tree[e].is
  /\ \A e \in Dir : ran[e] \subseteq ran'[e]

LEMMA ElsewhereDoes ==
  ASSUME KindInv, Elsewhere
  PROVE  /\ DiskInv' /\ CountInv'
         /\ (\E d \in Dir : Foreign(d)) \/ UNCHANGED <<disk, install>>
  <1>0. DiskInv /\ CommandInv /\ CountInv
    BY DEF KindInv
  <1>1. \A d \in Dir : d \in Below(d)
    BY BelowSelf
  <1>2. ASSUME Touch, UNCHANGED installs, published' \in [Registered -> Contents] PROVE CountInv'
    BY <1>0, <1>2, SitesAssumption DEF Touch, CountInv
  <1>3. ASSUME NEW d \in Dir, NEW p \in Place, place' = [place EXCEPT ![d] = p], UNCHANGED <<tree, ran>>,
               install' = Raced(d), IsDir(d) => p.kind = "dir"
        PROVE  DiskInv' /\ Foreign(d)
    <2>1. place' \in [Dir -> Place]
      BY <1>0, <1>3 DEF DiskInv
    <2>2. \A e \in Dir : IsDir(e) => IsDir(e)'
      BY <1>0, <1>3 DEF DiskInv, IsDir
    <2>3. DiskInv'
      BY <1>0, <1>3, <2>1, <2>2 DEF DiskInv, Checkout, Bare
    <2>4. Foreign(d)
      BY <1>0, <1>1, <1>3 DEF DiskInv, Foreign
    <2>5. QED
      BY <2>3, <2>4
  <1>4. ASSUME NEW r \in Registered, Push(r)
        PROVE  DiskInv' /\ CountInv' /\ \E d \in Dir : Foreign(d)
    <2>1. PICK in \in Filter(Scan(Base), Slugged(r)), well \in BOOLEAN :
            ~ in.err /\ Deploys(in.path, FALSE, well) /\ install' = Raced(in.path)
      BY <1>4 DEF Push
    <2>2. r \in Repo /\ Slugged(r) \in Slug /\ Slugged(r)[1] = r /\ Base \in SUBSET Dir
      BY SluggedIs, SitesAssumption
    <2>3. in.path \in Dir /\ tree[in.path].is /\ tree[in.path].origin # None /\ tree[in.path].origin[1] = r
      BY <1>0, <2>1, <2>2, FoundFit
    <2>4. DiskInv'
      BY <1>0, <2>1, <2>3, DeployKeepsDisk
    <2>5. CountInv'
      BY <1>0, <1>2, <1>4 DEF Push, CountInv
    <2>6. \A e \in Dir \ Below(in.path) : place'[e] = place[e] /\ tree'[e] = tree[e]
      <3>1. CASE tree' = Pulled(in.path) /\ place' = Swept(in.path)
        <4> SUFFICES ASSUME NEW e \in Dir \ Below(in.path)
                     PROVE  place'[e] = place[e] /\ tree'[e] = tree[e]
          OBVIOUS
        <4>1. e # in.path
          BY <1>1, <2>3
        <4>2. place'[e] = place[e]
          BY <2>3, <3>1, <4>1, SweptAt
        <4>3. tree'[e] = tree[e]
          BY <1>0, <2>3, <3>1, <4>1, PulledIs
        <4>4. QED
          BY <4>2, <4>3
      <3>2. QED
        BY <2>1, <3>1 DEF Deploys
    <2>7. \A e \in Dir : tree'[e].is = tree[e].is
      <3>1. CASE tree' = Pulled(in.path)
        BY <1>0, <2>3, <3>1, PulledIs
      <3>2. QED
        BY <2>1, <3>1 DEF Deploys
    <2>8. \A e \in Dir : ran[e] \subseteq ran'[e]
      <3>1. PICK s : ran' = [ran EXCEPT ![in.path] = @ \cup s]
        BY <2>1 DEF Deploys
      <3>2. QED
        BY <1>0, <3>1 DEF DiskInv
    <2>9. QED
      BY <2>1, <2>3, <2>4, <2>5, <2>6, <2>7, <2>8 DEF Foreign
  <1>5. ASSUME NEW d \in Dir, NEW u \in User, MakeDir(d, u)
        PROVE  DiskInv' /\ CountInv' /\ Foreign(d)
    <2>1. [kind |-> "dir", owner |-> u, stuff |-> FALSE] \in Place
      BY DEF Place
    <2>2. DiskInv' /\ Foreign(d)
      BY <1>3, <1>5, <2>1 DEF MakeDir
    <2>3. QED
      BY <1>0, <1>2, <1>5, <2>2 DEF MakeDir, CountInv
  <1>6. ASSUME NEW d \in Dir, NEW u \in User, HandOver(d, u)
        PROVE  DiskInv' /\ CountInv' /\ Foreign(d)
    <2>1. place[d] \in Place
      BY <1>0 DEF DiskInv
    <2>2. [place[d] EXCEPT !.owner = u] \in Place /\ [place[d] EXCEPT !.owner = u].kind = place[d].kind
      BY <2>1 DEF Place
    <2>3. place' = [place EXCEPT ![d] = [place[d] EXCEPT !.owner = u]]
      BY <1>6 DEF HandOver
    <2>4. DiskInv' /\ Foreign(d)
      BY <1>3, <1>6, <2>2, <2>3 DEF HandOver, IsDir
    <2>5. QED
      BY <1>0, <1>2, <1>6, <2>4 DEF HandOver, CountInv
  <1>7. ASSUME NEW d \in Dir, PutFile(d)
        PROVE  DiskInv' /\ CountInv' /\ Foreign(d)
    <2>1. place[d] \in Place
      BY <1>0 DEF DiskInv
    <2>2. [place[d] EXCEPT !.stuff = TRUE] \in Place /\ [place[d] EXCEPT !.stuff = TRUE].kind = place[d].kind
      BY <2>1 DEF Place
    <2>3. place' = [place EXCEPT ![d] = [place[d] EXCEPT !.stuff = TRUE]]
      BY <1>7 DEF PutFile
    <2>4. DiskInv' /\ Foreign(d)
      BY <1>3, <1>7, <2>2, <2>3 DEF PutFile, IsDir
    <2>5. QED
      BY <1>0, <1>2, <1>7, <2>4 DEF PutFile, CountInv
  <1>8. ASSUME NEW d \in Dir, Edit(d)
        PROVE  DiskInv' /\ CountInv' /\ Foreign(d)
    <2>1. PICK t \in Edits(tree[d]) : tree' = [tree EXCEPT ![d] = t]
      BY <1>8 DEF Edit
    <2>2. tree[d] \in Tree /\ tree[d].is /\ tree[d].content \in Content /\ IsDir(d)
      BY <1>0, <1>8 DEF Edit, DiskInv, Checkout
    <2>3. t \in Tree /\ t.is /\ t.content \in Content
      BY <2>2, EditsAre
    <2>4. tree' \in [Dir -> Tree] /\ tree'[d] = t /\ \A e \in Dir \ {d} : tree'[e] = tree[e]
      BY <1>0, <2>1, <2>3 DEF DiskInv
    <2>5. UNCHANGED <<place, ran>>
      BY <1>8 DEF Edit
    <2>6. DiskInv'
      BY <1>0, <2>2, <2>3, <2>4, <2>5 DEF DiskInv, Checkout, Bare, IsDir
    <2>7. tree'[d].is = tree[d].is
      BY <2>2, <2>3, <2>4 DEF Tree
    <2>8. Foreign(d)
      BY <1>1, <1>8, <2>4, <2>5, <2>7 DEF Edit, Foreign
    <2>9. QED
      BY <1>0, <1>2, <1>8, <2>6, <2>8 DEF Edit, CountInv
  <1>9. ASSUME NEW r \in Registered, NEW content \in Contents, Publish(r, content)
        PROVE  DiskInv' /\ CountInv' /\ UNCHANGED <<disk, install>>
    <2>1. UNCHANGED <<disk, install, installs>> /\ UNCHANGED <<place, tree, ran>>
      BY <1>9 DEF Publish, disk
    <2>2. DiskInv'
      BY <1>0, <2>1 DEF DiskInv, Checkout, Bare, IsDir
    <2>3. published' \in [Registered -> Contents]
      BY <1>0, <1>9 DEF Publish, CountInv
    <2>4. QED
      BY <1>2, <1>9, <2>1, <2>2, <2>3 DEF Publish
  <1>10. QED
    BY <1>4, <1>5, <1>6, <1>7, <1>8, <1>9 DEF Elsewhere

LEMMA KindInit == Init => KindInv /\ ClonedInv
  <1> SUFFICES ASSUME Init PROVE KindInv /\ ClonedInv
    OBVIOUS
  <1>1. Root \in User /\ MaxInstalls \in Nat /\ MaxTouches \in Nat
    BY SitesAssumption
  <1>2. place \in [Dir -> Place]
    BY DEF Init, Place
  <1>3. NoTree \in Tree /\ NoTree.is = FALSE
    BY <1>1 DEF NoTree, Tree
  <1>4. tree = [d \in Dir |-> NoTree] /\ ran = [d \in Dir |-> {}]
    BY DEF Init
  <1>5. \A d \in Dir : Checkout(d) /\ Bare(d)
    BY <1>3, <1>4 DEF Checkout, Bare
  <1>6. DiskInv
    BY <1>2, <1>3, <1>4, <1>5 DEF DiskInv
  <1>7. install \in Install /\ install.at = "idle"
    BY <1>1 DEF Init, NoInstall, Install, Step
  <1>8. CountInv
    BY <1>1 DEF Init, CountInv
  <1>9. QED
    BY <1>6, <1>7, <1>8 DEF KindInv, CommandInv, ClonedInv, At

LEMMA KindNext == KindInv /\ ClonedInv /\ [Next]_vars => KindInv' /\ ClonedInv'
  <1> SUFFICES ASSUME KindInv, ClonedInv, [Next]_vars PROVE KindInv' /\ ClonedInv'
    OBVIOUS
  <1>1. CASE Installing
    BY <1>1, InstallingKeepsKind, InstallingKeepsClone
  <1>2. CASE Elsewhere
    <2>1. DiskInv' /\ CountInv' /\ ((\E d \in Dir : Foreign(d)) \/ UNCHANGED <<disk, install>>)
      BY <1>2, ElsewhereDoes
    <2>2. CommandInv /\ CommandInv' /\ ClonedInv'
      <3>1. ASSUME NEW d \in Dir, Foreign(d) PROVE CommandInv /\ CommandInv' /\ ClonedInv'
        <4>1. CommandInv /\ install' = Raced(d)
          BY <3>1 DEF KindInv, Foreign
        <4>2. CommandInv' /\ install'.at = install.at /\ install'.dir = install.dir
          BY <4>1, RacedDoes
        <4>3. At("manifest") => Here \in Dir
          BY <4>1 DEF CommandInv, At
        <4>4. ClonedInv'
          BY <3>1, <4>2, <4>3 DEF ClonedInv, At, Here, Foreign
        <4>5. QED
          BY <4>1, <4>2, <4>4
      <3>2. CASE UNCHANGED <<disk, install>>
        BY <3>2 DEF KindInv, CommandInv, ClonedInv, At, Here, disk
      <3>3. QED
        BY <2>1, <3>1, <3>2
    <2>3. QED
      BY <2>1, <2>2 DEF KindInv
  <1>3. CASE UNCHANGED vars
    BY <1>3 DEF vars, disk, KindInv, DiskInv, CommandInv, CountInv, ClonedInv, Checkout, Bare, IsDir, At, Here
  <1>4. QED
    BY <1>1, <1>2, <1>3 DEF Next

-----------------------------------------------------------------------------
(* What an installation can rely on as long as nobody else touches the place. *)

\* Part 4: whatever is there lies in a directory.
FamilyInv == \A d \in Dir : ~ Top(d) /\ ~ Absent(d) => IsDir(ParentOf[d])

\* Nothing at all below d.
Alone(d) == \A e \in Below(d) \ {d} : Absent(e)

\* Part 5: who clones owns the directory, if there is one.
FromInv ==
  ~ install.raced =>
    /\ At("owner") => Absent(Here) \/ install.from = Here
    /\ At("clone") => Absent(Here) \/ install.owner = place[Here].owner

\* Part 6: from the clone to the end of the first deploy, all there is belongs to its owner.
Owned(d) == IsDir(d) /\ tree[d].is /\ tree[d].owner = place[d].owner /\ Alone(d)

OwnInv == ~ install.raced /\ (At("manifest") \/ At("deploy") \/ install.exit = "ok") => Owned(Here)

\* Part 7: after a first deploy that went well, the next one finds the checkout fit.
Fit(d, s) ==
  /\ OriginSlug(d) # None /\ Branch(d) /\ Loads(tree[d].content)
  /\ Same(OriginSlug(d), tree[d].content.declares) /\ Same(OriginSlug(d), s)

FitInv == ~ install.raced /\ install.exit = "ok" => Fit(Here, install.repo)

\* Part 8: it has run what it promised, raced or not.
PostInv ==
  install.exit = "ok" => /\ At("ended") /\ Here \in Dir
                         /\ "post" \in ran[Here] /\ (install.setup => "setup" \in ran[Here])

WordInv == FromInv /\ OwnInv /\ FitInv /\ PostInv

KeepInv == FamilyInv /\ WordInv

LEMMA AloneBelow ==
  ASSUME FamilyInv, NEW d \in Dir, ~ IsDir(d) \/ \A e \in Children(d) : Absent(e)
  PROVE  Alone(d)
  <1> DEFINE S == {x \in Below(d) \ {d} : ~ Absent(x)}
  <1>1. ASSUME NEW x \in S PROVE ~ Top(x) /\ ParentOf[x] \in S
    <2>1. x \in Dir /\ d \in Above[x] /\ x # d /\ ~ Absent(x)
      BY DEF Below
    <2>2. ~ Top(x)
      BY <2>1, AboveIs
    <2>3. /\ ParentOf[x] \in Dir /\ x \in Children(ParentOf[x])
          /\ Above[x] = {x} \cup Above[ParentOf[x]]
      BY <2>1, <2>2, Childhood
    <2>4. IsDir(ParentOf[x])
      BY <2>1, <2>2 DEF FamilyInv
    <2>5. ParentOf[x] # d
      BY <2>1, <2>3, <2>4
    <2>6. QED
      BY <2>1, <2>2, <2>3, <2>4, <2>5 DEF Below, IsDir, Absent
  <1>2. S = {}
    <2> HIDE DEF S
    <2>1. S \subseteq Dir
      BY DEF S, Below
    <2>2. QED
      BY <1>1, <2>1, Outermost
  <1>3. QED
    BY <1>2 DEF Alone

\* What lies below a directory that neither holds d nor lies in d does not lie below d.
LEMMA ApartBelow ==
  ASSUME NEW h \in Dir, NEW d \in Dir, d \notin Below(h), d \notin Above[h], NEW e \in Below(h)
  PROVE  e \notin Below(d)
  <1> SUFFICES ASSUME e \in Below(d) PROVE FALSE
    OBVIOUS
  <1>1. e \in Dir /\ h \in Above[e] /\ d \in Above[e]
    BY DEF Below
  <1>2. h \in Above[d] \/ d \in Above[h]
    BY <1>1, AboveChain
  <1>3. QED
    BY <1>2 DEF Below

\* All of it is the owner's: nobody's file in it is astray, and the scan says so.
LEMMA OwnedIsConsistent ==
  ASSUME DiskInv, NEW d \in Dir, Owned(d), NEW s \in Slug, Fit(d, s), NEW roots \in SUBSET Dir, d \in roots
  PROVE  \E in \in Filter(Scan(roots), s) : in.path = d /\ ~ in.err /\ ~ in.inconsistent
  <1>1. ~ Stray(d)
    <2>1. ASSUME NEW e \in Below(d) \ {d}
          PROVE  ~ \A x \in (Below(d) \cap Above[e]) \ {d} : IsDir(x) /\ x \notin Pruned
      <3>1. e \in (Below(d) \cap Above[e]) \ {d}
        BY AboveSelf DEF Below
      <3>2. ~ IsDir(e)
        BY DEF Owned, Alone, Absent, IsDir
      <3>3. QED
        BY <3>1, <3>2
    <2>2. QED
      BY <2>1 DEF Stray, Owned
  <1>2. Exists(d)
    <2>1. Cardinality({}) = 0
      BY FS_EmptySet
    <2>2. QED
      BY <2>1 DEF Fit, Loads, Exists
  <1>3. d \in FoundBelow(d, d)
    BY <1>2, FoundItself DEF Owned, Hidden
  <1>4. Inspect(d) \in Scan(roots)
    BY <1>3, ScanIs
  <1>5. Inspect(d).path = d /\ ~ Inspect(d).err /\ ~ Inspect(d).inconsistent
    BY <1>1, InspectIs DEF Fit
  <1>6. Same(Inspect(d).repository, s)
    BY InspectIs DEF Fit, Attributed
  <1>7. QED
    BY <1>4, <1>5, <1>6 DEF Filter

LEMMA KeepIsWord == KindInv /\ KeepInv => InstallKeepsItsWord
  <1> SUFFICES ASSUME KindInv, KeepInv, install.exit = "ok"
               PROVE  /\ "post" \in ran[Here] /\ (install.setup => "setup" \in ran[Here])
                      /\ ~ install.raced => \E in \in Found : ~ in.err /\ ~ in.inconsistent
    BY DEF InstallKeepsItsWord
  <1>1. "post" \in ran[Here] /\ (install.setup => "setup" \in ran[Here])
    BY DEF KeepInv, WordInv, PostInv
  <1>2. ASSUME ~ install.raced PROVE \E in \in Found : ~ in.err /\ ~ in.inconsistent
    <2>1. Here \in Dir /\ Roots \in SUBSET Dir /\ Here \in Roots
      BY SitesAssumption DEF KeepInv, WordInv, PostInv, Roots
    <2>2. Owned(Here) /\ Fit(Here, install.repo)
      BY <1>2 DEF KeepInv, WordInv, OwnInv, FitInv
    <2>3. install.repo \in Slug
      BY <2>2 DEF KindInv, CommandInv, Install, Fit, Same
    <2>4. \E in \in Filter(Scan(Roots), install.repo) : in.path = Here /\ ~ in.err /\ ~ in.inconsistent
      BY <2>1, <2>2, <2>3, OwnedIsConsistent DEF KindInv
    <2>5. QED
      BY <2>4 DEF Found
  <1>3. QED
    BY <1>1, <1>2

LEMMA SweptFamily ==
  ASSUME DiskInv, FamilyInv, NEW d \in Dir, place' = Swept(d)
  PROVE  FamilyInv'
  <1> DEFINE Gone(e) == e \in Below(d) \ {d} /\ \A x \in Below(e) : ~ tree[x].is
  <1>1. ASSUME NEW e \in Dir
        PROVE  place'[e].kind = IF Gone(e) THEN "absent" ELSE place[e].kind
    <2>1. CASE e = d
      <3>1. place[e] \in Place
        BY DEF DiskInv
      <3>2. place'[e] = [place[e] EXCEPT !.stuff = FALSE]
        BY <2>1, SweptAt
      <3>3. QED
        BY <2>1, <3>1, <3>2 DEF Place
    <2>2. CASE Gone(e)
      <3>1. place'[e] = Nothing
        BY <2>2, SweptAt
      <3>2. QED
        BY <2>2, <3>1 DEF Nothing
    <2>3. CASE e # d /\ ~ Gone(e)
      BY <2>3, SweptAt
    <2>4. QED
      BY <2>1, <2>2, <2>3
  <1>2. ASSUME NEW e \in Dir, ~ Top(e), Gone(ParentOf[e]) PROVE Gone(e)
    <2> DEFINE p == ParentOf[e]
    <2>1. p \in Dir /\ e \in Below(p)
      BY <1>2, Childhood
    <2>2. p \in Below(d) \ {d} /\ \A x \in Below(p) : ~ tree[x].is
      BY <1>2
    <2> HIDE DEF p
    <2>3. e \in Below(d) /\ Below(e) \subseteq Below(p)
      BY <2>1, <2>2, BelowBelow
    <2>4. e # d
      BY <2>1, <2>2, AboveOnce DEF Below
    <2>5. QED
      BY <2>2, <2>3, <2>4
  <1>3. \A e \in Dir : ParentOf[e] \in Dir
    BY SitesAssumption
  <1> HIDE DEF Gone
  <1>4. QED
    BY <1>1, <1>2, <1>3 DEF FamilyInv, Absent, IsDir

LEMMA ClearedFamily ==
  ASSUME DiskInv, FamilyInv, NEW gone \in SUBSET Dir, NEW own \in BOOLEAN, Cleared(gone, own)
  PROVE  FamilyInv'
  <1> DEFINE Gone(e) == \E x \in gone : e \in Below(x)
  <1>1. ASSUME NEW e \in Dir
        PROVE  place'[e].kind = IF Gone(e) THEN "absent" ELSE place[e].kind
    <2>1. place[e] \in Place
      BY DEF DiskInv
    <2>2. place'[e] = IF Gone(e) THEN Nothing
                      ELSE IF e = Here /\ own THEN [place[e] EXCEPT !.stuff = FALSE] ELSE place[e]
      BY DEF Cleared
    <2> HIDE DEF Gone
    <2>3. QED
      BY <2>1, <2>2 DEF Place, Nothing
  <1>2. ASSUME NEW e \in Dir, ~ Top(e), Gone(ParentOf[e]) PROVE Gone(e)
    <2>1. PICK x \in gone : ParentOf[e] \in Below(x)
      BY <1>2
    <2>2. e \in Below(ParentOf[e])
      BY <1>2, Childhood
    <2>3. e \in Below(x)
      BY <2>1, <2>2, BelowBelow
    <2>4. QED
      BY <2>3
  <1>3. \A e \in Dir : ParentOf[e] \in Dir
    BY SitesAssumption
  <1> HIDE DEF Gone
  <1>4. QED
    BY <1>1, <1>2, <1>3 DEF FamilyInv, Absent, IsDir

\* One place changes: it does not stop being a directory, and it is in one.
LEMMA PutFamily ==
  ASSUME DiskInv, FamilyInv, NEW d \in Dir, NEW p, place' = [place EXCEPT ![d] = p],
         IsDir(d) => p.kind = "dir", Top(d) \/ Absent(d) => IsDir(ParentOf[d])
  PROVE  FamilyInv'
  <1>1. \A e \in Dir : ParentOf[e] \in Dir
    BY SitesAssumption
  <1>2. place'[d] = p /\ \A e \in Dir \ {d} : place'[e] = place[e]
    BY DEF DiskInv
  <1>3. \A e \in Dir : IsDir(e) => IsDir(e)'
    BY <1>2 DEF IsDir
  <1>4. ASSUME NEW e \in Dir, ~ Top(e), ~ Absent(e)' PROVE IsDir(ParentOf[e])
    BY <1>2, <1>4 DEF FamilyInv, Absent
  <1>5. QED
    BY <1>1, <1>3, <1>4 DEF FamilyInv

LEMMA ClonedFamily ==
  ASSUME DiskInv, FamilyInv, Here \in Dir, ~ Top(Here), CanClone, Cloned
  PROVE  FamilyInv'
  <1>1. CASE ~ Absent(Here)
    BY <1>1 DEF Cloned, FamilyInv, Absent, IsDir
  <1>2. CASE Absent(Here)
    <2> DEFINE p == [kind |-> "dir", owner |-> install.owner, stuff |-> FALSE]
    <2>1. place' = [place EXCEPT ![Here] = p] /\ p.kind = "dir"
      BY <1>2 DEF Cloned
    <2>2. ParentOf[Here] \in Above[Here] \ {Here}
      BY Childhood, AboveSelf DEF Top
    <2>3. IsDir(ParentOf[Here])
      BY <2>2 DEF CanClone
    <2> HIDE DEF p
    <2>4. QED
      BY <2>1, <2>3, PutFamily
  <1>3. QED
    BY <1>1, <1>2

LEMMA NextKeepsFamily ==
  ASSUME KindInv, FamilyInv, Next
  PROVE  FamilyInv'
  <1>0. DiskInv /\ CommandInv /\ install \in Install
    BY DEF KindInv, CommandInv
  <1>1. ASSUME UNCHANGED place PROVE FamilyInv'
    BY <1>1 DEF FamilyInv, Absent, IsDir
  <1>2. ASSUME NEW d \in Dir, NEW setup \in BOOLEAN, NEW well \in BOOLEAN, Deploys(d, setup, well)
        PROVE  FamilyInv'
    BY <1>0, <1>1, <1>2, SweptFamily DEF Deploys
  <1>3. CASE Installing
    <2>1. CASE UNCHANGED place
      BY <1>1, <2>1
    <2>2. CASE ClearContents \/ ClearFails
      <3>1. Children(Here) \subseteq Dir
        BY DEF Children
      <3>2. UNCHANGED place \/ \E gone \in SUBSET Children(Here), own \in BOOLEAN : Cleared(gone, own)
        BY <2>2 DEF ClearContents, ClearFails, disk
      <3>3. QED
        BY <1>0, <1>1, <3>1, <3>2, ClearedFamily
    <2>3. CASE Clone \/ Kill
      <3>1. UNCHANGED place \/ (At("clone") /\ CanClone /\ Cloned)
        BY <2>3 DEF Clone, Kill, disk
      <3>2. At("clone") => Here \in Dir /\ ~ Top(Here)
        BY <1>0 DEF CommandInv, At
      <3>3. QED
        BY <1>0, <1>1, <3>1, <3>2, ClonedFamily
    <2>4. CASE DeployFirst \/ DeployRefused
      <3>1. install.setup \in BOOLEAN /\ Here \in Dir
        BY <1>0, <2>4 DEF Install, CommandInv, DeployFirst, DeployRefused, At
      <3>2. UNCHANGED place \/ \E well \in BOOLEAN : Deploys(Here, install.setup, well)
        BY <2>4 DEF DeployFirst, DeployRefused, disk
      <3>3. QED
        BY <1>1, <1>2, <3>1, <3>2
    <2>5. QED
      BY <1>3, <2>1, <2>2, <2>3, <2>4
         DEF Installing, BeginInstall, CloneOwnerDir, ConfirmClear, FindOwner, PrepareFails, CloneFails,
             LoadManifest, disk
  <1>4. CASE Elsewhere
    <2>1. ASSUME NEW r \in Registered, Push(r) PROVE FamilyInv'
      <3>1. PICK in \in Filter(Scan(Base), Slugged(r)), well \in BOOLEAN :
              ~ in.err /\ Deploys(in.path, FALSE, well)
        BY <2>1 DEF Push
      <3>2. r \in Repo /\ Slugged(r) \in Slug /\ Slugged(r)[1] = r /\ Base \in SUBSET Dir
        BY SluggedIs, SitesAssumption
      <3>3. in.path \in Dir
        BY <1>0, <3>1, <3>2, FoundFit
      <3>4. QED
        BY <1>2, <3>1, <3>3
    <2>2. ASSUME NEW d \in Dir, NEW u \in User, MakeDir(d, u) PROVE FamilyInv'
      <3> DEFINE p == [kind |-> "dir", owner |-> u, stuff |-> FALSE]
      <3>1. place' = [place EXCEPT ![d] = p] /\ p.kind = "dir" /\ IsDir(ParentOf[d])
        BY <2>2 DEF MakeDir
      <3> HIDE DEF p
      <3>2. QED
        BY <1>0, <3>1, PutFamily
    <2>3. ASSUME NEW d \in Dir, NEW p, place' = [place EXCEPT ![d] = p], IsDir(d), p.kind = "dir"
          PROVE  FamilyInv'
      <3>1. Top(d) \/ Absent(d) => IsDir(ParentOf[d])
        BY <2>3 DEF Top, Absent, IsDir
      <3>2. QED
        BY <1>0, <2>3, <3>1, PutFamily
    <2>4. ASSUME NEW d \in Dir, NEW u \in User, HandOver(d, u) PROVE FamilyInv'
      <3>1. place[d] \in Place /\ IsDir(d)
        BY <1>0, <2>4 DEF DiskInv, HandOver
      <3>2. [place[d] EXCEPT !.owner = u].kind = "dir"
        BY <3>1 DEF Place, IsDir
      <3>3. place' = [place EXCEPT ![d] = [place[d] EXCEPT !.owner = u]]
        BY <2>4 DEF HandOver
      <3>4. QED
        BY <2>3, <3>1, <3>2, <3>3
    <2>5. ASSUME NEW d \in Dir, PutFile(d) PROVE FamilyInv'
      <3>1. place[d] \in Place /\ IsDir(d)
        BY <1>0, <2>5 DEF DiskInv, PutFile
      <3>2. [place[d] EXCEPT !.stuff = TRUE].kind = "dir"
        BY <3>1 DEF Place, IsDir
      <3>3. place' = [place EXCEPT ![d] = [place[d] EXCEPT !.stuff = TRUE]]
        BY <2>5 DEF PutFile
      <3>4. QED
        BY <2>3, <3>1, <3>2, <3>3
    <2>6. ASSUME NEW d \in Dir, Edit(d) PROVE FamilyInv'
      BY <1>1, <2>6 DEF Edit
    <2>7. ASSUME NEW r \in Registered, NEW content \in Contents, Publish(r, content) PROVE FamilyInv'
      BY <1>1, <2>7 DEF Publish, disk
    <2>8. QED
      BY <1>4, <2>1, <2>2, <2>4, <2>5, <2>6, <2>7 DEF Elsewhere
  <1>5. QED
    BY <1>3, <1>4 DEF Next

\* Once a command has ended without success, or before it has found who clones, it
\* relies on nothing.
LEMMA QuietKeepsWord ==
  ASSUME install'.exit # "ok", install'.at \notin {"owner", "clone", "manifest", "deploy"}
  PROVE  WordInv'
  BY DEF WordInv, FromInv, OwnInv, FitInv, PostInv, At

LEMMA EndsKeepsWord ==
  ASSUME CommandInv, NEW exit \in {"bare", "error"}, Ends(exit)
  PROVE  WordInv'
  BY EndsDoes, QuietKeepsWord

\* The clone is the owner's, and nothing lies below it.
LEMMA CloneOwns ==
  ASSUME KindInv, FamilyInv, FromInv, Clone, ~ install.raced
  PROVE  Owned(Here)'
  <1>0. DiskInv /\ CommandInv /\ install \in Install /\ At("clone") /\ CanClone /\ Cloned
    BY DEF KindInv, CommandInv, Clone
  <1>1. Here \in Dir /\ Here' = Here
    BY <1>0 DEF CommandInv, At, Clone, Goto, Here, Install
  <1>2. tree'[Here].is /\ tree'[Here].owner = install.owner
    BY <1>0, <1>1 DEF Cloned, DiskInv
  <1>3. place'[Here].kind = "dir" /\ place'[Here].owner = install.owner
    <2>1. CASE Absent(Here)
      BY <1>0, <1>1, <2>1 DEF Cloned, DiskInv
    <2>2. CASE ~ Absent(Here)
      BY <1>0, <1>1, <2>2 DEF Cloned, FromInv, CanClone, IsDir
    <2>3. QED
      BY <2>1, <2>2
  <1>4. Alone(Here)
    <2>1. ~ IsDir(Here) \/ \A e \in Children(Here) : Absent(e)
      BY <1>0 DEF CanClone, Empty, Absent, IsDir
    <2>2. QED
      BY <1>1, <2>1, AloneBelow
  <1>5. \A e \in Below(Here) \ {Here} : place'[e] = place[e]
    BY <1>0 DEF Cloned, DiskInv, Below
  <1>6. \A e \in Below(Here) \ {Here} : place'[e].kind = "absent"
    BY <1>4, <1>5 DEF Alone, Absent
  <1>7. (Below(Here) = Below(Here)') /\ Owned(Here)' = (place'[Here].kind = "dir" /\ tree'[Here].is
            /\ tree'[Here].owner = place'[Here].owner
            /\ \A e \in Below(Here') \ {Here'} : place'[e].kind = "absent")
    BY <1>1 DEF Owned, IsDir, Alone, Absent, Below
  <1>8. QED
    BY <1>1, <1>2, <1>3, <1>6, <1>7

\* The first deploy leaves it so, and leaves a checkout that the next one can use.
LEMMA FirstDeployIsFit ==
  ASSUME KindInv, OwnInv, At("deploy"), Deployable, Deploys(Here, install.setup, TRUE),
         Ends("ok")
  PROVE  WordInv'
  <1>0. DiskInv /\ CommandInv /\ CountInv /\ install \in Install
    BY DEF KindInv, CommandInv
  <1>1. /\ Here \in Dir /\ tree[Here].is /\ tree[Here].origin # None
        /\ tree[Here].origin[1] = install.repo[1] /\ install.repo[1] \in Registered
        /\ tree[Here].branch /\ install.repo \in Slug
    BY <1>0, DeployableFit
  <1>2. /\ install'.at = "ended" /\ install'.exit = "ok" /\ install'.dir = Here
        /\ install'.repo = install.repo /\ install'.setup = install.setup
        /\ install'.raced = install.raced
    BY <1>0, EndsDoes
  <1>3. tree' = Pulled(Here) /\ place' = Swept(Here)
    BY DEF Deploys
  <1> DEFINE content == tree'[Here].content
  <1>4. /\ Loads(content) /\ VerifyOrigin(Here, content) /\ (install.setup => content.setup)
        /\ ran' = [ran EXCEPT ![Here] = @ \cup PipelineSteps(content, install.setup)]
    BY DEF Deploys
  <1>5. tree'[Here] = [tree[Here] EXCEPT !.content = published[tree[Here].origin[1]]]
    BY <1>0, <1>1, <1>3, PulledIs
  <1>6. /\ tree'[Here].is /\ tree'[Here].origin = tree[Here].origin
        /\ tree'[Here].branch = tree[Here].branch /\ tree'[Here].owner = tree[Here].owner
    BY <1>0, <1>1, <1>5 DEF DiskInv, Tree
  <1> HIDE DEF content
  <1>7. PostInv'
    <2>1. ran'[Here] = ran[Here] \cup PipelineSteps(content, install.setup)
      BY <1>0, <1>1, <1>4 DEF DiskInv
    <2>2. "post" \in ran'[Here] /\ (install.setup => "setup" \in ran'[Here])
      BY <1>4, <2>1 DEF PipelineSteps
    <2>3. QED
      BY <1>1, <1>2, <2>2 DEF PostInv, At, Here
  <1>8. FitInv'
    <2>1. Same(tree[Here].origin, content.declares) /\ Same(tree[Here].origin, install.repo)
      BY <1>1, <1>4, SitesAssumption DEF VerifyOrigin, OriginSlug, Same
    <2>2. QED
      BY <1>1, <1>2, <1>4, <1>6, <2>1 DEF FitInv, Fit, OriginSlug, Branch, Here, content
  <1>9. OwnInv'
    <2> SUFFICES ASSUME ~ install.raced PROVE Owned(Here)'
      BY <1>2 DEF OwnInv
    <2>1. IsDir(Here) /\ tree[Here].owner = place[Here].owner /\ Alone(Here)
      BY DEF OwnInv, Owned
    <2>2. place'[Here] = [place[Here] EXCEPT !.stuff = FALSE]
      BY <1>1, <1>3, SweptAt
    <2>3. place'[Here].kind = "dir" /\ place'[Here].owner = place[Here].owner
      BY <1>0, <1>1, <2>1, <2>2 DEF DiskInv, Place, IsDir
    <2>4. ASSUME NEW e \in Below(Here) \ {Here} PROVE place'[e].kind = "absent"
      <3>1. e \in Dir /\ place[e].kind = "absent"
        BY <2>1, <2>4 DEF Alone, Absent, Below
      <3>2. place'[e] = Nothing \/ place'[e] = place[e]
        BY <1>1, <1>3, <3>1, SweptAt
      <3>3. QED
        BY <3>1, <3>2 DEF Nothing
    <2>5. Here' = Here
      BY <1>2 DEF Here
    <2>6. QED
      BY <1>6, <2>1, <2>3, <2>4, <2>5 DEF Owned, IsDir, Alone, Absent, Below
  <1>10. FromInv'
    BY <1>2 DEF FromInv, At
  <1>11. QED
    BY <1>7, <1>8, <1>9, <1>10 DEF WordInv

LEMMA InstallingKeepsWord ==
  ASSUME KindInv, KeepInv, Installing
  PROVE  WordInv'
  <1>0. /\ DiskInv /\ CommandInv /\ install \in Install /\ FamilyInv
        /\ FromInv /\ OwnInv /\ FitInv /\ PostInv
    BY DEF KindInv, CommandInv, KeepInv, WordInv
  <1>1. ~ At("ended") => install.exit # "ok"
    BY <1>0 DEF PostInv
  <1>2. ASSUME NEW r \in Registered, NEW d \in Dir, BeginInstall(r, d) PROVE WordInv'
    <2>1. install'.at = "inspect" /\ install'.exit = "none"
      BY <1>2 DEF BeginInstall, NoInstall
    <2>2. QED
      BY <2>1, QuietKeepsWord
  <1>3. CASE CloneOwnerDir
    <2>1. CASE install' = [install EXCEPT !.from = OwnerDir(Here), !.at = "owner"]
      <3>1. /\ install'.at = "owner" /\ install'.from = OwnerDir(Here) /\ install'.dir = install.dir
            /\ install'.exit = install.exit /\ install.exit # "ok"
        BY <1>0, <1>1, <1>3, <2>1 DEF Install, CloneOwnerDir, At
      <3>2. Absent(Here) \/ install'.from = Here
        BY <3>1 DEF OwnerDir
      <3>3. place' = place
        BY <1>3 DEF CloneOwnerDir, disk
      <3>4. QED
        BY <3>1, <3>2, <3>3 DEF WordInv, FromInv, OwnInv, FitInv, PostInv, At, Here, Absent
    <2>2. CASE Goto("confirm")
      <3>1. install'.at = "confirm" /\ install'.exit # "ok"
        BY <1>0, <1>1, <1>3, <2>2 DEF Goto, Install, CloneOwnerDir, At
      <3>2. QED
        BY <3>1, QuietKeepsWord
    <2>3. CASE Ends("error")
      BY <1>0, <2>3, EndsKeepsWord
    <2>4. QED
      BY <1>3, <2>1, <2>2, <2>3 DEF CloneOwnerDir
  <1>4. CASE ConfirmClear
    <2>1. CASE Goto("clear")
      <3>1. install'.at = "clear" /\ install'.exit # "ok"
        BY <1>0, <1>1, <1>4, <2>1 DEF Goto, Install, ConfirmClear, At
      <3>2. QED
        BY <3>1, QuietKeepsWord
    <2>2. CASE Ends("error")
      BY <1>0, <2>2, EndsKeepsWord
    <2>3. QED
      BY <1>4, <2>1, <2>2 DEF ConfirmClear
  <1>5. CASE ClearContents
    <2>1. /\ install'.at = "owner" /\ install'.from = Here /\ install'.dir = install.dir
          /\ install'.exit # "ok"
      BY <1>0, <1>1, <1>5 DEF ClearContents, Install, At
    <2>2. QED
      BY <2>1 DEF WordInv, FromInv, OwnInv, FitInv, PostInv, At, Here
  <1>6. CASE ClearFails \/ PrepareFails \/ CloneFails \/ DeployRefused
    BY <1>0, <1>6, EndsKeepsWord DEF ClearFails, PrepareFails, CloneFails, DeployRefused
  <1>7. CASE FindOwner
    <2>1. CASE Ends("error")
      BY <1>0, <2>1, EndsKeepsWord
    <2>2. CASE /\ OwnerOf(install.from) # None
               /\ install' = [install EXCEPT !.owner = OwnerOf(install.from), !.at = "clone"]
      <3>1. /\ install'.at = "clone" /\ install'.owner = OwnerOf(install.from)
            /\ install'.dir = install.dir /\ install'.raced = install.raced /\ install'.exit # "ok"
        BY <1>0, <1>1, <1>7, <2>2 DEF FindOwner, Install, At
      <3>2. install.raced \/ Absent(Here) \/ install'.owner = place[Here].owner
        <4>1. install.raced \/ Absent(Here) \/ install.from = Here
          BY <1>0, <1>7 DEF FindOwner, FromInv
        <4>2. QED
          BY <2>2, <3>1, <4>1 DEF OwnerOf
      <3>3. place' = place
        BY <1>7 DEF FindOwner, disk
      <3>4. QED
        BY <3>1, <3>2, <3>3 DEF WordInv, FromInv, OwnInv, FitInv, PostInv, At, Here, Absent
    <2>3. QED
      BY <1>7, <2>1, <2>2 DEF FindOwner
  <1>8. CASE Clone
    <2>1. /\ install'.at = "manifest" /\ install'.dir = install.dir /\ install'.raced = install.raced
          /\ install'.exit # "ok"
      BY <1>0, <1>1, <1>8 DEF Clone, Goto, Install, At
    <2>2. ~ install.raced => Owned(Here)'
      BY <1>0, <1>8, CloneOwns DEF KindInv
    <2>3. QED
      BY <2>1, <2>2 DEF WordInv, FromInv, OwnInv, FitInv, PostInv, At
  <1>9. CASE LoadManifest
    <2>1. CASE Ends("bare") \/ Ends("error")
      BY <1>0, <2>1, EndsKeepsWord
    <2>2. CASE install' = [install EXCEPT !.setup = tree[Here].content.setup, !.at = "deploy"]
      <3>1. /\ install'.at = "deploy" /\ install'.dir = install.dir /\ install'.raced = install.raced
            /\ install'.exit # "ok"
        BY <1>0, <1>1, <1>9, <2>2 DEF LoadManifest, Install, At
      <3>2. ~ install.raced => Owned(Here)
        BY <1>0, <1>9 DEF LoadManifest, OwnInv
      <3>3. ~ install.raced => Owned(Here)'
        BY <1>9, <3>1, <3>2 DEF LoadManifest, disk, Owned, IsDir, Alone, Absent, Below, Here
      <3>4. QED
        BY <3>1, <3>3 DEF WordInv, FromInv, OwnInv, FitInv, PostInv, At
    <2>3. QED
      BY <1>9, <2>1, <2>2 DEF LoadManifest
  <1>10. CASE DeployFirst
    BY <1>0, <1>10, EndsKeepsWord, FirstDeployIsFit DEF DeployFirst
  <1>11. CASE Kill
    <2>1. install'.at = "idle" /\ install'.exit = "none"
      BY <1>11 DEF Kill, NoInstall
    <2>2. QED
      BY <2>1, QuietKeepsWord
  <1>12. QED
    BY <1>2, <1>3, <1>4, <1>5, <1>6, <1>7, <1>8, <1>9, <1>10, <1>11 DEF Installing

\* Who works elsewhere disturbs nothing, and who works here has raced the command.
LEMMA ForeignKeepsWord ==
  ASSUME CommandInv, WordInv, NEW d \in Dir, Foreign(d)
  PROVE  WordInv'
  <1>0. FromInv /\ OwnInv /\ FitInv /\ PostInv /\ install \in Install
    BY DEF WordInv, CommandInv
  <1>1. /\ install'.at = install.at /\ install'.exit = install.exit /\ install'.dir = install.dir
        /\ install'.repo = install.repo /\ install'.from = install.from
        /\ install'.owner = install.owner /\ install'.setup = install.setup
        /\ ~ install'.raced => /\ ~ install.raced
                               /\ Here \in Dir => d \notin Below(Here) /\ d \notin Above[Here]
    BY RacedDoes DEF Foreign
  <1>2. Here' = Here
    BY <1>1 DEF Here
  <1>3. ASSUME Here \in Dir, ~ install'.raced, NEW e \in Below(Here)
        PROVE  place'[e] = place[e] /\ tree'[e] = tree[e]
    <2>1. e \notin Below(d)
      BY <1>1, <1>3, ApartBelow
    <2>2. e \in Dir
      BY DEF Below
    <2>3. QED
      BY <2>1, <2>2 DEF Foreign
  <1>4. Here \in Dir => Here \in Below(Here)
    BY BelowSelf
  <1>5. At("owner") \/ At("clone") \/ At("manifest") \/ At("deploy") \/ install.exit = "ok" => Here \in Dir
    BY <1>0 DEF CommandInv, PostInv, At
  <1>6. FromInv'
    BY <1>0, <1>1, <1>2, <1>3, <1>4, <1>5 DEF FromInv, At, Absent
  <1>7. OwnInv'
    <2> SUFFICES ASSUME ~ install'.raced, At("manifest") \/ At("deploy") \/ install.exit = "ok"
                 PROVE  Owned(Here)'
      BY <1>1 DEF OwnInv, At
    <2>1. Owned(Here) /\ Here \in Dir
      BY <1>0, <1>1, <1>5 DEF OwnInv
    <2>2. \A e \in Below(Here) : place'[e] = place[e] /\ tree'[e] = tree[e]
      BY <1>3, <2>1
    <2>3. QED
      BY <1>2, <1>4, <2>1, <2>2 DEF Owned, IsDir, Alone, Absent, Below
  <1>8. FitInv'
    <2> SUFFICES ASSUME ~ install'.raced, install.exit = "ok"
                 PROVE  Fit(Here, install.repo)'
      BY <1>1 DEF FitInv
    <2>1. Fit(Here, install.repo) /\ tree'[Here] = tree[Here]
      BY <1>0, <1>1, <1>3, <1>4, <1>5 DEF FitInv
    <2>2. QED
      BY <1>1, <1>2, <2>1 DEF Fit, OriginSlug, Branch
  <1>9. PostInv'
    BY <1>0, <1>1, <1>2 DEF PostInv, At, Foreign
  <1>10. QED
    BY <1>6, <1>7, <1>8, <1>9 DEF WordInv

LEMMA StillKeepsWord ==
  ASSUME WordInv, UNCHANGED <<disk, install>>
  PROVE  WordInv'
  BY DEF WordInv, FromInv, OwnInv, FitInv, PostInv, At, Here, Owned, IsDir, Alone, Absent, Below,
         Fit, OriginSlug, Branch, disk

SiteInv == KindInv /\ ClonedInv /\ KeepInv

LEMMA SiteInit == Init => SiteInv
  <1> SUFFICES ASSUME Init PROVE KeepInv
    BY KindInit DEF SiteInv
  <1>1. FamilyInv
    BY DEF Init, FamilyInv
  <1>2. WordInv
    BY DEF Init, NoInstall, WordInv, FromInv, OwnInv, FitInv, PostInv, At
  <1>3. QED
    BY <1>1, <1>2 DEF KeepInv

LEMMA SiteNext == SiteInv /\ [Next]_vars => SiteInv'
  <1> SUFFICES ASSUME SiteInv, [Next]_vars PROVE SiteInv'
    OBVIOUS
  <1>0. KindInv /\ ClonedInv /\ KeepInv /\ CommandInv
    BY DEF SiteInv, KindInv
  <1>1. KindInv' /\ ClonedInv'
    BY <1>0, KindNext
  <1>2. FamilyInv'
    <2>1. CASE Next
      BY <1>0, <2>1, NextKeepsFamily DEF KeepInv
    <2>2. CASE UNCHANGED vars
      BY <1>0, <2>2 DEF vars, disk, KeepInv, FamilyInv, Absent, IsDir
    <2>3. QED
      BY <2>1, <2>2
  <1>3. WordInv'
    <2>1. CASE Installing
      BY <1>0, <2>1, InstallingKeepsWord
    <2>2. CASE Elsewhere
      <3>1. (\E d \in Dir : Foreign(d)) \/ UNCHANGED <<disk, install>>
        BY <1>0, <2>2, ElsewhereDoes
      <3>2. QED
        BY <1>0, <3>1, ForeignKeepsWord, StillKeepsWord DEF KeepInv
    <2>3. CASE UNCHANGED vars
      BY <1>0, <2>3, StillKeepsWord DEF vars, KeepInv
    <2>4. QED
      BY <2>1, <2>2, <2>3 DEF Next
  <1>4. QED
    BY <1>1, <1>2, <1>3 DEF SiteInv, KeepInv

LEMMA SiteHolds == Spec => []SiteInv
  BY SiteInit, SiteNext, PTL DEF Spec

\* A checkout always lies in a directory and holds content of a registered repository's
\* kind, whatever panels, users, pushes, failures and kills do to the disk.
THEOREM SitesTypeOK == Spec => []TypeOK
  <1>1. SiteInv => TypeOK
    BY KindIsType DEF SiteInv
  <1>2. QED
    BY <1>1, SiteHolds, PTL

\* "An unattributed checkout is dropped from its own push rather than reported": a push
\* reaches every checkout that carries a manifest, broken or not, and that its origin, or
\* failing that its manifest, says is the repository's, in whatever spelling; it reaches
\* no other; and it deploys one only if both agree (Scan, inspect, Filter).
THEOREM PushFindsItsCheckouts == Spec => []PushReachesItsCheckouts
  BY PushReaches, PTL

\* "Every file lands correctly owned", and the first install is where setup runs: when
\* repo install ends well on a checkout with a manifest, the pipeline has run in it, with
\* setup if the manifest it cloned has one; and if nobody else touched the place, all of
\* it belongs to the directory's owner and a scan finds it fit to deploy (installRepo).
THEOREM InstallKeepsWord == Spec => []InstallKeepsItsWord
  <1>1. SiteInv => InstallKeepsItsWord
    BY KeepIsWord DEF SiteInv
  <1>2. QED
    BY <1>1, SiteHolds, PTL

=============================================================================
