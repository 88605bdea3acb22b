------------------------------- MODULE Sites -------------------------------
(***************************************************************************)
(* Checkouts on the server's disk: how repo install puts them there, and   *)
(* how a push finds them again (internal/discover, internal/manifest).     *)
(*                                                                         *)
(* Nothing registers a checkout: a push walks the roots and deploys what   *)
(* it recognises.  Meanwhile a control panel makes directories, site users *)
(* put files into them and edit checkouts, and a push can arrive between   *)
(* any two steps of an installation.  What a deploy does inside one        *)
(* checkout is Checkout's; here it is one step.                            *)
(***************************************************************************)
EXTENDS Naturals, FiniteSets

CONSTANTS
    Dir,            \* the directories that matter
    ParentOf,       \* the directory each one is in; a top directory is its own
    Base,           \* what the globs of discovery.roots match
    Pruned,         \* those whose name is in discovery.prune
    User, Root,     \* who owns files; Root is one of them
    Repo,
    Registered,     \* those that are registered; the others were cloned by hand
    Spelling,       \* ways to spell one slug, which GitHub takes for the same
    Contents,       \* what a repository can hold, as far as discovery looks
    None,           \* nothing there, or nothing that can be read
    MaxInstalls,    \* bound on installations
    MaxTouches      \* bound on what panels, users, pushes, failures and kills do

Slug == Repo \X Spelling
Name == {".rec-deploy.yml", ".rec-deploy.yaml"}

ASSUME SitesAssumption ==
    /\ ParentOf \in [Dir -> Dir] /\ Base \subseteq Dir /\ Pruned \subseteq Dir
    /\ Root \in User /\ None \notin Slug \cup Dir /\ IsFiniteSet(Dir) /\ Registered \subseteq Repo
    /\ Spelling # {}
    /\ \A S \in (SUBSET Dir) \ {{}} :    \* a tree: one lies outermost, and one innermost
         /\ \E d \in S : ParentOf[d] \notin S \ {d}
         /\ \E d \in S : \A e \in S \ {d} : ParentOf[e] # d
    /\ Contents \subseteq [files : SUBSET Name, declares : Slug \cup {None}, setup : BOOLEAN]
    /\ MaxInstalls \in Nat /\ MaxTouches \in Nat

VARIABLES
    place,      \* what is at each path: its kind, its owner, whether files lie in it
    tree,       \* the checkout at each path, or NoTree
    published,  \* what each registered repository holds at GitHub
    ran,        \* the pipelines each checkout has been through since it was cloned
    install,    \* the installation under way
    installs, touches

disk == <<place, tree, ran>>
vars == <<disk, published, install, installs, touches>>

NoTree == [is |-> FALSE, origin |-> None, branch |-> FALSE, content |-> None, owner |-> Root]

\* from: the directory whose owner clones.  raced is history: somebody else has touched
\* the destination, or what it lies in, since the command began.
NoInstall == [at |-> "idle", repo |-> None, dir |-> None, from |-> None, owner |-> Root,
              setup |-> FALSE, exit |-> "none", raced |-> FALSE]

Step == {"idle", "inspect", "confirm", "clear", "owner", "clone", "manifest", "deploy", "ended"}

-----------------------------------------------------------------------------
(* Directories. *)

Top(d) == ParentOf[d] = d
Children(d) == {e \in Dir \ {d} : ParentOf[e] = d}

\* d and what it lies in, nearest first.
Above[d \in Dir] == IF Top(d) THEN {d} ELSE {d} \cup Above[ParentOf[d]]

Below(d) == {e \in Dir : d \in Above[e]}

Absent(d) == place[d].kind = "absent"
IsDir(d)  == place[d].kind = "dir"

\* Nothing in it: no file, no repository, no directory.
Empty(d) == ~ place[d].stuff /\ ~ tree[d].is /\ \A e \in Children(d) : Absent(e)

Nothing == [kind |-> "absent", owner |-> Root, stuff |-> FALSE]

-----------------------------------------------------------------------------
(* internal/manifest. *)

\* Exists: under either name.
Exists(d) == tree[d].content.files # {}

\* Load: exactly one name (resolvePath), and it parses and validates.
Loads(content) == Cardinality(content.files) = 1 /\ content.declares # None

-----------------------------------------------------------------------------
(* internal/discover. *)

\* The slug in .git/config, whatever the form of the URL, and whether HEAD is on a branch.
OriginSlug(d) == tree[d].origin
Branch(d) == tree[d].branch

\* Slugs are compared as GitHub does, without regard to case.
Same(a, b) == a # None /\ b # None /\ a[1] = b[1]

\* Mutant of Attributed: the manifest alone says whose checkout it is.
Attributed_Manifest(d) ==
    IF Loads(tree[d].content) THEN tree[d].content.declares ELSE None

\* The origin when it can be read, else what the manifest declares.
Attributed(d) ==
    IF OriginSlug(d) # None THEN OriginSlug(d)
    ELSE IF Loads(tree[d].content) THEN tree[d].content.declares ELSE None

\* strayOwner: somebody else's file, in the directories that are not pruned.
Stray(d) ==
    \/ tree[d].owner # place[d].owner
    \/ \E e \in Below(d) \ {d} :
         /\ \A x \in (Below(d) \cap Above[e]) \ {d} : IsDir(x) /\ x \notin Pruned
         /\ \/ place[e].owner # place[d].owner
            \/ tree[e].is /\ tree[e].owner # place[d].owner

\* inspect: it always answers, with Err where the checkout cannot be deployed.
Inspect(d) ==
    LET t == tree[d]
        err == \/ OriginSlug(d) = None \/ ~ Loads(t.content) \/ ~ Branch(d)
               \/ ~ Same(OriginSlug(d), t.content.declares)
    IN [path |-> d, repository |-> Attributed(d), err |-> err, inconsistent |-> ~ err /\ Stray(d)]

\* Whatever is nested below a repository belongs to it.
StopsAt(d) == tree[d].is

\* WalkDir from base, which is entered even if its name is pruned.
Walk(base) ==
    LET Visit[d \in Dir] ==
          IF ~ IsDir(d) \/ (d # base /\ d \in Pruned) THEN {}
          ELSE (IF tree[d].is /\ Exists(d) THEN {d} ELSE {})
               \cup (IF StopsAt(d) THEN {} ELSE UNION {Visit[e] : e \in Children(d)})
    IN Visit[base]

Scan(roots) == {Inspect(d) : d \in UNION {Walk(base) : base \in roots}}

Filter(all, slug) == {in \in all : Same(in.repository, slug)}

-----------------------------------------------------------------------------
(* A deploy of checkout d, in one step. *)

Slugged(r) == <<r, CHOOSE s \in Spelling : TRUE>>      \* as it was registered

\* Mutant of Swept: git clean -ffd, which takes the repositories in there as well.
Swept_Forced(d) ==
    [e \in Dir |-> IF e = d THEN [place[e] EXCEPT !.stuff = FALSE]
                   ELSE IF e \in Below(d) THEN Nothing ELSE place[e]]

\* git clean -fd: untracked files and directories go, unless a repository is in them.
Swept(d) ==
    LET gone == {e \in Below(d) \ {d} : \A x \in Below(e) : ~ tree[x].is} IN
    [e \in Dir |-> IF e = d THEN [place[e] EXCEPT !.stuff = FALSE]
                   ELSE IF e \in gone THEN Nothing ELSE place[e]]

Pulled(d) == [tree EXCEPT ![d].content = published[tree[d].origin[1]]]

\* The pulled manifest must still be of the origin's repository.
VerifyOrigin(d, content) == Same(OriginSlug(d), content.declares)

\* A setup run prepends the setup block, when there is one.
PipelineSteps(content, setup) == {"post"} \cup IF setup /\ content.setup THEN {"setup"} ELSE {}

\* What has run when a deploy fails: all that there is, where the setup that was asked for is
\* not in the code that was pulled.
Unasked(d, content, setup) ==
    IF setup /\ ~ content.setup /\ Loads(content) /\ VerifyOrigin(d, content)
    THEN SUBSET PipelineSteps(content, setup) ELSE {{}}

\* The pull moves the tree, unless it fails; then the pipeline of the pulled manifest
\* passes, or not.
\* A setup run is refused, before the pull or after it, without a setup block.
Deploys(d, setup, well) ==
    /\ \/ tree' = Pulled(d) /\ place' = Swept(d)
       \/ ~ well /\ UNCHANGED <<tree, place>>
    /\ LET content == tree'[d].content IN
       /\ well => Loads(content) /\ VerifyOrigin(d, content) /\ (setup => content.setup)
       /\ \E steps \in IF well THEN {PipelineSteps(content, setup)} ELSE Unasked(d, content, setup) :
            ran' = [ran EXCEPT ![d] = @ \cup steps]

-----------------------------------------------------------------------------
(* installRepo, up to each call whose answer another can change. *)

At(at) == install.at = at
Goto(at) == install' = [install EXCEPT !.at = at]
Ends(exit) ==
    install' = [(IF exit = "error" THEN NoInstall ELSE [install EXCEPT !.from = None, !.owner = Root])
                EXCEPT !.at = "ended", !.exit = exit]
Touch == touches < MaxTouches /\ touches' = touches + 1
Here == install.dir

\* What somebody else did at d.
Raced(d) == IF Here = None \/ (d \notin Below(Here) /\ d \notin Above[Here]) THEN install
            ELSE [install EXCEPT !.raced = TRUE]

\* registeredRepo has answered.
BeginInstall(r, d) ==
    /\ install.at \in {"idle", "ended"}
    /\ installs < MaxInstalls /\ installs' = installs + 1
    /\ install' = [NoInstall EXCEPT !.at = "inspect", !.repo = Slugged(r), !.dir = d]
    /\ UNCHANGED <<disk, published, touches>>

\* Mutant of OwnerDir: the parent's owner clones into what a control panel made.
OwnerDir_Parent(d) == ParentOf[d]

\* cloneOwnerDir: an empty directory's own owner clones, or the owner of its parent.
OwnerDir(d) == IF Absent(d) THEN ParentOf[d] ELSE d

\* What is not empty needs consent; a symlink is refused.
CloneOwnerDir ==
    /\ At("inspect")
    /\ \/ /\ Absent(Here) \/ (IsDir(Here) /\ Empty(Here))
          /\ install' = [install EXCEPT !.from = OwnerDir(Here), !.at = "owner"]
       \/ /\ place[Here].kind = "file" \/ (IsDir(Here) /\ ~ Empty(Here))
          /\ Goto("confirm")
       \/ place[Here].kind = "link" /\ Ends("error")
    /\ UNCHANGED <<disk, published, installs, touches>>

\* --yes or a yes at the terminal; else it ends here.
ConfirmClear ==
    /\ At("confirm")
    /\ Goto("clear") \/ Ends("error")
    /\ UNCHANGED <<disk, published, installs, touches>>

\* clearDirectoryContents: what is in there by now, the directory itself excepted.
Cleared(gone, own) ==
    /\ place' = [e \in Dir |-> IF \E x \in gone : e \in Below(x) THEN Nothing
                               ELSE IF e = Here /\ own THEN [place[e] EXCEPT !.stuff = FALSE]
                               ELSE place[e]]
    /\ LET bare == UNION {Below(x) : x \in gone} \cup IF own THEN {Here} ELSE {} IN
       /\ tree' = [e \in Dir |-> IF e \in bare THEN NoTree ELSE tree[e]]
       /\ ran' = [e \in Dir |-> IF e \in bare THEN {} ELSE ran[e]]

ClearContents ==
    /\ At("clear")
    /\ IsDir(Here)
    /\ Cleared(Children(Here), TRUE)
    /\ install' = [install EXCEPT !.from = Here, !.at = "owner"]
    /\ UNCHANGED <<published, installs, touches>>

\* Not a directory, or an entry that does not go away.
ClearFails ==
    /\ At("clear")
    /\ \/ ~ IsDir(Here) /\ UNCHANGED <<disk, touches>>
       \/ /\ IsDir(Here) /\ Touch
          /\ \E gone \in SUBSET Children(Here), own \in BOOLEAN : Cleared(gone, own)
    /\ Ends("error")
    /\ UNCHANGED <<published, installs>>

\* From the directory itself, as it is by now.
OwnerOf(d) == IF IsDir(d) THEN place[d].owner ELSE None

\* ownerOf, then the key, the pinned host keys and the agent.
FindOwner ==
    /\ At("owner")
    /\ LET owner == OwnerOf(install.from) IN
       \/ owner = None /\ Ends("error")
       \/ owner # None /\ install' = [install EXCEPT !.owner = owner, !.at = "clone"]
    /\ UNCHANGED <<disk, published, installs, touches>>

PrepareFails ==
    /\ At("owner")
    /\ Touch
    /\ Ends("error")
    /\ UNCHANGED <<disk, published, installs>>

\* git clone, as that owner: into an empty directory or a new one, where it may write.
CanClone ==
    LET u == install.owner IN
    /\ \A x \in Above[Here] \ {Here} : IsDir(x)
    /\ \/ Absent(Here) /\ u \in {Root, place[ParentOf[Here]].owner}
       \/ IsDir(Here) /\ Empty(Here) /\ u \in {Root, place[Here].owner}

Cloned ==
    /\ place' = IF Absent(Here)
                THEN [place EXCEPT ![Here] = [kind |-> "dir", owner |-> install.owner, stuff |-> FALSE]]
                ELSE place
    /\ tree' = [tree EXCEPT ![Here] =
         [is |-> TRUE, origin |-> install.repo, branch |-> TRUE,
          content |-> published[install.repo[1]], owner |-> install.owner]]
    /\ ran' = [ran EXCEPT ![Here] = {}]

Clone ==
    /\ At("clone")
    /\ CanClone /\ Cloned
    /\ Goto("manifest")
    /\ UNCHANGED <<published, installs, touches>>

CloneFails ==
    /\ At("clone")
    /\ IF CanClone THEN Touch ELSE UNCHANGED touches
    /\ Ends("error")
    /\ UNCHANGED <<disk, published, installs>>

\* Without a manifest the clone is all; one that does not load is an error.
LoadManifest ==
    /\ At("manifest")
    /\ \/ ~ Exists(Here) /\ Ends("bare")
       \/ Exists(Here) /\ ~ Loads(tree[Here].content) /\ Ends("error")
       \/ /\ Loads(tree[Here].content)
          /\ install' = [install EXCEPT !.setup = tree[Here].content.setup, !.at = "deploy"]
    /\ UNCHANGED <<disk, published, installs, touches>>

\* runDeploy scans once more, with the destination among the roots.
Roots == Base \cup {Here}
Found == {in \in Filter(Scan(Roots), install.repo) : in.path = Here}

Deployable == \E in \in Found : ~ in.err /\ (install.setup => tree[Here].content.setup)

DeployFirst ==
    /\ At("deploy")
    /\ Deployable
    /\ \/ Deploys(Here, install.setup, TRUE) /\ Ends("ok") /\ UNCHANGED touches
       \/ Deploys(Here, install.setup, FALSE) /\ Ends("error") /\ Touch
    /\ UNCHANGED <<published, installs>>

\* Not found any more, unusable, or what is pulled cannot be run.
DeployRefused ==
    /\ At("deploy")
    /\ \/ ~ Deployable /\ UNCHANGED disk
       \/ /\ Deployable
          /\ LET pulled == Pulled(Here)[Here].content IN
             ~ Loads(pulled) \/ ~ VerifyOrigin(Here, pulled) \/ (install.setup /\ ~ pulled.setup)
          /\ Deploys(Here, install.setup, FALSE)
    /\ Ends("error")
    /\ UNCHANGED <<published, installs, touches>>

\* A kill leaves git running: a clone may yet be completed.
Kill ==
    /\ ~ At("idle") /\ ~ At("ended")
    /\ Touch
    /\ install' = NoInstall
    /\ UNCHANGED disk \/ (At("clone") /\ CanClone /\ Cloned)
    /\ UNCHANGED <<published, installs>>

-----------------------------------------------------------------------------
(* Everybody else. *)

\* A push: each checkout that the scan finds and can use is deployed, with its lock.
Push(r) ==
    /\ Touch
    /\ \E in \in Filter(Scan(Base), Slugged(r)), well \in BOOLEAN :
         /\ ~ in.err
         /\ Deploys(in.path, FALSE, well)
         /\ install' = Raced(in.path)
    /\ UNCHANGED <<published, installs>>

\* A control panel makes a directory or hands one over; a user puts a file into one.
MakeDir(d, u) ==
    /\ Touch
    /\ Absent(d) /\ IsDir(ParentOf[d])
    /\ place' = [place EXCEPT ![d] = [kind |-> "dir", owner |-> u, stuff |-> FALSE]]
    /\ install' = Raced(d)
    /\ UNCHANGED <<tree, ran, published, installs>>

HandOver(d, u) ==
    /\ Touch
    /\ IsDir(d) /\ place[d].owner # u
    /\ place' = [place EXCEPT ![d].owner = u]
    /\ install' = Raced(d)
    /\ UNCHANGED <<tree, ran, published, installs>>

PutFile(d) ==
    /\ Touch
    /\ IsDir(d) /\ ~ place[d].stuff
    /\ place' = [place EXCEPT ![d].stuff = TRUE]
    /\ install' = Raced(d)
    /\ UNCHANGED <<tree, ran, published, installs>>

\* A user moves or loses the origin of a checkout, loses its branch, or copies a manifest into it.
Edits(t) ==
    {[t EXCEPT !.origin = s] : s \in {None} \cup {Slugged(r) : r \in Repo}}
    \cup {[t EXCEPT !.branch = FALSE], [t EXCEPT !.content.files = Name]}
    \cup {[t EXCEPT !.content.declares = s] : s \in {None} \cup {Slugged(r) : r \in Repo}}

Edit(d) ==
    /\ Touch
    /\ tree[d].is
    /\ \E t \in Edits(tree[d]) : tree' = [tree EXCEPT ![d] = t]
    /\ install' = Raced(d)
    /\ UNCHANGED <<place, ran, published, installs>>

Publish(r, content) ==
    /\ Touch
    /\ published' = [published EXCEPT ![r] = content]
    /\ UNCHANGED <<disk, install, installs>>

-----------------------------------------------------------------------------
\* The top directories are there; below them a destination is new, empty, or something else.
Init ==
    /\ place \in [Dir -> [kind : {"absent", "dir", "file", "link"}, owner : User, stuff : {FALSE}]]
    /\ \A d \in Dir : /\ Top(d) => place[d].kind = "dir"
                      /\ ~ IsDir(d) => place[d].owner = Root
                      /\ ~ IsDir(ParentOf[d]) => Absent(d)
    /\ tree = [d \in Dir |-> NoTree]
    /\ ran = [d \in Dir |-> {}]
    /\ published \in [Registered -> Contents]
    /\ install = NoInstall /\ installs = 0 /\ touches = 0

Installing ==
    \/ \E r \in Registered, d \in Dir : ~ Top(d) /\ BeginInstall(r, d)
    \/ CloneOwnerDir \/ ConfirmClear \/ ClearContents \/ ClearFails \/ FindOwner \/ PrepareFails
    \/ Clone \/ CloneFails \/ LoadManifest \/ DeployFirst \/ DeployRefused \/ Kill

Elsewhere ==
    \/ \E r \in Registered : Push(r)
    \/ \E d \in Dir, u \in User : MakeDir(d, u) \/ HandOver(d, u)
    \/ \E d \in Dir : PutFile(d) \/ Edit(d)
    \/ \E r \in Registered, content \in Contents : Publish(r, content)

Next == Installing \/ Elsewhere

Spec == Init /\ [][Next]_vars

-----------------------------------------------------------------------------
Content == [files : SUBSET Name, declares : Slug \cup {None}, setup : BOOLEAN]

TypeOK ==
    /\ place \in [Dir -> [kind : {"absent", "dir", "file", "link"}, owner : User, stuff : BOOLEAN]]
    /\ \A d \in Dir :
         \/ tree[d] = NoTree
         \/ IsDir(d) /\ tree[d] \in [is : {TRUE}, origin : Slug \cup {None}, branch : BOOLEAN,
                                    content : Content, owner : User]
    /\ published \in [Registered -> Contents]
    /\ ran \in [Dir -> SUBSET {"setup", "post"}]
    /\ install.at \in Step /\ install.exit \in {"none", "ok", "bare", "error"}
    /\ installs \in 0 .. MaxInstalls /\ touches \in 0 .. MaxTouches

\* d lies under a root, and nothing on the way hides it: no pruned name, no repository.
Reachable(d) ==
    \E base \in Base \cap Above[d] :
        \A x \in Above[d] \cap Below(base) :
            /\ IsDir(x)
            /\ x # base => x \notin Pruned
            /\ x # d => ~ tree[x].is

\* "An unattributed checkout is dropped from its own push rather than reported": a push
\* reaches every checkout that carries a manifest, broken or not, and that its origin, or
\* failing that its manifest, says is the repository's, in whatever spelling; it reaches
\* no other; and it deploys one only if both agree (Scan, inspect, Filter).
PushReachesItsCheckouts ==
    \A r \in Repo :
        LET found == Filter(Scan(Base), Slugged(r))
            said(d) == IF tree[d].origin # None THEN {tree[d].origin[1]}
                       ELSE IF Loads(tree[d].content) THEN {tree[d].content.declares[1]} ELSE {}
        IN /\ {in.path : in \in found} = {d \in Dir : tree[d].is /\ Exists(d) /\ Reachable(d)
                                                      /\ r \in said(d)}
           /\ \A in \in found : ~ in.err =>
                /\ Cardinality(tree[in.path].content.files) = 1
                /\ tree[in.path].content.declares[1] = r /\ tree[in.path].origin[1] = r

\* "Every file lands correctly owned", and the first install is where setup runs: when
\* repo install ends well on a checkout with a manifest, the pipeline has run in it, with
\* setup if the manifest it cloned has one; and if nobody else touched the place, all of
\* it belongs to the owner of the directory it lies in and a scan finds it fit to deploy.
\* The same sentence of the help has git run "as the owner of the parent directory"; in a
\* directory that is there already it does not, and this would not hold if it did.
InstallKeepsItsWord ==
    install.exit = "ok" =>
        /\ "post" \in ran[Here] /\ (install.setup => "setup" \in ran[Here])
        /\ ~ install.raced => \E in \in Found : ~ in.err /\ ~ in.inconsistent

=============================================================================
