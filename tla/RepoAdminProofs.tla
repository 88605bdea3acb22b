-------------------------- MODULE RepoAdminProofs ---------------------------
(***************************************************************************)
(* Proofs about RepoAdmin, for any set of commands, run beside each other  *)
(* in any number.                                                          *)
(***************************************************************************)
EXTENDS RepoAdmin, TLAPS

\* What c minted is live: the row may name it.
Placed(c) ==
    /\ kind[c] \in {"add", "rotate"} /\ end[c] # "undone"
    /\ step[c] \in {"before", "deleteKey", "list", "ping", "poll", "ended"}

\* c has uploaded its key and not yet written it to the row.
Ahead(c) ==
    /\ kind[c] \in {"add", "rotate"}
    /\ step[c] \in {"createHook", "updateHook", "save", "insert", "update"}

Names(r, c) == c \in {r.secret, r.key, r.hook}

\* The row, and every copy of it, names live credentials only.
NamedArePlaced ==
    \A c \in Command : /\ Names(row, c) => Placed(c)
                       /\ \A d \in Command : Names(mine[d], c) => Placed(c)

\* One key goes with one webhook, wherever the row has been copied to.
KeysAgree ==
    /\ Registered => row.hook = HookOf(row.key)
    /\ \A d \in Command : mine[d] # NoRow => mine[d].hook = HookOf(mine[d].key)

AheadIsThere == \A c \in Command : Ahead(c) /\ listed => c \in keys

\* A rotation deletes its old key only after the row has moved on.
OldKeyIsOut ==
    \A c \in Command : kind[c] = "rotate" /\ step[c] = "deleteKey" => row.key # mine[c].key

\* No webhook signs with what c minted.
Unsigned(c) == \A h \in Command : hooks[h].secret # c

\* c has had no effect on a webhook yet, or has taken it back.
HooksAreClean ==
    \A c \in Command :
        /\ step[c] \in {"idle", "addKey", "createHook"} => Unsigned(c) /\ hooks[c] = NoHook
        /\ kind[c] = "rotate" => hooks[c] = NoHook
        /\ kind[c] = "rotate" /\ step[c] = "updateHook" => Unsigned(c)
        /\ kind[c] = "add" /\ step[c] \in {"save", "insert", "dropHook"}
             => \A h \in Command \ {c} : hooks[h].secret # c
        /\ step[c] = "dropKey" /\ ~ marks[c].lost /\ ~ marks[c].stray
             => Unsigned(c) /\ hooks[c] = NoHook

FilesAreSaved ==
    \A c \in Command : c \in {priv, pub} =>
        /\ kind[c] \in {"add", "rotate"}
        /\ step[c] \notin {"idle", "addKey", "createHook", "updateHook"}
        /\ kind[c] = "rotate" => step[c] # "dropKey" /\ end[c] # "undone"

\* Which steps a command of each kind takes, and when it has ended.
StepsOf(k) ==
    CASE k = "add"    -> {"addKey", "createHook", "save", "insert", "dropHook", "dropKey",
                          "list", "ping", "poll"}
      [] k = "rotate" -> {"addKey", "updateHook", "save", "update", "dropKey", "deleteKey",
                          "list", "ping", "poll"}
      [] k = "remove" -> {"deleteHook", "deleteKey", "removeFiles", "deleteRow"}
      [] k = "check"  -> {"readHook", "updateHook", "list", "ping", "poll"}

StepsInv ==
    \A c \in Command :
        /\ step[c] \in StepsOf(kind[c]) \cup {"idle", "before", "ended"}
        /\ end[c] # "none" <=> step[c] = "ended"

-----------------------------------------------------------------------------
(* The types *)

USE DEF github, files, command, pings, Active, Registered

Steps ==
    {"addKey", "createHook", "updateHook", "save", "insert", "dropHook", "dropKey", "update",
     "deleteHook", "deleteKey", "removeFiles", "deleteRow", "readHook", "list", "ping", "poll"}

Ends == {"refused", "undone", "failed", "done", "killed"}

LEMMA Nulls ==
  /\ NoRow \in Row /\ NoHook \in Hook /\ NoPing \in Ping
  /\ None \notin Command
  /\ NoRow.secret = None /\ NoRow.key = None /\ NoRow.hook = None
  /\ NoHook.secret = None /\ NoHook.aimed = FALSE
BY CommandAssumption DEF NoRow, NoHook, NoPing, Row, Hook, Ping

LEMMA RowNamesCommands ==
  ASSUME NEW r \in Row, r # NoRow
  PROVE  r.secret \in Command /\ r.key \in Command /\ r.hook \in Command
BY DEF Row

Mark == [hit : BOOLEAN, lost : BOOLEAN, stray : BOOLEAN, alone : BOOLEAN]

\* What every way of going on and of failing leaves behind.
LEMMA GoingOn ==
  ASSUME TypeOK, NEW c \in Command
  PROVE  /\ \A s : Goto(c, s) => step' = [step EXCEPT ![c] = s] /\ end' = end /\ fresh' = fresh
         /\ \A e : End(c, e) => /\ step' = [step EXCEPT ![c] = "ended"]
                                /\ end' = [end EXCEPT ![c] = e]
                                /\ fresh' \in Command \cup {None}
  <1>1. fresh \in Command \cup {None}
    BY DEF TypeOK
  <1>2. QED
    BY <1>1 DEF Goto, End

LEMMA StruckTyped ==
  ASSUME marks \in [Command -> Mark], trouble \in 0 .. MaxTrouble,
         NEW c \in Command, NEW mark \in Mark, Struck(c, mark)
  PROVE  marks' \in [Command -> Mark] /\ trouble' \in 0 .. MaxTrouble
BY BoundAssumption DEF Struck

LEMMA HitTyped ==
  ASSUME NEW mark \in Mark
  PROVE  /\ [mark EXCEPT !.hit = TRUE] \in Mark
         /\ [mark EXCEPT !.hit = TRUE, !.lost = TRUE] \in Mark
         /\ [mark EXCEPT !.alone = FALSE] \in Mark
         /\ [mark EXCEPT !.stray = TRUE] \in Mark
BY DEF Mark

\* How a step of c changes the marks.
Marking(c) ==
    \/ Smoothly
    \/ \E mark \in {[marks[c] EXCEPT !.hit = TRUE],
                    [marks[c] EXCEPT !.hit = TRUE, !.lost = TRUE],
                    [marks[c] EXCEPT !.stray = TRUE]} : Struck(c, mark)
    \/ Telling(c) /\ UNCHANGED trouble

LEMMA MarksTyped ==
  ASSUME TypeOK, NEW c \in Command, Marking(c)
  PROVE  marks' \in [Command -> Mark] /\ trouble' \in 0 .. MaxTrouble
  <1>1. marks \in [Command -> Mark] /\ trouble \in 0 .. MaxTrouble /\ marks[c] \in Mark
    BY DEF TypeOK, Mark
  <1>2. CASE Smoothly
    BY <1>1, <1>2 DEF Smoothly
  <1>3. ASSUME NEW mark \in Mark, Struck(c, mark)
        PROVE  marks' \in [Command -> Mark] /\ trouble' \in 0 .. MaxTrouble
    BY <1>1, <1>3, StruckTyped
  <1>4. CASE Telling(c) /\ UNCHANGED trouble
    BY <1>1, <1>4, HitTyped DEF Telling
  <1>5. QED
    BY <1>1, <1>2, <1>3, <1>4, HitTyped DEF Marking

LEMMA CallMarks ==
  ASSUME NEW c, NEW out, NEW there, Answers(c, out, there) \/ AnswersUndo(c, out, there)
  PROVE  Marking(c)
BY DEF Answers, AnswersUndo, Failing, LosingAnswer, Marking

LEMMA WriteMarks ==
  ASSUME NEW c, Smoothly \/ Failing(c)
  PROVE  Marking(c)
BY DEF Failing, Marking

ChecksTyped ==
    /\ drift \in [Command -> BOOLEAN] /\ seen \in [Command -> SUBSET Pinged]
    /\ verdict \in [Command -> {"unknown", "reachable", "failed", "pending"}]
    /\ rests \in [Command -> Pinged \cup {None}]

PingsTyped ==
    /\ ping \in [Pinged -> Ping]
    /\ answer \in [Pinged -> {"none", "unreached", "unknown", "unsigned", "accepted"}]
    /\ record \in Seq(Pinged)

\* A step of c that leaves its copy of the row and what kind it is alone.
LEMMA StepTyped ==
  ASSUME TypeOK, NEW c \in Command, Marking(c), step[c] \notin {"idle", "before", "ended"},
         UNCHANGED <<listed, kind, mine>>,
         ChecksTyped', PingsTyped',
         keys' \subseteq Command, hooks' \in [Command -> Hook],
         {priv', pub'} \subseteq Command \cup {None}, row' \in Row,
         \/ \E s \in Steps : Goto(c, s)
         \/ \E e \in Ends : End(c, e)
  PROVE  TypeOK'
  <1>1. marks' \in [Command -> Mark] /\ trouble' \in 0 .. MaxTrouble
    BY MarksTyped
  <1>2. /\ step \in [Command -> Steps \cup {"idle", "before", "ended"}]
        /\ end \in [Command -> Ends \cup {"none"}]
        /\ fresh \in Command \cup {None}
    BY DEF TypeOK, Steps, Ends
  <1>3. /\ step' \in [Command -> Steps \cup {"idle", "before", "ended"}]
        /\ end' \in [Command -> Ends \cup {"none"}]
        /\ fresh' \in Command \cup {None}
        /\ \A v \in Command : step'[v] = step[v] \/ step'[v] = "ended" \/ v = c
    <2>1. CASE \E s \in Steps : Goto(c, s)
      <3>1. PICK s \in Steps : Goto(c, s)
        BY <2>1
      <3>2. step' = [step EXCEPT ![c] = s] /\ end' = end /\ fresh' = fresh
        BY <3>1 DEF Goto
      <3>3. QED
        BY <1>2, <3>2
    <2>2. CASE \E e \in Ends : End(c, e)
      <3>1. PICK e \in Ends : End(c, e)
        BY <2>2
      <3>2. /\ step' = [step EXCEPT ![c] = "ended"] /\ end' = [end EXCEPT ![c] = e]
            /\ fresh' \in Command \cup {None}
        BY <3>1 DEF End
      <3>3. QED
        BY <1>2, <3>2
    <2>3. QED
      BY <2>1, <2>2
  <1>5. \A v \in Command : Active(v)' => Active(v) \/ v = c
    BY <1>3
  <1>4. \A v \in Command : Active(v)' /\ kind'[v] # "add" => mine'[v] # NoRow
    <2>1. TAKE v \in Command
    <2>2. HAVE Active(v)' /\ kind'[v] # "add"
    <2>3. Active(v) /\ kind[v] # "add"
      BY <1>5, <2>2
    <2>4. QED
      BY <2>3 DEF TypeOK
  <1>6. ChecksTyped' /\ PingsTyped'
    OBVIOUS
  <1>7. QED
    BY <1>1, <1>3, <1>4, <1>6 DEF TypeOK, Mark, Steps, Ends, ChecksTyped, PingsTyped

\* A step that, besides, changes nothing of the checks and the pings.
LEMMA PlainStepTyped ==
  ASSUME TypeOK, NEW c \in Command, Marking(c), step[c] \notin {"idle", "before", "ended"},
         UNCHANGED <<listed, kind, command, pings>>,
         keys' \subseteq Command, hooks' \in [Command -> Hook],
         {priv', pub'} \subseteq Command \cup {None}, row' \in Row,
         \/ \E s \in Steps : Goto(c, s)
         \/ \E e \in Ends : End(c, e)
  PROVE  TypeOK'
  <1>1. ChecksTyped' /\ PingsTyped'
    BY DEF TypeOK, ChecksTyped, PingsTyped
  <1>2. QED
    BY <1>1, StepTyped

LEMMA AddDeployKeyTyped ==
  ASSUME TypeOK, NEW c \in Command, AddDeployKey(c)
  PROVE  TypeOK'
  <1>1. Marking(c)
    BY CallMarks DEF AddDeployKey
  <1>2. keys' \subseteq Command
    BY DEF TypeOK, AddDeployKey
  <1>3. (\E s \in Steps : Goto(c, s)) \/ (\E e \in Ends : End(c, e))
    BY DEF AddDeployKey, Steps, Ends
  <1>4. QED
    BY <1>1, <1>2, <1>3, PlainStepTyped DEF AddDeployKey, TypeOK

\* What webhooks and rows are made of.
LEMMA Making ==
  ASSUME TypeOK, NEW c \in Command
  PROVE  /\ Signing(c) \in Hook
         /\ mine[c] \in Row
         /\ mine[c] # NoRow => /\ mine[c].hook \in Command
                              /\ SecretFor(c) \in Command /\ Signing(SecretFor(c)) \in Hook
         /\ Rotated(c) \in Row \/ mine[c] = NoRow
         /\ [secret |-> c, key |-> c, hook |-> c] \in Row
  <1>1. mine[c] \in Row /\ \A x \in Command : Signing(x) \in Hook
    BY DEF TypeOK, Signing, Hook
  <1>2. [secret |-> c, key |-> c, hook |-> c] \in Row
    BY DEF Row
  <1>3. CASE mine[c] # NoRow
    <2>1. mine[c] \in [secret : Command, key : Command, hook : Command]
      BY <1>1, <1>3 DEF Row
    <2>2. SecretFor(c) \in Command
      BY <2>1 DEF SecretFor
    <2>3. Rotated(c) \in Row
      BY <2>1 DEF Rotated, Row
    <2>4. QED
      BY <1>1, <1>2, <2>1, <2>2, <2>3
  <1>4. QED
    BY <1>1, <1>2, <1>3

\* GitHub pings a webhook it has with what it signs with.
LEMMA SendPingTyped ==
  ASSUME TypeOK, NEW p \in Pinged, NEW h \in Command,
         NEW hook \in [secret : Command, aimed : BOOLEAN], SendPing(p, h, hook)
  PROVE  ping' \in [Pinged -> Ping]
  <1>1. [hook |-> h, secret |-> hook.secret, aimed |-> hook.aimed] \in Ping
    BY DEF Ping
  <1>2. QED
    BY <1>1 DEF SendPing, TypeOK

LEMMA CreateHookTyped ==
  ASSUME TypeOK, NEW c \in Command, CreateHook(c)
  PROVE  TypeOK'
  <1>1. Marking(c)
    BY CallMarks DEF CreateHook
  <1>2. hooks' \in [Command -> Hook]
    BY Making DEF TypeOK, CreateHook
  <1>3. \E s \in Steps : Goto(c, s)
    BY DEF CreateHook, Steps
  <1>4. ping' \in [Pinged -> Ping]
    <2>1. Signing(c) \in [secret : Command, aimed : BOOLEAN] /\ <<c, "created">> \in Pinged
      BY DEF Signing, Pinged
    <2>2. ping' = ping \/ SendPing(<<c, "created">>, c, Signing(c))
      BY DEF CreateHook
    <2>3. QED
      BY <2>1, <2>2, SendPingTyped DEF TypeOK
  <1>5. ChecksTyped' /\ PingsTyped'
    BY <1>4 DEF CreateHook, TypeOK, ChecksTyped, PingsTyped
  <1>6. QED
    BY <1>1, <1>2, <1>3, <1>5, StepTyped DEF CreateHook, TypeOK

LEMMA UpdateHookTyped ==
  ASSUME TypeOK, StepsInv, NEW c \in Command, UpdateHook(c)
  PROVE  TypeOK'
  <1>1. Marking(c)
    BY CallMarks DEF UpdateHook
  <1>2. mine[c] # NoRow
    BY DEF UpdateHook, TypeOK, StepsInv, StepsOf, CommandKind
  <1>3. hooks' \in [Command -> Hook]
    <2>1. hooks' \in {hooks, [hooks EXCEPT ![mine[c].hook] = Signing(SecretFor(c))]}
      BY DEF UpdateHook
    <2>2. QED
      BY <1>2, <2>1, Making DEF TypeOK
  <1>4. (\E s \in Steps : Goto(c, s)) \/ (\E e \in Ends : End(c, e))
    BY DEF UpdateHook, Steps, Ends
  <1>5. QED
    BY <1>1, <1>3, <1>4, PlainStepTyped DEF UpdateHook, TypeOK

LEMMA SaveTyped ==
  ASSUME TypeOK, NEW c \in Command, Save(c)
  PROVE  TypeOK'
  <1>1. Marking(c)
    BY WriteMarks DEF Save
  <1>2. {priv', pub'} \subseteq Command \cup {None}
    BY DEF TypeOK, Save
  <1>3. (\E s \in Steps : Goto(c, s)) \/ (\E e \in Ends : End(c, e))
    BY DEF Save, Steps, Ends
  <1>4. QED
    BY <1>1, <1>2, <1>3, PlainStepTyped DEF Save, TypeOK

LEMMA RepoInsertTyped ==
  ASSUME TypeOK, NEW c \in Command, RepoInsert(c)
  PROVE  TypeOK'
  <1>1. Marking(c)
    BY WriteMarks DEF RepoInsert
  <1>2. {priv', pub'} \subseteq Command \cup {None} /\ row' \in Row
    BY Making DEF TypeOK, RepoInsert
  <1>3. (\E s \in Steps : Goto(c, s)) \/ (\E e \in Ends : End(c, e))
    BY DEF RepoInsert, Steps, Ends
  <1>4. QED
    BY <1>1, <1>2, <1>3, PlainStepTyped DEF RepoInsert, TypeOK

LEMMA DropHookTyped ==
  ASSUME TypeOK, NEW c \in Command, DropHook(c)
  PROVE  TypeOK'
  <1>1. Marking(c)
    BY CallMarks DEF DropHook
  <1>2. hooks' \in [Command -> Hook]
    <2>1. hooks' \in {hooks, [hooks EXCEPT ![c] = NoHook]}
      BY DEF DropHook
    <2>2. QED
      BY <2>1, Nulls DEF TypeOK
  <1>3. \E s \in Steps : Goto(c, s)
    BY DEF DropHook, Steps
  <1>4. QED
    BY <1>1, <1>2, <1>3, PlainStepTyped DEF DropHook, TypeOK

LEMMA DropKeyTyped ==
  ASSUME TypeOK, NEW c \in Command, DropKey(c)
  PROVE  TypeOK'
  <1>1. Marking(c)
    BY CallMarks DEF DropKey
  <1>2. keys' \subseteq Command
    BY DEF TypeOK, DropKey, Left
  <1>3. \E e \in Ends : End(c, e)
    BY DEF DropKey, Ends
  <1>4. QED
    BY <1>1, <1>2, <1>3, PlainStepTyped DEF DropKey, TypeOK

LEMMA RepoUpdateTyped ==
  ASSUME TypeOK, StepsInv, NEW c \in Command, RepoUpdate(c)
  PROVE  TypeOK'
  <1>1. Marking(c)
    BY WriteMarks DEF RepoUpdate
  <1>2. mine[c] # NoRow
    BY DEF RepoUpdate, TypeOK, StepsInv, StepsOf, CommandKind
  <1>3. row' \in Row
    BY <1>2, Making DEF TypeOK, RepoUpdate, Updated
  <1>4. (\E s \in Steps : Goto(c, s)) \/ (\E e \in Ends : End(c, e))
    BY DEF RepoUpdate, Steps, Ends
  <1>5. QED
    BY <1>1, <1>3, <1>4, PlainStepTyped DEF RepoUpdate, TypeOK

LEMMA DeleteHookTyped ==
  ASSUME TypeOK, NEW c \in Command, DeleteHook(c)
  PROVE  TypeOK'
  <1>1. Marking(c)
    BY CallMarks DEF DeleteHook
  <1>2. hooks' \in [Command -> Hook]
    <2>1. hooks' = hooks \/ hooks' = [hooks EXCEPT ![mine[c].hook] = NoHook]
      BY DEF DeleteHook
    <2>2. hooks \in [Command -> Hook] /\ NoHook \in Hook
      BY Nulls DEF TypeOK
    <2>3. QED
      BY <2>1, <2>2
  <1>3. (\E s \in Steps : Goto(c, s)) \/ (\E e \in Ends : End(c, e))
    BY DEF DeleteHook, Steps, Ends
  <1>4. QED
    BY <1>1, <1>2, <1>3, PlainStepTyped DEF DeleteHook, TypeOK

LEMMA DeleteDeployKeyTyped ==
  ASSUME TypeOK, NEW c \in Command, DeleteDeployKey(c)
  PROVE  TypeOK'
  <1>1. Marking(c)
    BY CallMarks DEF DeleteDeployKey
  <1>2. keys' \subseteq Command
    BY DEF TypeOK, DeleteDeployKey
  <1>3. (\E s \in Steps : Goto(c, s)) \/ (\E e \in Ends : End(c, e))
    BY DEF DeleteDeployKey, Steps, Ends
  <1>4. QED
    BY <1>1, <1>2, <1>3, PlainStepTyped DEF DeleteDeployKey, TypeOK

LEMMA RemoveFilesTyped ==
  ASSUME TypeOK, NEW c \in Command, RemoveFiles(c)
  PROVE  TypeOK'
  <1>1. Marking(c)
    BY WriteMarks DEF RemoveFiles
  <1>2. {priv', pub'} \subseteq Command \cup {None}
    BY DEF TypeOK, RemoveFiles
  <1>3. (\E s \in Steps : Goto(c, s)) \/ (\E e \in Ends : End(c, e))
    BY DEF RemoveFiles, Steps, Ends
  <1>4. QED
    BY <1>1, <1>2, <1>3, PlainStepTyped DEF RemoveFiles, TypeOK

LEMMA RepoDeleteTyped ==
  ASSUME TypeOK, NEW c \in Command, RepoDelete(c)
  PROVE  TypeOK'
  <1>1. Marking(c)
    BY WriteMarks DEF RepoDelete
  <1>2. row' \in Row
    BY Nulls DEF TypeOK, RepoDelete
  <1>3. \E e \in Ends : End(c, e)
    BY DEF RepoDelete, Ends
  <1>4. QED
    BY <1>1, <1>2, <1>3, PlainStepTyped DEF RepoDelete, TypeOK

LEMMA KillTyped ==
  ASSUME TypeOK, NEW c \in Command, Kill(c)
  PROVE  TypeOK'
  <1>1. Marking(c)
    BY WriteMarks DEF Kill
  <1>2. \E e \in Ends : End(c, e)
    BY DEF Kill, Ends
  <1>3. QED
    BY <1>1, <1>2, PlainStepTyped DEF Kill, TypeOK

\* Starting to run concerns nothing but the command's own copy, kind, step and mark.
LEMMA BeginTyped ==
  ASSUME TypeOK, NEW c \in Command, NEW k \in CommandKind, NEW s \in Steps, Begin(c, k, s),
         k # "add" => row # NoRow
  PROVE  TypeOK'
  <1>1. marks' \in [Command -> Mark]
    <2>1. marks \in [Command -> Mark]
      BY DEF TypeOK, Mark
    <2>2. \A b \in BOOLEAN : [Unmarked EXCEPT !.alone = b] \in Mark
      BY DEF Unmarked, Mark
    <2>3. (\A u \in Command : ~ Active(u)) \in BOOLEAN
      OBVIOUS
    <2>4. [Unmarked EXCEPT !.alone = \A u \in Command : ~ Active(u)] \in Mark
      BY <2>2, <2>3
    <2>5. \A v \in Command : marks[v] \in Mark /\ [marks[v] EXCEPT !.alone = FALSE] \in Mark
      BY <2>1, HitTyped
    <2>6. QED
      BY <2>4, <2>5 DEF Begin
  <1>2. /\ step' = [step EXCEPT ![c] = s] /\ kind' = [kind EXCEPT ![c] = k]
        /\ mine' = [mine EXCEPT ![c] = row] /\ fresh' = None
    BY DEF Begin
  <1>3. \A v \in Command : Active(v)' /\ kind'[v] # "add" => mine'[v] # NoRow
    <2>1. TAKE v \in Command
    <2>2. HAVE Active(v)' /\ kind'[v] # "add"
    <2>3. CASE v = c
      BY <1>2, <2>2, <2>3 DEF TypeOK
    <2>4. CASE v # c
      <3>1. step'[v] = step[v] /\ kind'[v] = kind[v] /\ mine'[v] = mine[v]
        BY <1>2, <2>4 DEF TypeOK
      <3>2. QED
        BY <2>2, <3>1 DEF TypeOK
    <2>5. QED
      BY <2>3, <2>4
  <1>4. /\ step' \in [Command -> Steps \cup {"idle", "before", "ended"}]
        /\ kind' \in [Command -> CommandKind] /\ mine' \in [Command -> Row]
        /\ fresh' \in Command \cup {None}
    BY <1>2 DEF TypeOK, Steps
  <1>5. QED
    BY <1>1, <1>3, <1>4 DEF Begin, TypeOK, Mark, Steps

LEMMA ReadHookTyped ==
  ASSUME TypeOK, NEW c \in Command, ReadHook(c)
  PROVE  TypeOK'
  <1>1. Marking(c)
    BY CallMarks DEF ReadHook
  <1>2. Drifted(hooks[mine[c].hook]) \in BOOLEAN
    BY DEF Drifted
  <1>3. drift' \in [Command -> BOOLEAN]
    BY <1>2 DEF ReadHook, TypeOK
  <1>4. ChecksTyped' /\ PingsTyped'
    BY <1>3 DEF ReadHook, TypeOK, ChecksTyped, PingsTyped
  <1>5. (\E s \in Steps : Goto(c, s)) \/ (\E e \in Ends : End(c, e))
    BY DEF ReadHook, Steps, Ends
  <1>6. QED
    BY <1>1, <1>4, <1>5, StepTyped DEF ReadHook, TypeOK

\* The end of a check: nothing changes but the verdict and what comes with it.
LEMMA ConcludeTyped ==
  ASSUME TypeOK, NEW c \in Command, Marking(c), step[c] \notin {"idle", "before", "ended"},
         UNCHANGED <<github, files, row, kind>>, PingsTyped',
         NEW v \in {"unknown", "reachable", "failed", "pending"},
         NEW from \in Pinged \cup {None}, Conclude(c, v, from)
  PROVE  TypeOK'
  <1>1. ChecksTyped'
    BY DEF Conclude, TypeOK, ChecksTyped
  <1>2. \E e \in Ends : End(c, e)
    BY DEF Conclude, Ends
  <1>3. mine' = mine
    BY DEF Conclude
  <1>4. QED
    BY <1>1, <1>2, <1>3, StepTyped DEF TypeOK

LEMMA ListDeliveriesTyped ==
  ASSUME TypeOK, NEW c \in Command, ListDeliveries(c)
  PROVE  TypeOK'
  <1>1. Marking(c)
    BY CallMarks DEF ListDeliveries
  <1>2. PingsTyped' /\ UNCHANGED <<github, files, row, kind>> /\ step[c] = "list"
    BY DEF ListDeliveries, TypeOK, PingsTyped
  <1>3. \/ /\ seen' = [seen EXCEPT ![c] = Recorded(HookOf(c))]
           /\ Goto(c, "ping") /\ UNCHANGED <<mine, drift, verdict, rests>>
        \/ Conclude(c, "failed", None)
        \/ Conclude(c, "unknown", None)
    BY DEF ListDeliveries, Outcome
  <1>4. CASE /\ seen' = [seen EXCEPT ![c] = Recorded(HookOf(c))]
             /\ Goto(c, "ping") /\ UNCHANGED <<mine, drift, verdict, rests>>
    <2>1. Recorded(HookOf(c)) \in SUBSET Pinged
      BY DEF Recorded
    <2>2. ChecksTyped'
      BY <1>4, <2>1 DEF TypeOK, ChecksTyped
    <2>3. QED
      BY <1>1, <1>2, <1>4, <2>2, StepTyped DEF TypeOK, Steps
  <1>5. CASE Conclude(c, "failed", None) \/ Conclude(c, "unknown", None)
    BY <1>1, <1>2, <1>5, ConcludeTyped
  <1>6. QED
    BY <1>3, <1>4, <1>5

LEMMA PingHookTyped ==
  ASSUME TypeOK, NEW c \in Command, HookOf(c) \in Command, PingHook(c)
  PROVE  TypeOK'
  <1>1. Marking(c)
    BY CallMarks DEF PingHook
  <1>2. PingsTyped'
    <2>1. hooks[HookOf(c)] # NoHook =>
            hooks[HookOf(c)] \in [secret : Command, aimed : BOOLEAN]
      BY DEF TypeOK, Hook
    <2>2. \/ ping' = ping
          \/ /\ hooks[HookOf(c)] # NoHook
             /\ SendPing(<<c, "asked">>, HookOf(c), hooks[HookOf(c)])
      BY DEF PingHook, Answers, Done
    <2>3. ping' \in [Pinged -> Ping]
      BY <2>1, <2>2, SendPingTyped DEF TypeOK, Pinged
    <2>4. QED
      BY <2>3 DEF PingHook, TypeOK, PingsTyped
  <1>3. UNCHANGED <<github, files, row, kind>> /\ step[c] = "ping"
    BY DEF PingHook
  <1>4. \/ Goto(c, "poll") /\ UNCHANGED command
        \/ Conclude(c, "failed", None)
        \/ Conclude(c, "unknown", None)
    BY DEF PingHook, Outcome
  <1>5. CASE Goto(c, "poll") /\ UNCHANGED command
    <2>1. ChecksTyped'
      BY <1>5 DEF TypeOK, ChecksTyped
    <2>2. QED
      BY <1>1, <1>2, <1>3, <1>5, <2>1, StepTyped DEF TypeOK, Steps
  <1>6. CASE Conclude(c, "failed", None) \/ Conclude(c, "unknown", None)
    BY <1>1, <1>2, <1>3, <1>6, ConcludeTyped
  <1>7. QED
    BY <1>4, <1>5, <1>6

LEMMA PollTyped ==
  ASSUME TypeOK, NEW c \in Command, FindPing(c) \/ GiveUpPolling(c)
  PROVE  TypeOK'
  <1>1. /\ Marking(c) /\ PingsTyped' /\ UNCHANGED <<github, files, row, kind>>
        /\ step[c] = "poll"
    BY WriteMarks DEF FindPing, GiveUpPolling, TypeOK, PingsTyped
  <1>2. \E v \in {"unknown", "reachable", "failed", "pending"},
           from \in Pinged \cup {None} : Conclude(c, v, from)
    <2>1. CASE FindPing(c)
      <3>1. PICK i \in DOMAIN record :
              Conclude(c, IF answer[record[i]] = "accepted" THEN "reachable" ELSE "failed",
                       record[i])
        BY <2>1 DEF FindPing
      <3>2. record[i] \in Pinged
        BY DEF TypeOK
      <3>3. QED
        BY <3>1, <3>2
    <2>2. CASE GiveUpPolling(c)
      BY <2>2 DEF GiveUpPolling
    <2>3. QED
      BY <2>1, <2>2
  <1>3. QED
    BY <1>1, <1>2, ConcludeTyped

\* What GitHub does with a ping of c on its own.
Handles(c) == Deliver(c) \/ RecordPing(c)

\* It concerns the pings and the marks only.
LEMMA DeliverTyped ==
  ASSUME TypeOK, NEW c \in Command, Deliver(c)
  PROVE  TypeOK'
  <1>1. PICK p \in {c} \X {"created", "asked"} :
          \/ Smoothly /\ answer' = [answer EXCEPT ![p] = Answer(ping[p])]
          \/ Failing(c) /\ answer' = [answer EXCEPT ![p] = "unreached"]
    BY DEF Deliver
  <1>2. p \in Pinged
    BY DEF Pinged
  <1>3. marks' \in [Command -> Mark] /\ trouble' \in 0 .. MaxTrouble
    BY <1>1, WriteMarks, MarksTyped
  <1>4. Answer(ping[p]) \in {"unreached", "unknown", "unsigned", "accepted"}
    BY DEF Answer
  <1>5. answer' \in [Pinged -> {"none", "unreached", "unknown", "unsigned", "accepted"}]
    BY <1>1, <1>2, <1>4 DEF TypeOK
  <1>6. QED
    BY <1>3, <1>5 DEF Deliver, TypeOK, Mark

LEMMA RecordPingTyped ==
  ASSUME TypeOK, NEW c \in Command, RecordPing(c)
  PROVE  TypeOK'
  <1>1. PICK p \in {c} \X {"created", "asked"} : record' = Append(record, p)
    BY DEF RecordPing
  <1>2. record' \in Seq(Pinged)
    BY <1>1 DEF TypeOK, Pinged
  <1>3. QED
    BY <1>2 DEF RecordPing, Smoothly, TypeOK

LEMMA MeddleTyped ==
  ASSUME TypeOK, Misdirect \/ DeleteByHand
  PROVE  TypeOK'
  <1>1. Meddle
    BY DEF Misdirect, DeleteByHand
  <1>2. marks' \in [Command -> Mark] /\ trouble' \in 0 .. MaxTrouble
    <2>1. marks \in [Command -> Mark]
      BY DEF TypeOK, Mark
    <2>2. \A v \in Command : marks[v] \in Mark /\ [marks[v] EXCEPT !.alone = FALSE] \in Mark
      BY <2>1, HitTyped
    <2>3. QED
      BY <1>1, <2>2, BoundAssumption DEF Meddle, TypeOK
  <1>3. /\ keys' \subseteq Command /\ hooks' \in [Command -> Hook] /\ listed' \in BOOLEAN
    <2>1. CASE Misdirect
      <3>1. PICK h \in Command : hooks[h].aimed /\ hooks' = [hooks EXCEPT ![h].aimed = FALSE]
        BY <2>1 DEF Misdirect
      <3>2. [hooks[h] EXCEPT !.aimed = FALSE] \in Hook
        <4>1. hooks[h] # NoHook /\ hooks[h] \in Hook
          BY <3>1, Nulls DEF TypeOK
        <4>2. hooks[h] \in [secret : Command, aimed : BOOLEAN]
          BY <4>1 DEF Hook
        <4>3. [hooks[h] EXCEPT !.aimed = FALSE] \in [secret : Command, aimed : BOOLEAN]
          BY <4>2
        <4>4. QED
          BY <4>3 DEF Hook
      <3>3. hooks' = [hooks EXCEPT ![h] = [hooks[h] EXCEPT !.aimed = FALSE]]
        BY <3>1
      <3>4. QED
        BY <2>1, <3>2, <3>3 DEF Misdirect, TypeOK
    <2>2. CASE DeleteByHand
      <3>1. \/ /\ \E h \in Command : hooks' = [hooks EXCEPT ![h] = NoHook]
               /\ keys' = keys /\ listed' = listed
            \/ listed' = FALSE /\ keys' = {} /\ hooks' = [h \in Command |-> NoHook]
        BY <2>2 DEF DeleteByHand
      <3>2. hooks \in [Command -> Hook] /\ NoHook \in Hook
        BY Nulls DEF TypeOK
      <3>3. hooks' \in [Command -> Hook]
        BY <3>1, <3>2
      <3>4. QED
        BY <3>1, <3>3 DEF TypeOK
    <2>3. QED
      BY <2>1, <2>2
  <1>4. QED
    BY <1>1, <1>2, <1>3 DEF Meddle, Misdirect, DeleteByHand, TypeOK, Mark

\* What a command that runs does, one of its actions.
Runs(c) ==
    \/ AddDeployKey(c) \/ CreateHook(c) \/ UpdateHook(c) \/ Save(c) \/ RepoInsert(c)
    \/ DropHook(c) \/ DropKey(c) \/ RepoUpdate(c)
    \/ DeleteHook(c) \/ DeleteDeployKey(c) \/ RemoveFiles(c) \/ RepoDelete(c)
    \/ ReadHook(c) \/ ListDeliveries(c) \/ PingHook(c) \/ FindPing(c) \/ GiveUpPolling(c)
    \/ Kill(c)

Begins(c) == BeginAdd(c) \/ BeginRotate(c) \/ BeginRemove(c) \/ BeginCheck(c)

\* Where a command of each kind starts.
First(k) ==
    CASE k \in {"add", "rotate"} -> "addKey"
      [] k = "remove" -> "deleteHook"
      [] k = "check"  -> "readHook"

LEMMA Beginning ==
  ASSUME NEW c, Begins(c)
  PROVE  \E k \in CommandKind : Begin(c, k, First(k)) /\ (k = "add" <=> row = NoRow)
BY DEF Begins, BeginAdd, BeginRotate, BeginRemove, BeginCheck, HasRow, First, CommandKind

LEMMA FirstSteps ==
  ASSUME NEW k \in CommandKind
  PROVE  First(k) \in StepsOf(k) /\ First(k) \in Steps
BY DEF First, StepsOf, Steps, CommandKind

\* Every step but a start and a delivery takes a running command to another of the steps of
\* its kind, or ends it.
LEMMA Advancing ==
  ASSUME TypeOK, StepsInv, NEW c \in Command, Runs(c)
  PROVE  /\ step[c] \notin {"idle", "before", "ended"} /\ kind' = kind /\ mine' = mine
         /\ \/ \E s \in StepsOf(kind[c]) : Goto(c, s)
            \/ \E e \in Ends : End(c, e)
  <1>1. step[c] \in StepsOf(kind[c]) \cup {"idle", "before", "ended"} /\ kind[c] \in CommandKind
    BY DEF StepsInv, TypeOK
  <1>2. CASE AddDeployKey(c)
    BY <1>1, <1>2 DEF AddDeployKey, StepsOf, Ends, CommandKind
  <1>3. CASE CreateHook(c)
    BY <1>1, <1>3 DEF CreateHook, StepsOf, Ends, CommandKind
  <1>4. CASE UpdateHook(c)
    BY <1>1, <1>4 DEF UpdateHook, StepsOf, Ends, CommandKind
  <1>5. CASE Save(c)
    BY <1>1, <1>5 DEF Save, StepsOf, Ends, CommandKind
  <1>6. CASE RepoInsert(c)
    BY <1>1, <1>6 DEF RepoInsert, StepsOf, Ends, CommandKind
  <1>7. CASE DropHook(c)
    BY <1>1, <1>7 DEF DropHook, StepsOf, Ends, CommandKind
  <1>8. CASE DropKey(c) \/ DeleteHook(c) \/ RemoveFiles(c) \/ RepoDelete(c) \/ Kill(c)
    BY <1>1, <1>8 DEF DropKey, DeleteHook, RemoveFiles, RepoDelete, Kill, StepsOf, Ends, CommandKind
  <1>9. CASE RepoUpdate(c)
    BY <1>1, <1>9 DEF RepoUpdate, StepsOf, Ends, CommandKind
  <1>10. CASE DeleteDeployKey(c)
    BY <1>1, <1>10 DEF DeleteDeployKey, StepsOf, Ends, CommandKind
  <1>11. CASE ReadHook(c)
    BY <1>1, <1>11 DEF ReadHook, StepsOf, Ends, CommandKind
  <1>12. CASE ListDeliveries(c)
    BY <1>1, <1>12 DEF ListDeliveries, Outcome, Conclude, StepsOf, Ends, CommandKind
  <1>13. CASE PingHook(c)
    BY <1>1, <1>13 DEF PingHook, Outcome, Conclude, StepsOf, Ends, CommandKind
  <1>14. CASE FindPing(c) \/ GiveUpPolling(c)
    BY <1>1, <1>14 DEF FindPing, GiveUpPolling, Conclude, StepsOf, Ends, CommandKind
  <1>15. QED
    BY <1>2, <1>3, <1>4, <1>5, <1>6, <1>7, <1>8, <1>9, <1>10, <1>11, <1>12, <1>13, <1>14
       DEF Runs

LEMMA StepCases ==
  ASSUME Next
  PROVE  \/ \E c \in Command : Begins(c) \/ Runs(c) \/ Handles(c)
         \/ Misdirect \/ DeleteByHand
BY DEF Next, Step, Begins, Runs, Handles

LEMMA StepsKept ==
  ASSUME TypeOK, StepsInv, Next
  PROVE  StepsInv'
  <1>1. ASSUME NEW c \in Command, Begins(c)
        PROVE  StepsInv'
    <2>1. PICK k \in CommandKind : Begin(c, k, First(k))
      BY <1>1, Beginning
    <2>2. /\ step' = [step EXCEPT ![c] = First(k)] /\ kind' = [kind EXCEPT ![c] = k]
          /\ end' = end /\ step[c] = "idle"
      BY <2>1 DEF Begin
    <2>3. First(k) \in StepsOf(k) /\ First(k) # "ended"
      BY FirstSteps DEF Steps
    <2>4. QED
      BY <2>2, <2>3 DEF StepsInv, TypeOK
  <1>2. ASSUME NEW c \in Command, Runs(c)
        PROVE  StepsInv'
    <2>1. step[c] \notin {"idle", "before", "ended"} /\ kind' = kind
      BY <1>2, Advancing
    <2>2. CASE \E s \in StepsOf(kind[c]) : Goto(c, s)
      <3>1. PICK s \in StepsOf(kind[c]) : Goto(c, s)
        BY <2>2
      <3>2. step' = [step EXCEPT ![c] = s] /\ end' = end
        BY <3>1 DEF Goto
      <3>3. s # "ended" /\ end[c] = "none"
        BY <2>1 DEF StepsInv, StepsOf, TypeOK, CommandKind
      <3>4. QED
        BY <2>1, <3>2, <3>3 DEF StepsInv, TypeOK
    <2>3. CASE \E e \in Ends : End(c, e)
      <3>1. PICK e \in Ends : End(c, e)
        BY <2>3
      <3>2. step' = [step EXCEPT ![c] = "ended"] /\ end' = [end EXCEPT ![c] = e] /\ e # "none"
        BY <3>1 DEF End, Ends
      <3>3. QED
        BY <2>1, <3>2 DEF StepsInv, TypeOK
    <2>4. QED
      BY <1>2, <2>2, <2>3, Advancing
  <1>3. ASSUME UNCHANGED <<step, kind, end>>
        PROVE  StepsInv'
    BY <1>3 DEF StepsInv
  <1>4. QED
    BY <1>1, <1>2, <1>3, StepCases DEF Handles, Deliver, RecordPing, Misdirect, DeleteByHand, Meddle

\* The repository is registered by first, or, None, by nobody.
Before(first) ==
    /\ keys = {first} \ {None} /\ priv = first /\ pub = first
    /\ hooks = [c \in Command |-> IF c = first THEN Signing(c) ELSE NoHook]
    /\ row = [secret |-> first, key |-> first, hook |-> first]
    /\ step = [c \in Command |-> IF c = first THEN "before" ELSE "idle"]

LEMMA Starting ==
  ASSUME Init
  PROVE  \E first \in Command \cup {None} : Before(first)
BY DEF Init, Before

LEMMA Initially ==
  ASSUME Init
  PROVE  TypeOK /\ StepsInv
  <1>1. PICK first \in Command \cup {None} : Before(first)
    BY Starting
  <1>2. row \in Row
    BY <1>1, Nulls DEF Before, Row, NoRow
  <1>3. hooks \in [Command -> Hook]
    <2>1. \A c \in Command : Signing(c) \in Hook
      BY DEF Signing, Hook
    <2>2. QED
      BY <1>1, <2>1, Nulls DEF Before
  <1>4. /\ keys \subseteq Command /\ {priv, pub, fresh} \subseteq Command \cup {None}
        /\ listed \in BOOLEAN /\ trouble \in 0 .. MaxTrouble
    BY <1>1, BoundAssumption DEF Before, Init
  <1>5. marks \in [Command -> Mark]
    BY DEF Init, Unmarked, Mark
  <1>6. /\ step \in [Command -> {"idle", "before"}] /\ kind = [c \in Command |-> "add"]
        /\ end = [c \in Command |-> "none"]
    BY <1>1 DEF Before, Init
  <1>7. ChecksTyped /\ PingsTyped /\ mine \in [Command -> Row]
    BY Nulls DEF Init, ChecksTyped, PingsTyped
  <1>8. TypeOK
    BY <1>2, <1>3, <1>4, <1>5, <1>6, <1>7 DEF TypeOK, Mark, CommandKind, ChecksTyped, PingsTyped
  <1>9. StepsInv
    BY <1>6 DEF StepsInv
  <1>10. QED
    BY <1>8, <1>9

LEMMA TypesKept ==
  ASSUME TypeOK, StepsInv, Next
  PROVE  TypeOK'
  <1>1. ASSUME NEW c \in Command, Begins(c)
        PROVE  TypeOK'
    <2>1. PICK k \in CommandKind : Begin(c, k, First(k)) /\ (k = "add" <=> row = NoRow)
      BY <1>1, Beginning
    <2>2. QED
      BY <2>1, FirstSteps, BeginTyped
  <1>2. ASSUME NEW c \in Command, Runs(c)
        PROVE  TypeOK'
    <2>1. step[c] \notin {"idle", "before", "ended"}
      BY <1>2, Advancing
    <2>2. HookOf(c) \in Command
      <3>1. CASE kind[c] = "add"
        BY <3>1 DEF HookOf
      <3>2. CASE kind[c] # "add"
        BY <2>1, <3>2, Making DEF HookOf, TypeOK
      <3>3. QED
        BY <3>1, <3>2
    <2>3. QED
      BY <1>2, <2>2, AddDeployKeyTyped, CreateHookTyped, UpdateHookTyped, SaveTyped,
         RepoInsertTyped, DropHookTyped, DropKeyTyped, RepoUpdateTyped, DeleteHookTyped,
         DeleteDeployKeyTyped, RemoveFilesTyped, RepoDeleteTyped, ReadHookTyped,
         ListDeliveriesTyped, PingHookTyped, PollTyped, KillTyped DEF Runs
  <1>3. QED
    BY <1>1, <1>2, DeliverTyped, RecordPingTyped, MeddleTyped, StepCases DEF Handles

\* Every variable keeps its type, and every running command but `repo add` has a row to
\* work from.
THEOREM TypeCorrect == Spec => []TypeOK
  <1>1. Init => TypeOK /\ StepsInv
    BY Initially
  <1>2. TypeOK /\ StepsInv /\ [Next]_vars => (TypeOK /\ StepsInv)'
    <2>1. SUFFICES ASSUME TypeOK, StepsInv, [Next]_vars
                   PROVE  (TypeOK /\ StepsInv)'
      OBVIOUS
    <2>2. CASE Next
      BY <2>1, <2>2, TypesKept, StepsKept
    <2>3. CASE UNCHANGED vars
      BY <2>1, <2>3 DEF vars, TypeOK, StepsInv
    <2>4. QED
      BY <2>1, <2>2, <2>3
  <1>3. QED
    BY <1>1, <1>2, PTL DEF Spec

-----------------------------------------------------------------------------
(* What a step can change *)

\* Only the command that moves changes its step, its kind and its end.
LEMMA OthersStay ==
  ASSUME TypeOK, StepsInv, NEW b \in Command, Begins(b) \/ Runs(b),
         NEW c \in Command, c # b
  PROVE  step'[c] = step[c] /\ kind'[c] = kind[c] /\ end'[c] = end[c] /\ mine'[c] = mine[c]
  <1>1. CASE Begins(b)
    <2>1. PICK k \in CommandKind : Begin(b, k, First(k))
      BY <1>1, Beginning
    <2>2. /\ step' = [step EXCEPT ![b] = First(k)] /\ kind' = [kind EXCEPT ![b] = k]
          /\ mine' = [mine EXCEPT ![b] = row] /\ end' = end
      BY <2>1 DEF Begin
    <2>3. QED
      BY <2>2 DEF TypeOK
  <1>2. CASE Runs(b)
    BY <1>2, Advancing DEF Goto, End, TypeOK
  <1>3. QED
    BY <1>1, <1>2

LEMMA OthersArePlaced ==
  ASSUME TypeOK, StepsInv, NEW b \in Command, Begins(b) \/ Runs(b),
         NEW c \in Command, c # b
  PROVE  (Placed(c)' <=> Placed(c)) /\ (Ahead(c)' <=> Ahead(c))
BY OthersStay DEF Placed, Ahead

MarkGrows(c) ==
    /\ marks[c].lost => marks'[c].lost
    /\ marks[c].stray => marks'[c].stray
    /\ marks[c].hit => marks'[c].hit

LEMMA MarkingGrows ==
  ASSUME TypeOK, NEW b \in Command, Marking(b), NEW c \in Command
  PROVE  MarkGrows(c)
  <1>1. marks \in [Command -> Mark] /\ marks[b] \in Mark
    BY DEF TypeOK, Mark
  <1>2. CASE Smoothly
    BY <1>2 DEF Smoothly, MarkGrows
  <1>3. CASE Struck(b, [marks[b] EXCEPT !.hit = TRUE])
    BY <1>1, <1>3 DEF Struck, Mark, MarkGrows
  <1>4. CASE Struck(b, [marks[b] EXCEPT !.hit = TRUE, !.lost = TRUE])
    BY <1>1, <1>4 DEF Struck, Mark, MarkGrows
  <1>5. CASE Struck(b, [marks[b] EXCEPT !.stray = TRUE]) \/ Telling(b)
    BY <1>1, <1>5 DEF Struck, Telling, Mark, MarkGrows
  <1>6. QED
    BY <1>2, <1>3, <1>4, <1>5 DEF Marking

LEMMA RunsMark ==
  ASSUME NEW b \in Command, Runs(b) \/ Handles(b)
  PROVE  Marking(b)
BY CallMarks, WriteMarks DEF Runs, AddDeployKey, CreateHook, UpdateHook, Save, RepoInsert, DropHook,
   DropKey, RepoUpdate, DeleteHook, DeleteDeployKey, RemoveFiles, RepoDelete, ReadHook,
   ListDeliveries, PingHook, FindPing, GiveUpPolling, Kill, Handles, Deliver, RecordPing

\* A mark that is set stays, once a command has started.
LEMMA MarksGrow ==
  ASSUME TypeOK, Next, NEW c \in Command, step[c] # "idle"
  PROVE  MarkGrows(c)
  <1>1. ASSUME NEW b \in Command, Begins(b)
        PROVE  MarkGrows(c)
    <2>1. PICK k \in CommandKind : Begin(b, k, First(k))
      BY <1>1, Beginning
    <2>2. marks'[c] \in {marks[c], [marks[c] EXCEPT !.alone = FALSE]}
      BY <2>1 DEF Begin
    <2>3. QED
      BY <2>2 DEF TypeOK, MarkGrows
  <1>2. ASSUME NEW b \in Command, Runs(b) \/ Handles(b)
        PROVE  MarkGrows(c)
    BY <1>2, RunsMark, MarkingGrows
  <1>3. CASE Misdirect \/ DeleteByHand
    <2>1. marks'[c] \in {marks[c], [marks[c] EXCEPT !.alone = FALSE]}
      BY <1>3 DEF Misdirect, DeleteByHand, Meddle
    <2>2. QED
      BY <2>1 DEF TypeOK, MarkGrows
  <1>4. QED
    BY <1>1, <1>2, <1>3, StepCases

\* How a running command changes a webhook: it creates its own, rewrites one that is there,
\* or deletes one.
LEMMA HookChange ==
  ASSUME TypeOK, StepsInv, NEW b \in Command, Runs(b), NEW h \in Command
  PROVE  \/ hooks'[h] \in {hooks[h], NoHook}
         \/ h = b /\ hooks'[h] = Signing(b) /\ step[b] = "createHook" /\ kind[b] = "add"
         \/ /\ hooks[h] # NoHook /\ hooks'[h] = Signing(SecretFor(b))
            /\ step[b] = "updateHook"
  <1>1. hooks \in [Command -> Hook]
    BY DEF TypeOK
  <1>2. CASE CreateHook(b)
    <2>1. hooks' = hooks \/ hooks' = [hooks EXCEPT ![b] = Signing(b)]
      BY <1>2 DEF CreateHook
    <2>2. step[b] = "createHook" /\ kind[b] = "add"
      BY <1>2 DEF CreateHook, StepsInv, StepsOf, TypeOK, CommandKind
    <2>3. QED
      BY <1>1, <2>1, <2>2
  <1>3. CASE UpdateHook(b)
    <2>1. \/ hooks' = hooks
          \/ /\ hooks[mine[b].hook] # NoHook
             /\ hooks' = [hooks EXCEPT ![mine[b].hook] = Signing(SecretFor(b))]
      BY <1>3 DEF UpdateHook, Answers, Done
    <2>2. QED
      BY <1>1, <1>3, <2>1 DEF UpdateHook
  <1>4. CASE DropHook(b)
    <2>1. hooks' = hooks \/ hooks' = [hooks EXCEPT ![b] = NoHook]
      BY <1>4 DEF DropHook
    <2>2. QED
      BY <1>1, <2>1
  <1>5. CASE DeleteHook(b)
    <2>1. hooks' = hooks \/ hooks' = [hooks EXCEPT ![mine[b].hook] = NoHook]
      BY <1>5 DEF DeleteHook
    <2>2. QED
      BY <1>1, <2>1
  <1>6. CASE UNCHANGED hooks
    BY <1>6
  <1>7. QED
    BY <1>2, <1>3, <1>4, <1>5, <1>6 DEF Runs, AddDeployKey, Save, RepoInsert,
       DropKey, RepoUpdate, DeleteDeployKey, RemoveFiles, RepoDelete, ReadHook,
       ListDeliveries, PingHook, FindPing, GiveUpPolling, Kill

\* A webhook comes to sign with what c minted only where c has it signed, or where c is live.
LEMMA SecretKept ==
  ASSUME TypeOK, StepsInv, NamedArePlaced, NEW b \in Command, Runs(b),
         NEW c \in Command, ~ Placed(c), c # b \/ step[b] \notin {"createHook", "updateHook"},
         NEW h \in Command, hooks'[h].secret = c
  PROVE  hooks[h].secret = c
  <1>1. CASE hooks'[h] \in {hooks[h], NoHook}
    BY <1>1, Nulls
  <1>2. CASE h = b /\ hooks'[h] = Signing(b) /\ step[b] = "createHook"
    BY <1>2 DEF Signing
  <1>3. CASE hooks'[h] = Signing(SecretFor(b)) /\ step[b] = "updateHook"
    <2>1. SecretFor(b) = c
      BY <1>3 DEF Signing
    <2>2. mine[b].secret = c
      BY <1>3, <2>1 DEF SecretFor
    <2>3. QED
      BY <2>2 DEF NamedArePlaced, Names
  <1>4. QED
    BY <1>1, <1>2, <1>3, HookChange

-----------------------------------------------------------------------------
(* The row names live credentials, and GitHub holds its key *)

\* What is live stays live: nothing undoes a command that has written the row.
LEMMA PlacedStays ==
  ASSUME TypeOK, StepsInv, Next, NEW c \in Command, Placed(c)
  PROVE  Placed(c)'
  <1>1. ASSUME NEW b \in Command, Begins(b)
        PROVE  Placed(c)'
    <2>1. step[b] = "idle"
      BY <1>1 DEF Begins, BeginAdd, BeginRotate, BeginRemove, BeginCheck, Begin
    <2>2. c # b
      BY <2>1 DEF Placed
    <2>3. QED
      BY <1>1, <2>2, OthersArePlaced
  <1>2. ASSUME NEW b \in Command, Runs(b), c # b
        PROVE  Placed(c)'
    BY <1>2, OthersArePlaced
  <1>3. CASE Runs(c)
    <2>1. /\ step[c] \in {"deleteKey", "list", "ping", "poll"} /\ kind'[c] = kind[c]
          /\ kind[c] \in {"add", "rotate"} /\ (step[c] = "deleteKey" => kind[c] = "rotate")
      BY <1>3, Advancing DEF Placed, StepsInv, StepsOf
    <2>2. \/ \E s \in {"list", "ping", "poll"} : Goto(c, s)
          \/ \E e \in Ends \ {"undone"} : End(c, e)
      BY <1>3, <2>1 DEF Runs, AddDeployKey, CreateHook, UpdateHook, Save, RepoInsert, DropHook,
         DropKey, RepoUpdate, DeleteHook, DeleteDeployKey, RemoveFiles, RepoDelete, ReadHook,
         ListDeliveries, PingHook, FindPing, GiveUpPolling, Kill, Conclude, Outcome, Ends
    <2>3. \/ step'[c] \in {"list", "ping", "poll"} /\ end'[c] = end[c]
          \/ step'[c] = "ended" /\ end'[c] # "undone"
      BY <2>2 DEF Goto, End, TypeOK, Ends
    <2>4. QED
      BY <2>1, <2>3 DEF Placed
  <1>4. CASE UNCHANGED <<step, kind, end>>
    BY <1>4 DEF Placed
  <1>5. QED
    BY <1>1, <1>2, <1>3, <1>4, StepCases DEF Handles, Deliver, RecordPing, Misdirect, DeleteByHand, Meddle

\* How a running command changes the row: it writes its own name into it, or empties it.
LEMMA RowChange ==
  ASSUME TypeOK, StepsInv, NEW b \in Command, Runs(b)
  PROVE  \/ row' = row
         \/ row' = NoRow
         \/ /\ row' # NoRow /\ Ahead(b) /\ Placed(b)' /\ row'.key = b /\ row'.hook = HookOf(b)
            /\ \A c \in Command : Names(row', c) => c = b \/ Names(mine[b], c)
  <1>1. CASE RepoInsert(b)
    <2>1. CASE row' = row
      BY <2>1
    <2>2. CASE row' = [secret |-> b, key |-> b, hook |-> b] /\ row' # row
      <3>1. kind[b] = "add" /\ step[b] = "insert" /\ kind' = kind
        BY <1>1 DEF RepoInsert, StepsInv, StepsOf, TypeOK, CommandKind
      <3>2. row' # NoRow
        BY <2>2, Nulls DEF NoRow
      <3>3. step'[b] \in {"list", "ended"} /\ end'[b] # "undone"
        <4>1. Goto(b, "list") \/ End(b, "done")
          BY <1>1, <2>2, <3>2 DEF RepoInsert
        <4>2. end[b] = "none"
          BY <3>1 DEF StepsInv
        <4>3. QED
          BY <4>1, <4>2 DEF Goto, End, TypeOK
      <3>4. QED
        BY <2>2, <3>1, <3>2, <3>3 DEF Ahead, Placed, Names, HookOf
    <2>3. QED
      BY <1>1, <2>1, <2>2 DEF RepoInsert
  <1>2. CASE RepoUpdate(b)
    <2>1. CASE row' = row
      BY <2>1
    <2>2. CASE row' # row
      <3>1. row' = Rotated(b) /\ Goto(b, "deleteKey") /\ kind' = kind
        BY <1>2, <2>2 DEF RepoUpdate, Updated
      <3>2. kind[b] = "rotate" /\ step[b] = "update"
        BY <1>2 DEF RepoUpdate, StepsInv, StepsOf, TypeOK, CommandKind
      <3>3. step'[b] = "deleteKey" /\ end'[b] = end[b] /\ end[b] = "none"
        BY <3>1, <3>2 DEF Goto, StepsInv, TypeOK
      <3>4. mine[b] \in [secret : Command, key : Command, hook : Command]
        BY <3>2 DEF TypeOK, Row
      <3>5. Rotated(b).secret = b /\ Rotated(b).key = b /\ Rotated(b).hook = mine[b].hook
        BY <3>4 DEF Rotated
      <3>6. row' # NoRow
        BY <3>1, <3>5, Nulls
      <3>7. QED
        BY <3>1, <3>2, <3>3, <3>5, <3>6 DEF Ahead, Placed, Names, HookOf
    <2>3. QED
      BY <2>1, <2>2
  <1>3. CASE RepoDelete(b)
    BY <1>3 DEF RepoDelete
  <1>4. CASE UNCHANGED row
    BY <1>4
  <1>5. QED
    BY <1>1, <1>2, <1>3, <1>4 DEF Runs, AddDeployKey, CreateHook, UpdateHook, Save, DropHook,
       DropKey, DeleteHook, DeleteDeployKey, RemoveFiles, ReadHook,
       ListDeliveries, PingHook, FindPing, GiveUpPolling, Kill, Conclude

LEMMA NamedKept ==
  ASSUME TypeOK, StepsInv, NamedArePlaced, Next
  PROVE  NamedArePlaced'
  <1>1. SUFFICES ASSUME NEW c \in Command
                 PROVE  /\ Names(row', c) => Names(row, c) \/ (\E d \in Command : Names(mine[d], c)) \/ Placed(c)'
                        /\ \A d \in Command : Names(mine'[d], c) => Names(mine[d], c) \/ Names(row, c)
    BY PlacedStays DEF NamedArePlaced
  <1>2. ASSUME NEW b \in Command, Begins(b)
        PROVE  /\ row' = row
               /\ \A d \in Command : mine'[d] \in {mine[d], row}
    <2>1. PICK k \in CommandKind : Begin(b, k, First(k))
      BY <1>2, Beginning
    <2>2. mine' = [mine EXCEPT ![b] = row] /\ row' = row
      BY <2>1 DEF Begin
    <2>3. QED
      BY <2>2 DEF TypeOK
  <1>3. ASSUME NEW b \in Command, Runs(b)
        PROVE  /\ Names(row', c) => \/ Names(row, c) \/ Placed(c)'
                                    \/ \E d \in Command : Names(mine[d], c)
               /\ mine' = mine
    <2>1. mine' = mine
      BY <1>3, Advancing
    <2>2. ~ Names(NoRow, c)
      BY Nulls DEF Names
    <2>3. QED
      BY <1>3, <2>1, <2>2, RowChange
  <1>4. CASE UNCHANGED <<row, mine>>
    BY <1>4
  <1>5. QED
    BY <1>2, <1>3, <1>4, StepCases DEF Handles, Deliver, RecordPing, Misdirect, DeleteByHand, Meddle

LEMMA AgreementKept ==
  ASSUME TypeOK, StepsInv, NamedArePlaced, KeysAgree, Next
  PROVE  KeysAgree'
  <1>1. ASSUME NEW r \in {row} \cup {mine[d] : d \in Command}, r # NoRow
        PROVE  r.key \in Command /\ Placed(r.key) /\ r.hook = HookOf(r.key)
    <2>1. r.key \in Command
      BY <1>1 DEF TypeOK, Row
    <2>2. QED
      BY <1>1, <2>1 DEF NamedArePlaced, Names, KeysAgree, Registered
  <1>2. ASSUME NEW b \in Command, Begins(b)
        PROVE  KeysAgree'
    <2>1. PICK k \in CommandKind : Begin(b, k, First(k))
      BY <1>2, Beginning
    <2>2. mine' = [mine EXCEPT ![b] = row] /\ row' = row /\ step[b] = "idle"
      BY <2>1 DEF Begin
    <2>3. \A c \in Command : Placed(c) => HookOf(c)' = HookOf(c)
      BY <1>2, <2>2, OthersStay DEF Placed, HookOf
    <2>4. \A d \in Command : mine'[d] \in {row, mine[d]}
      BY <2>2 DEF TypeOK
    <2>5. QED
      BY <1>1, <2>2, <2>3, <2>4 DEF KeysAgree, Registered
  <1>3. ASSUME NEW b \in Command, Runs(b)
        PROVE  KeysAgree'
    <2>1. kind' = kind /\ mine' = mine
      BY <1>3, Advancing
    <2>2. \A c : HookOf(c)' = HookOf(c)
      BY <2>1 DEF HookOf
    <2>3. row' # NoRow => row' = row \/ (row'.key = b /\ row'.hook = HookOf(b))
      BY <1>3, RowChange
    <2>4. QED
      BY <2>1, <2>2, <2>3 DEF KeysAgree, Registered
  <1>4. CASE UNCHANGED <<kind, mine, row>>
    BY <1>4 DEF KeysAgree, HookOf, Registered
  <1>5. QED
    BY <1>2, <1>3, <1>4, StepCases DEF Handles, Deliver, RecordPing, Misdirect, DeleteByHand, Meddle

\* How a running command changes the deploy keys: it adds its own, drops it, or deletes the one
\* its copy of the row names.
LEMMA KeyChange ==
  ASSUME TypeOK, StepsInv, NEW b \in Command, Runs(b)
  PROVE  \/ keys' = keys
         \/ keys' = keys \cup {b}
         \/ keys' = keys \ {b} /\ step[b] = "dropKey"
         \/ /\ keys' = keys \ {mine[b].key} /\ step[b] = "deleteKey"
            /\ \/ kind[b] = "rotate"
               \/ kind[b] = "remove" /\ step'[b] \in {"removeFiles", "ended"}
  <1>1. CASE DeleteDeployKey(b)
    <2>1. kind[b] \in {"rotate", "remove"} /\ step[b] = "deleteKey"
      BY <1>1 DEF DeleteDeployKey, StepsInv, StepsOf, TypeOK, CommandKind
    <2>2. kind[b] = "remove" => step'[b] \in {"removeFiles", "ended"}
      BY <1>1 DEF DeleteDeployKey, Goto, End, TypeOK
    <2>3. QED
      BY <1>1, <2>1, <2>2 DEF DeleteDeployKey
  <1>2. CASE UNCHANGED keys
    BY <1>2
  <1>3. QED
    BY <1>1, <1>2 DEF Runs, AddDeployKey, CreateHook, UpdateHook, Save, RepoInsert, DropHook,
       DropKey, Left, RepoUpdate, DeleteHook, RemoveFiles, RepoDelete, ReadHook,
       ListDeliveries, PingHook, FindPing, GiveUpPolling, Kill

\* A command is ahead only with its key uploaded.
LEMMA ComingAhead ==
  ASSUME TypeOK, StepsInv, NEW c \in Command, Runs(c), Ahead(c)'
  PROVE  Ahead(c) \/ c \in keys'
  <1>1. CASE AddDeployKey(c)
    BY <1>1 DEF AddDeployKey, Done, End, Ahead, TypeOK
  <1>2. CASE ~ AddDeployKey(c) /\ ~ Ahead(c)
    <2>1. kind'[c] = kind[c] /\ kind[c] \in {"add", "rotate"}
      BY Advancing DEF Ahead
    <2>2. /\ step[c] \in {"addKey", "dropHook", "dropKey", "deleteKey", "list", "ping", "poll"}
          /\ step[c] = "deleteKey" => kind[c] = "rotate"
      BY <1>2, <2>1, Advancing DEF StepsInv, StepsOf, Ahead
    <2>3. (\E s \in {"dropKey", "list", "ping", "poll"} : Goto(c, s)) \/ (\E e \in Ends : End(c, e))
      BY <1>2, <2>2 DEF Runs, CreateHook, UpdateHook, Save, RepoInsert, DropHook,
         DropKey, RepoUpdate, DeleteHook, DeleteDeployKey, RemoveFiles, RepoDelete, ReadHook,
         ListDeliveries, PingHook, FindPing, GiveUpPolling, Kill, Conclude, Outcome, Ends
    <2>4. step'[c] \in {"dropKey", "list", "ping", "poll", "ended"}
      BY <2>3 DEF Goto, End, TypeOK
    <2>5. QED
      BY <2>4 DEF Ahead
  <1>3. QED
    BY <1>1, <1>2

LEMMA AheadKept ==
  ASSUME TypeOK, StepsInv, NamedArePlaced, AheadIsThere, Next
  PROVE  AheadIsThere'
  <1>1. SUFFICES ASSUME NEW c \in Command, Ahead(c)', listed'
                 PROVE  c \in keys'
    BY DEF AheadIsThere
  <1>2. ASSUME NEW b \in Command, Begins(b)
        PROVE  c \in keys'
    <2>1. PICK k \in CommandKind : Begin(b, k, First(k))
      BY <1>2, Beginning
    <2>2. keys' = keys /\ listed' = listed /\ step'[b] = First(k)
      BY <2>1 DEF Begin, TypeOK
    <2>3. c # b
      BY <1>1, <2>2 DEF Ahead, First, CommandKind
    <2>4. Ahead(c)
      BY <1>1, <1>2, <2>3, OthersArePlaced
    <2>5. QED
      BY <1>1, <2>2, <2>4 DEF AheadIsThere
  <1>3. ASSUME NEW b \in Command, Runs(b)
        PROVE  c \in keys'
    <2>1. listed' = listed
      BY <1>3 DEF Runs, AddDeployKey, CreateHook, UpdateHook, Save, RepoInsert, DropHook,
         DropKey, RepoUpdate, DeleteHook, DeleteDeployKey, RemoveFiles, RepoDelete, ReadHook,
         ListDeliveries, PingHook, FindPing, GiveUpPolling, Kill
    <2>2. Ahead(c) \/ c \in keys'
      BY <1>1, <1>3, ComingAhead, OthersArePlaced
    <2>3. CASE Ahead(c) /\ c \in keys
      <3>1. CASE keys' = keys \ {b} /\ step[b] = "dropKey"
        BY <2>3, <3>1 DEF Ahead
      <3>2. CASE keys' = keys \ {mine[b].key}
        BY <2>3, <3>2 DEF NamedArePlaced, Names, Placed, Ahead
      <3>3. QED
        BY <1>3, <2>3, <3>1, <3>2, KeyChange
    <2>4. QED
      BY <1>1, <2>1, <2>2, <2>3 DEF AheadIsThere
  <1>4. CASE UNCHANGED <<step, kind>> /\ (UNCHANGED <<keys, listed>> \/ listed' = FALSE)
    BY <1>1, <1>4 DEF AheadIsThere, Ahead
  <1>5. QED
    BY <1>2, <1>3, <1>4, StepCases DEF Handles, Deliver, RecordPing, Misdirect, DeleteByHand, Meddle

LEMMA OldKeyKept ==
  ASSUME TypeOK, StepsInv, NamedArePlaced, KeysAgree, OldKeyIsOut, Next
  PROVE  OldKeyIsOut'
  <1>1. SUFFICES ASSUME NEW c \in Command, kind'[c] = "rotate", step'[c] = "deleteKey"
                 PROVE  row'.key # mine'[c].key
    BY DEF OldKeyIsOut
  <1>2. ASSUME NEW b \in Command, Begins(b)
        PROVE  row'.key # mine'[c].key
    <2>1. PICK k \in CommandKind : Begin(b, k, First(k))
      BY <1>2, Beginning
    <2>2. row' = row /\ step'[b] = First(k)
      BY <2>1 DEF Begin, TypeOK
    <2>3. c # b
      BY <1>1, <2>2 DEF First, CommandKind
    <2>4. QED
      BY <1>1, <1>2, <2>2, <2>3, OthersStay DEF OldKeyIsOut
  <1>3. ASSUME NEW b \in Command, Runs(b)
        PROVE  row'.key # mine'[c].key
    <2>1. mine' = mine /\ kind' = kind
      BY <1>3, Advancing
    <2>2. step[c] = "deleteKey" \/ (c = b /\ step[c] = "update")
      <3>1. CASE c = b
        <4>1. step[b] \in StepsOf("rotate")
          BY <1>1, <1>3, <2>1, <3>1, Advancing DEF StepsInv
        <4>2. Goto(b, "deleteKey")
          BY <1>1, <1>3, <3>1, Advancing DEF Goto, End, TypeOK
        <4>3. QED
          BY <1>1, <1>3, <3>1, <4>1, <4>2 DEF StepsOf, Runs, AddDeployKey, CreateHook, UpdateHook, Save,
             RepoInsert, DropHook, DropKey, RepoUpdate, DeleteHook, DeleteDeployKey, RemoveFiles,
             RepoDelete, ReadHook, ListDeliveries, PingHook, FindPing, GiveUpPolling, Kill,
             Conclude, Outcome, Goto, End, TypeOK
      <3>2. QED
        BY <1>1, <1>3, <3>1, OthersStay
    <2>3. mine[c].key \in Command
      BY <1>1, <2>1, <2>2 DEF TypeOK, Row
    <2>4. CASE row' = NoRow
      BY <2>1, <2>3, <2>4, Nulls
    <2>5. CASE row'.key = b /\ Ahead(b)
      <3>1. ~ Placed(b)
        BY <2>5 DEF Ahead, Placed
      <3>2. QED
        BY <2>1, <2>5, <3>1 DEF NamedArePlaced, Names
    <2>6. CASE row' = row /\ row # NoRow
      <3>1. CASE step[c] = "deleteKey"
        BY <1>1, <2>1, <2>6, <3>1 DEF OldKeyIsOut
      <3>2. CASE c = b /\ step[c] = "update"
        <4>1. RepoUpdate(c) /\ Goto(c, "deleteKey")
          BY <1>1, <1>3, <3>2 DEF Runs, AddDeployKey, CreateHook, UpdateHook, Save,
             RepoInsert, DropHook, DropKey, RepoUpdate, DeleteHook, DeleteDeployKey, RemoveFiles,
             RepoDelete, ReadHook, ListDeliveries, PingHook, FindPing, GiveUpPolling, Kill,
             Conclude, Goto, End, TypeOK
        <4>2. CASE row' = Rotated(c)
          <5>1. row'.key = c
            BY <4>2, <2>1, <1>1, <3>2 DEF Rotated, TypeOK, Row
          <5>2. ~ Placed(c)
            BY <3>2 DEF Placed
          <5>3. QED
            BY <2>1, <5>1, <5>2 DEF NamedArePlaced, Names
        <4>3. CASE row.hook # mine[c].hook
          <5>1. mine[c] # NoRow
            BY <1>1, <2>1, <3>2 DEF TypeOK, Active
          <5>2. QED
            BY <2>1, <2>6, <4>3, <5>1 DEF KeysAgree, Registered
        <4>4. row' = Rotated(c) \/ row.hook # mine[c].hook
          BY <2>6, <4>1 DEF RepoUpdate, Updated, Registered, Goto, End, TypeOK
        <4>5. QED
          BY <4>2, <4>3, <4>4
      <3>3. QED
        BY <2>2, <3>1, <3>2
    <2>7. QED
      BY <1>3, <2>4, <2>5, <2>6, RowChange
  <1>4. CASE UNCHANGED <<step, kind, mine, row>>
    BY <1>1, <1>4 DEF OldKeyIsOut
  <1>5. QED
    BY <1>2, <1>3, <1>4, StepCases DEF Handles, Deliver, RecordPing, Misdirect, DeleteByHand, Meddle

LEMMA RowKeyKept ==
  ASSUME TypeOK, StepsInv, NamedArePlaced, AheadIsThere, OldKeyIsOut, RowKeyIsThere, Next
  PROVE  RowKeyIsThere'
  <1>1. SUFFICES ASSUME row' # NoRow, listed'
                 PROVE  \/ row'.key \in keys'
                        \/ \E c \in Command :
                             /\ kind'[c] = "remove" /\ mine'[c].key = row'.key
                             /\ step'[c] \in {"deleteKey", "removeFiles", "deleteRow", "ended"}
    BY DEF RowKeyIsThere
  <1> DEFINE Taken(c) == /\ kind[c] = "remove" /\ mine[c].key = row.key
                         /\ step[c] \in {"deleteKey", "removeFiles", "deleteRow", "ended"}
  <1>2. ASSUME NEW b \in Command, Begins(b)
        PROVE  \/ row'.key \in keys'
               \/ \E c \in Command : Taken(c)'
    <2>1. PICK k \in CommandKind : Begin(b, k, First(k))
      BY <1>2, Beginning
    <2>2. row' = row /\ keys' = keys /\ listed' = listed /\ step[b] = "idle"
      BY <2>1 DEF Begin
    <2>3. row.key \in keys \/ \E c \in Command \ {b} : Taken(c)
      BY <1>1, <2>2 DEF RowKeyIsThere
    <2>4. QED
      BY <1>2, <2>2, <2>3, OthersStay
  <1>3. ASSUME NEW b \in Command, Runs(b)
        PROVE  \/ row'.key \in keys'
               \/ \E c \in Command : Taken(c)'
    <2>1. mine' = mine /\ kind' = kind
      BY <1>3, Advancing
    <2>2. listed' = listed
      BY <1>3 DEF Runs, AddDeployKey, CreateHook, UpdateHook, Save, RepoInsert, DropHook,
         DropKey, RepoUpdate, DeleteHook, DeleteDeployKey, RemoveFiles, RepoDelete, ReadHook,
         ListDeliveries, PingHook, FindPing, GiveUpPolling, Kill
    <2>3. CASE row' = row
      <3>1. CASE row.key \in keys
        <4>1. CASE keys' = keys \ {b} /\ step[b] = "dropKey"
          BY <2>3, <3>1, <4>1 DEF NamedArePlaced, Names, Placed
        <4>2. CASE keys' = keys \ {mine[b].key} /\ step[b] = "deleteKey" /\ kind[b] = "rotate"
          BY <2>3, <3>1, <4>2 DEF OldKeyIsOut
        <4>3. CASE /\ keys' = keys \ {mine[b].key} /\ kind[b] = "remove"
                   /\ step'[b] \in {"removeFiles", "ended"}
          BY <2>1, <2>3, <3>1, <4>3
        <4>4. QED
          BY <1>3, <2>3, <3>1, <4>1, <4>2, <4>3, KeyChange
      <3>2. ASSUME NEW c \in Command, Taken(c)
            PROVE  Taken(c)'
        <4>1. CASE c = b
          <5>1. \/ \E s \in {"removeFiles", "deleteRow"} : Goto(b, s)
                \/ \E e \in Ends : End(b, e)
            BY <1>3, <3>2, <4>1 DEF Runs, AddDeployKey, CreateHook, UpdateHook, Save,
               RepoInsert, DropHook, DropKey, RepoUpdate, DeleteHook, DeleteDeployKey, RemoveFiles,
               RepoDelete, ReadHook, ListDeliveries, PingHook, FindPing, GiveUpPolling, Kill, Ends
          <5>2. step'[b] \in {"removeFiles", "deleteRow", "ended"}
            BY <5>1 DEF Goto, End, TypeOK
          <5>3. QED
            BY <2>1, <2>3, <3>2, <4>1, <5>2
        <4>2. QED
          BY <1>3, <2>3, <3>2, <4>1, OthersStay
      <3>3. QED
        BY <1>1, <2>2, <2>3, <3>1, <3>2 DEF RowKeyIsThere
    <2>4. CASE row' # NoRow /\ Ahead(b) /\ Placed(b)' /\ row'.key = b
      <3>1. b \in keys
        BY <1>1, <2>2, <2>4 DEF AheadIsThere
      <3>2. keys' = keys \/ keys' = keys \cup {b}
        BY <1>3, <2>4, KeyChange DEF Ahead
      <3>3. QED
        BY <2>4, <3>1, <3>2
    <2>5. QED
      BY <1>1, <1>3, <2>3, <2>4, RowChange
  <1>4. CASE UNCHANGED <<step, kind, mine, row>> /\ (UNCHANGED <<keys, listed>> \/ listed' = FALSE)
    BY <1>1, <1>4 DEF RowKeyIsThere
  <1>5. QED
    BY <1>1, <1>2, <1>3, <1>4, StepCases DEF Handles, Deliver, RecordPing, Misdirect, DeleteByHand, Meddle

\* What keeps the key of the row at GitHub: nothing deletes what a command still has to write
\* to the row, and nothing but a removal what the row names already.
Kept == /\ TypeOK /\ StepsInv /\ NamedArePlaced /\ KeysAgree
        /\ AheadIsThere /\ OldKeyIsOut /\ RowKeyIsThere

LEMMA KeptInitially ==
  ASSUME Init
  PROVE  Kept
  <1>1. TypeOK /\ StepsInv
    BY Initially
  <1> PICK first \in Command \cup {None} : Before(first)
    BY Starting
  <1>2. NamedArePlaced
    <2>1. \A c \in Command : Names(row, c) => Placed(c)
      BY Nulls DEF Init, Before, Names, Placed
    <2>2. \A c, d \in Command : ~ Names(mine[d], c)
      BY Nulls DEF Init, Names
    <2>3. QED
      BY <2>1, <2>2 DEF NamedArePlaced
  <1>3. AheadIsThere /\ OldKeyIsOut
    BY DEF Before, AheadIsThere, Ahead, OldKeyIsOut
  <1>6. KeysAgree
    BY DEF Init, Before, KeysAgree, HookOf, NoRow, Registered
  <1>5. RowKeyIsThere
    BY Nulls DEF Before, RowKeyIsThere, NoRow
  <1>4. QED
    BY <1>1, <1>2, <1>3, <1>5, <1>6 DEF Kept

LEMMA KeptStays ==
  ASSUME Kept, [Next]_vars
  PROVE  Kept'
  <1>1. CASE Next
    BY <1>1, TypesKept, StepsKept, NamedKept, AgreementKept, AheadKept, OldKeyKept,
       RowKeyKept DEF Kept
  <1>2. CASE UNCHANGED vars
    <2>1. TypeOK' /\ StepsInv'
      BY <1>2 DEF Kept, vars, TypeOK, StepsInv
    <2>2. NamedArePlaced' /\ KeysAgree' /\ AheadIsThere' /\ OldKeyIsOut' /\ RowKeyIsThere'
      BY <1>2 DEF Kept, vars, NamedArePlaced, Placed, KeysAgree, HookOf, AheadIsThere, Ahead,
         OldKeyIsOut, RowKeyIsThere, Registered
    <2>3. QED
      BY <2>1, <2>2 DEF Kept
  <1>3. QED
    BY <1>1, <1>2

\* However registrations, rotations, checks and removals overlap, fail and are killed, GitHub
\* holds the deploy key the row names, unless a removal has taken it.
THEOREM RowKeyStays == Spec => []RowKeyIsThere
  <1>1. Init => Kept
    BY KeptInitially
  <1>2. Kept /\ [Next]_vars => Kept'
    BY KeptStays
  <1>3. Kept => RowKeyIsThere
    BY DEF Kept
  <1>4. QED
    BY <1>1, <1>2, <1>3, PTL DEF Spec

-----------------------------------------------------------------------------
(* What is undone is gone *)

\* A webhook that is not there stays away, unless its own command creates it.
LEMMA NoHookStays ==
  ASSUME TypeOK, StepsInv, Next, NEW c \in Command, hooks[c] = NoHook,
         ~ (step[c] = "createHook" /\ kind[c] = "add")
  PROVE  hooks'[c] = NoHook
  <1>1. ASSUME NEW b \in Command, Runs(b)
        PROVE  hooks'[c] = NoHook
    BY <1>1, HookChange
  <1>2. ASSUME NEW b \in Command, Begins(b)
        PROVE  hooks' = hooks
    <2>1. PICK k \in CommandKind : Begin(b, k, First(k))
      BY <1>2, Beginning
    <2>2. QED
      BY <2>1 DEF Begin
  <1>3. CASE Misdirect
    <2>1. PICK h \in Command : hooks[h].aimed /\ hooks' = [hooks EXCEPT ![h].aimed = FALSE]
      BY <1>3 DEF Misdirect
    <2>2. h # c
      BY <2>1, Nulls
    <2>3. QED
      BY <2>1, <2>2 DEF TypeOK
  <1>4. CASE DeleteByHand
    BY <1>4 DEF DeleteByHand, TypeOK
  <1>5. QED
    BY <1>1, <1>2, <1>3, <1>4, StepCases DEF Handles, Deliver, RecordPing

\* No webhook comes to sign with what c minted but by a step of c, or once c is live.
LEMMA UnsignedStays ==
  ASSUME TypeOK, StepsInv, NamedArePlaced, Next, NEW c \in Command, ~ Placed(c),
         step[c] \in {"createHook", "updateHook"} => ~ Runs(c),
         NEW h \in Command, hooks[h].secret # c
  PROVE  hooks'[h].secret # c
  <1>1. ASSUME NEW b \in Command, Runs(b)
        PROVE  hooks'[h].secret # c
    BY <1>1, SecretKept
  <1>2. ASSUME NEW b \in Command, Begins(b)
        PROVE  hooks' = hooks
    <2>1. PICK k \in CommandKind : Begin(b, k, First(k))
      BY <1>2, Beginning
    <2>2. QED
      BY <2>1 DEF Begin
  <1>3. CASE Misdirect
    <2>1. PICK g \in Command : hooks[g].aimed /\ hooks' = [hooks EXCEPT ![g].aimed = FALSE]
      BY <1>3 DEF Misdirect
    <2>2. hooks[g] \in [secret : Command, aimed : BOOLEAN]
      BY <2>1, Nulls DEF TypeOK, Hook
    <2>3. hooks' = [hooks EXCEPT ![g] = [hooks[g] EXCEPT !.aimed = FALSE]]
      BY <2>1
    <2>4. hooks'[h].secret = hooks[h].secret
      BY <2>2, <2>3 DEF TypeOK
    <2>5. QED
      BY <2>4
  <1>4. CASE DeleteByHand
    <2>1. hooks'[h] \in {hooks[h], NoHook}
      BY <1>4 DEF DeleteByHand, TypeOK
    <2>2. QED
      BY <2>1, Nulls
  <1>5. QED
    BY <1>1, <1>2, <1>3, <1>4, StepCases DEF Handles, Deliver, RecordPing

\* Only its own command saves a key pair in the files.
LEMMA FileChange ==
  ASSUME TypeOK, StepsInv, Next, NEW c \in Command, c \in {priv', pub'}
  PROVE  c \in {priv, pub} \/ Save(c)
  <1>1. ASSUME NEW b \in Command, Begins(b)
        PROVE  UNCHANGED files
    <2>1. PICK k \in CommandKind : Begin(b, k, First(k))
      BY <1>1, Beginning
    <2>2. QED
      BY <2>1 DEF Begin
  <1>2. ASSUME NEW b \in Command, Runs(b)
        PROVE  {priv', pub'} \subseteq {priv, pub, None} \/ (Save(b) /\ {priv', pub'} \subseteq {priv, pub, None, b})
    BY <1>2 DEF Runs, AddDeployKey, CreateHook, UpdateHook, Save, RepoInsert, DropHook,
       DropKey, RepoUpdate, DeleteHook, DeleteDeployKey, RemoveFiles, RepoDelete, ReadHook,
       ListDeliveries, PingHook, FindPing, GiveUpPolling, Kill
  <1>3. QED
    BY <1>1, <1>2, Nulls, StepCases DEF Handles, Deliver, RecordPing, Misdirect, DeleteByHand, Meddle

\* Where a running command comes from.
LEMMA Coming ==
  ASSUME TypeOK, StepsInv, NEW c \in Command, Runs(c)
  PROVE  /\ step'[c] \notin {"idle", "addKey"}
         /\ step'[c] = "createHook" => AddDeployKey(c)
         /\ step'[c] = "updateHook" => AddDeployKey(c) \/ ReadHook(c)
         /\ step'[c] = "save" => CreateHook(c) \/ UpdateHook(c)
         /\ step'[c] = "insert" => Save(c)
         /\ step'[c] = "dropHook" => Save(c) \/ RepoInsert(c)
         /\ step'[c] = "dropKey" => CreateHook(c) \/ UpdateHook(c) \/ DropHook(c)
         /\ end'[c] = "undone" => DropKey(c)
  <1>1. step[c] \notin {"idle", "before", "ended"} /\ end[c] = "none"
    BY Advancing DEF StepsInv
  <1>2. CASE AddDeployKey(c) \/ CreateHook(c) \/ UpdateHook(c) \/ Save(c) \/ RepoInsert(c)
    <2>1. CASE AddDeployKey(c)
      <3>1. Goto(c, "createHook") \/ Goto(c, "updateHook") \/ End(c, "refused")
        BY <2>1 DEF AddDeployKey
      <3>2. step'[c] \in {"createHook", "updateHook", "ended"} /\ end'[c] \in {"none", "refused"}
        BY <1>1, <3>1 DEF Goto, End, TypeOK
      <3>3. QED
        BY <2>1, <3>2
    <2>2. CASE CreateHook(c)
      BY <1>1, <2>2 DEF CreateHook, Goto, End, TypeOK
    <2>3. CASE UpdateHook(c)
      BY <1>1, <2>3 DEF UpdateHook, Goto, End, TypeOK
    <2>4. CASE Save(c)
      BY <1>1, <2>4 DEF Save, Goto, End, TypeOK
    <2>5. CASE RepoInsert(c)
      <3>1. step' = [step EXCEPT ![c] = "list"] \/ step' = [step EXCEPT ![c] = "ended"]
            \/ step' = [step EXCEPT ![c] = "dropHook"]
        BY <2>5 DEF RepoInsert, Goto, End
      <3>2. end' = end \/ end' = [end EXCEPT ![c] = "done"]
        BY <2>5 DEF RepoInsert, Goto, End
      <3>3. QED
        BY <1>1, <2>5, <3>1, <3>2 DEF TypeOK
    <2>6. QED
      BY <1>2, <2>1, <2>2, <2>3, <2>4, <2>5
  <1>3. CASE DropHook(c) \/ DropKey(c) \/ RepoUpdate(c) \/ DeleteHook(c) \/ DeleteDeployKey(c)
    BY <1>1, <1>3 DEF DropHook, DropKey, RepoUpdate, DeleteHook, DeleteDeployKey, Goto, End, TypeOK
  <1>4. CASE RemoveFiles(c) \/ RepoDelete(c) \/ ReadHook(c) \/ Kill(c)
    BY <1>1, <1>4 DEF RemoveFiles, RepoDelete, ReadHook, Kill, Goto, End, TypeOK
  <1>5. CASE ListDeliveries(c) \/ PingHook(c) \/ FindPing(c) \/ GiveUpPolling(c)
    <2>1. Goto(c, "ping") \/ Goto(c, "poll") \/ End(c, "done")
      BY <1>5 DEF ListDeliveries, PingHook, FindPing, GiveUpPolling, Conclude, Outcome
    <2>2. step'[c] \in {"ping", "poll", "ended"} /\ end'[c] \in {"none", "done"}
      BY <1>1, <2>1 DEF Goto, End, TypeOK
    <2>3. QED
      BY <2>2
  <1>6. QED
    BY <1>2, <1>3, <1>4, <1>5 DEF Runs

LEMMA FilesKept ==
  ASSUME TypeOK, StepsInv, FilesAreSaved, Next
  PROVE  FilesAreSaved'
  <1>1. SUFFICES ASSUME NEW c \in Command, c \in {priv', pub'}
                 PROVE  /\ kind'[c] \in {"add", "rotate"}
                        /\ step'[c] \notin {"idle", "addKey", "createHook", "updateHook"}
                        /\ kind'[c] = "rotate" => step'[c] # "dropKey" /\ end'[c] # "undone"
    BY DEF FilesAreSaved
  <1>2. CASE Save(c)
    <2>1. kind[c] \in {"add", "rotate"} /\ end[c] = "none"
      BY <1>2 DEF Save, StepsInv, StepsOf, TypeOK, CommandKind
    <2>2. /\ step'[c] \in {"insert", "update", "dropHook", "ended"} /\ end'[c] \in {"none", "failed"}
          /\ kind' = kind
      BY <1>2, <2>1 DEF Save, Goto, End, TypeOK
    <2>3. QED
      BY <2>1, <2>2
  <1>3. CASE c \in {priv, pub}
    <2>1. /\ kind[c] \in {"add", "rotate"}
          /\ step[c] \notin {"idle", "addKey", "createHook", "updateHook"}
          /\ kind[c] = "rotate" => step[c] # "dropKey" /\ end[c] # "undone"
      BY <1>3 DEF FilesAreSaved
    <2>2. ASSUME NEW b \in Command, Begins(b) \/ Runs(b), b # c
          PROVE  step'[c] = step[c] /\ kind'[c] = kind[c] /\ end'[c] = end[c]
      BY <2>2, OthersStay
    <2>3. ~ Begins(c)
      BY <2>1 DEF Begins, BeginAdd, BeginRotate, BeginRemove, BeginCheck, Begin
    <2>4. CASE Runs(c)
      <3>1. kind' = kind /\ step[c] \in StepsOf(kind[c])
        BY <2>4, Advancing DEF StepsInv
      <3>2. ~ AddDeployKey(c) /\ ~ CreateHook(c) /\ ~ UpdateHook(c) /\ ~ ReadHook(c)
        BY <2>1, <3>1 DEF AddDeployKey, CreateHook, UpdateHook, ReadHook, StepsOf
      <3>3. kind[c] = "rotate" => ~ DropHook(c) /\ ~ DropKey(c)
        BY <2>1, <3>1 DEF DropHook, DropKey, StepsOf
      <3>4. QED
        BY <2>1, <2>4, <3>1, <3>2, <3>3, Coming
    <2>5. CASE UNCHANGED <<step, kind, end>>
      BY <2>1, <2>5
    <2>6. QED
      BY <2>1, <2>2, <2>3, <2>4, <2>5, StepCases DEF Handles, Deliver, RecordPing, Misdirect, DeleteByHand, Meddle
  <1>4. QED
    BY <1>1, <1>2, <1>3, FileChange

\* The webhooks of a command that has not got to creating or signing one, or has taken it back.
LEMMA HooksKept ==
  ASSUME TypeOK, StepsInv, NamedArePlaced, HooksAreClean, Next
  PROVE  HooksAreClean'
  <1> DEFINE Clean(c) ==
        /\ step[c] \in {"idle", "addKey", "createHook"} => Unsigned(c) /\ hooks[c] = NoHook
        /\ kind[c] = "rotate" => hooks[c] = NoHook
        /\ kind[c] = "rotate" /\ step[c] = "updateHook" => Unsigned(c)
        /\ kind[c] = "add" /\ step[c] \in {"save", "insert", "dropHook"}
             => \A h \in Command \ {c} : hooks[h].secret # c
        /\ step[c] = "dropKey" /\ ~ marks[c].lost /\ ~ marks[c].stray
             => Unsigned(c) /\ hooks[c] = NoHook
  <1>1. SUFFICES ASSUME NEW c \in Command
                 PROVE  Clean(c)'
    BY DEF HooksAreClean
  <1>2. Clean(c)
    BY DEF HooksAreClean
  <1>3. CASE ~ Begins(c) /\ ~ Runs(c)
    <2>1. step'[c] = step[c] /\ kind'[c] = kind[c]
      BY <1>3, OthersStay, StepCases DEF Handles, Deliver, RecordPing, Misdirect, DeleteByHand, Meddle
    <2>2. hooks[c] = NoHook /\ ~ (step[c] = "createHook" /\ kind[c] = "add") => hooks'[c] = NoHook
      BY NoHookStays
    <2>3. hooks[c] = NoHook => hooks'[c] = NoHook
      <3>1. ASSUME NEW b \in Command, Runs(b), hooks[c] = NoHook
            PROVE  hooks'[c] = NoHook
        BY <1>3, <3>1, HookChange
      <3>2. ASSUME step[c] # "createHook", hooks[c] = NoHook
            PROVE  hooks'[c] = NoHook
        BY <3>2, NoHookStays
      <3>3. CASE Misdirect \/ DeleteByHand \/ \E b \in Command : Begins(b) \/ Handles(b)
        <4>1. CASE \E b \in Command : Begins(b)
          BY <4>1, Beginning DEF Begin
        <4>2. CASE Misdirect
          <5>1. ASSUME hooks[c] = NoHook
                PROVE  hooks'[c] = NoHook
            <6>1. PICK h \in Command : hooks[h].aimed /\ hooks' = [hooks EXCEPT ![h].aimed = FALSE]
              BY <4>2 DEF Misdirect
            <6>2. h # c
              BY <5>1, <6>1, Nulls
            <6>3. QED
              BY <5>1, <6>1, <6>2 DEF TypeOK
          <5>2. QED
            BY <5>1
        <4>3. CASE DeleteByHand \/ \E b \in Command : Handles(b)
          BY <4>3 DEF DeleteByHand, Handles, Deliver, RecordPing, TypeOK
        <4>4. QED
          BY <3>3, <4>1, <4>2, <4>3
      <3>4. QED
        BY <3>1, <3>3, StepCases
    <2>4. ASSUME ~ Placed(c), NEW h \in Command, hooks[h].secret # c
          PROVE  hooks'[h].secret # c
      BY <1>3, <2>4, UnsignedStays
    <2>5. step[c] \in {"idle", "addKey", "createHook", "updateHook", "save", "insert", "dropHook",
                       "dropKey"} => ~ Placed(c)
      BY DEF Placed
    <2>6. step[c] = "dropKey" => MarkGrows(c)
      BY MarksGrow
    <2>7. QED
      BY <1>2, <2>1, <2>3, <2>4, <2>5, <2>6 DEF Unsigned, MarkGrows
  <1>4. CASE Begins(c)
    <2>1. PICK k \in CommandKind : Begin(c, k, First(k))
      BY <1>4, Beginning
    <2>2. hooks' = hooks /\ step[c] = "idle" /\ step'[c] = First(k)
      BY <2>1 DEF Begin, TypeOK
    <2>3. First(k) \in {"addKey", "deleteHook", "readHook"}
      BY DEF First, CommandKind
    <2>4. Unsigned(c)' /\ hooks'[c] = NoHook
      BY <1>2, <2>2 DEF Unsigned
    <2>5. QED
      BY <2>2, <2>3, <2>4
  <1>5. CASE Runs(c)
    <2>1. kind' = kind /\ step[c] \in StepsOf(kind[c]) /\ kind[c] \in CommandKind
      BY <1>5, Advancing DEF StepsInv, TypeOK
    <2>2. kind'[c] = "rotate" => hooks'[c] = NoHook
      BY <1>2, <2>1, NoHookStays
    <2>3. CASE AddDeployKey(c)
      <3>1. hooks' = hooks /\ step'[c] \in {"createHook", "updateHook", "ended"}
        BY <2>3 DEF AddDeployKey, Goto, End, TypeOK
      <3>2. Unsigned(c)' /\ hooks'[c] = NoHook
        BY <1>2, <2>3, <3>1 DEF AddDeployKey, Unsigned
      <3>3. QED
        BY <3>1, <3>2
    <2>4. CASE CreateHook(c)
      <3>1. Unsigned(c) /\ hooks[c] = NoHook /\ kind[c] = "add"
        BY <1>2, <2>1, <2>4 DEF CreateHook, StepsOf, CommandKind
      <3>2. PICK out \in Outcome :
              /\ Answers(c, out, listed)
              /\ hooks' = IF out \in Done THEN [hooks EXCEPT ![c] = Signing(c)] ELSE hooks
              /\ Goto(c, IF out = "ok" THEN "save" ELSE "dropKey")
        BY <2>4 DEF CreateHook
      <3>3. step'[c] = (IF out = "ok" THEN "save" ELSE "dropKey")
        BY <3>2 DEF Goto, TypeOK
      <3>4. \A h \in Command \ {c} : hooks'[h].secret # c
        BY <3>1, <3>2 DEF Unsigned, TypeOK
      <3>5. CASE out = "ok"
        BY <2>1, <3>1, <3>3, <3>4, <3>5
      <3>6. CASE out = "lost"
        <4>1. LosingAnswer(c)
          BY <3>2, <3>6 DEF Answers
        <4>2. marks'[c].lost
          BY <4>1 DEF LosingAnswer, Struck, TypeOK
        <4>3. QED
          BY <2>1, <3>1, <3>3, <3>6, <4>2
      <3>7. CASE out \in {"failed", "missing"}
        <4>1. Unsigned(c)' /\ hooks'[c] = NoHook
          BY <3>1, <3>2, <3>7 DEF Done, Unsigned
        <4>2. QED
          BY <2>1, <3>1, <3>3, <3>7, <4>1
      <3>8. QED
        BY <3>5, <3>6, <3>7 DEF Outcome
    <2>5. CASE UpdateHook(c)
      <3>1. kind[c] \in {"rotate", "check"}
        BY <2>1, <2>5 DEF UpdateHook, StepsOf, CommandKind
      <3>2. PICK out \in Outcome :
              /\ Answers(c, out, hooks[mine[c].hook] # NoHook)
              /\ hooks' = IF out \in Done THEN [hooks EXCEPT ![mine[c].hook] = Signing(SecretFor(c))]
                          ELSE hooks
              /\ IF kind[c] = "rotate" THEN Goto(c, IF out = "ok" THEN "save" ELSE "dropKey")
                 ELSE IF out = "ok" THEN Goto(c, "list") ELSE End(c, "failed")
        BY <2>5 DEF UpdateHook
      <3>3. CASE kind[c] = "check"
        <4>1. step'[c] \in {"list", "ended"}
          BY <3>2, <3>3 DEF Goto, End, TypeOK
        <4>2. QED
          BY <2>1, <3>3, <4>1
      <3>4. CASE kind[c] = "rotate"
        <4>1. step'[c] = (IF out = "ok" THEN "save" ELSE "dropKey")
          BY <3>2, <3>4 DEF Goto, TypeOK
        <4>2. Unsigned(c) /\ hooks[c] = NoHook
          BY <1>2, <2>5, <3>4 DEF UpdateHook
        <4>3. CASE out = "ok"
          BY <2>1, <2>2, <3>4, <4>1, <4>3
        <4>4. CASE out = "lost"
          <5>1. LosingAnswer(c)
            BY <3>2, <4>4 DEF Answers
          <5>2. marks'[c].lost
            BY <5>1 DEF LosingAnswer, Struck, TypeOK
          <5>3. QED
            BY <2>1, <2>2, <3>4, <4>1, <4>4, <5>2
        <4>5. CASE out \in {"failed", "missing"}
          <5>1. Unsigned(c)' /\ hooks'[c] = NoHook
            BY <3>2, <4>2, <4>5 DEF Done, Unsigned
          <5>2. QED
            BY <2>1, <3>4, <4>1, <4>5, <5>1
        <4>6. QED
          BY <4>3, <4>4, <4>5 DEF Outcome
      <3>5. QED
        BY <3>1, <3>3, <3>4
    <2>6. CASE Save(c) \/ RepoInsert(c)
      <3>1. hooks' = hooks
        BY <2>6 DEF Save, RepoInsert
      <3>2. step'[c] \in {"insert", "update", "dropHook", "list", "ended"}
        BY <2>6 DEF Save, RepoInsert, Goto, End, TypeOK
      <3>3. kind[c] = "add" => \A h \in Command \ {c} : hooks'[h].secret # c
        BY <1>2, <2>6, <3>1 DEF Save, RepoInsert
      <3>4. QED
        BY <2>1, <2>2, <3>2, <3>3
    <2>7. CASE DropHook(c)
      <3>1. kind[c] = "add" /\ \A h \in Command \ {c} : hooks[h].secret # c
        BY <1>2, <2>1, <2>7 DEF DropHook, StepsOf, CommandKind
      <3>2. step'[c] = "dropKey"
        BY <2>7 DEF DropHook, Goto, TypeOK
      <3>3. PICK out \in Outcome :
              /\ AnswersUndo(c, out, hooks[c] # NoHook)
              /\ hooks' = IF out \in Done THEN [hooks EXCEPT ![c] = NoHook] ELSE hooks
        BY <2>7 DEF DropHook
      <3>4. CASE out = "ok"
        <4>1. hooks' = [hooks EXCEPT ![c] = NoHook]
          BY <3>3, <3>4 DEF Done
        <4>2. Unsigned(c)' /\ hooks'[c] = NoHook
          BY <3>1, <4>1, Nulls DEF Unsigned, TypeOK
        <4>3. QED
          BY <2>1, <3>1, <3>2, <4>2
      <3>5. CASE out # "ok"
        <4>1. marks'[c].stray
          BY <3>3, <3>5 DEF AnswersUndo, Telling, Struck, TypeOK
        <4>2. QED
          BY <2>1, <3>1, <3>2, <4>1
      <3>6. QED
        BY <3>4, <3>5
    <2>8. CASE ~ AddDeployKey(c) /\ ~ CreateHook(c) /\ ~ UpdateHook(c) /\ ~ Save(c)
               /\ ~ RepoInsert(c) /\ ~ DropHook(c)
      <3>1. CASE ReadHook(c)
        <4>1. kind[c] = "check"
          BY <2>1, <3>1 DEF ReadHook, StepsOf, CommandKind
        <4>2. step'[c] \in {"list", "updateHook", "ended"}
          BY <3>1 DEF ReadHook, Goto, End, TypeOK
        <4>3. QED
          BY <2>1, <4>1, <4>2
      <3>2. CASE ~ ReadHook(c)
        <4>1. step'[c] \notin {"idle", "addKey", "createHook", "updateHook", "save", "insert", "dropHook",
                               "dropKey"}
          BY <1>5, <2>8, <3>2, Coming
        <4>2. QED
          BY <2>2, <4>1
      <3>3. QED
        BY <3>1, <3>2
    <2>9. QED
      BY <2>3, <2>4, <2>5, <2>6, <2>7, <2>8
  <1>6. QED
    BY <1>3, <1>4, <1>5

LEMMA UndoneKept ==
  ASSUME TypeOK, StepsInv, NamedArePlaced, HooksAreClean, FilesAreSaved, UndoneLeavesNothing, Next,
         NamedArePlaced', FilesAreSaved'
  PROVE  UndoneLeavesNothing'
  <1>1. SUFFICES ASSUME NEW c \in Command, end'[c] = "undone", ~ marks'[c].lost, ~ marks'[c].stray
                 PROVE  c \notin keys' /\ hooks'[c] = NoHook /\ Unsigned(c)'
    <2>1. ASSUME NEW c \in Command, end'[c] = "undone"
          PROVE  /\ ~ Names(row', c)
                 /\ kind'[c] = "rotate" => priv' # c /\ pub' # c
      BY <2>1 DEF NamedArePlaced, FilesAreSaved, Placed
    <2>2. QED
      BY <2>1 DEF UndoneLeavesNothing, Unsigned, Names
  <1>2. CASE DropKey(c)
    <2>1. PICK out \in Outcome : AnswersUndo(c, out, c \in keys) /\ keys' = Left(c, out)
      BY <1>2 DEF DropKey
    <2>2. out = "ok"
      BY <1>1, <2>1 DEF AnswersUndo, Telling, Struck, TypeOK
    <2>3. c \notin keys' /\ hooks' = hooks /\ step[c] = "dropKey"
      BY <1>2, <2>1, <2>2 DEF DropKey, Left, Done
    <2>4. Next /\ MarkGrows(c)
      BY <2>3, MarksGrow
    <2>5. QED
      BY <1>1, <2>3, <2>4 DEF HooksAreClean, Unsigned, MarkGrows
  <1>3. CASE end[c] = "undone"
    <2>1. step[c] = "ended" /\ ~ Placed(c)
      BY <1>3 DEF StepsInv, Placed
    <2>2. MarkGrows(c)
      BY <2>1, MarksGrow
    <2>3. c \notin keys /\ hooks[c] = NoHook /\ Unsigned(c)
      BY <1>1, <1>3, <2>2 DEF UndoneLeavesNothing, MarkGrows, Unsigned
    <2>4. hooks'[c] = NoHook
      BY <2>1, <2>3, NoHookStays
    <2>5. Unsigned(c)'
      BY <2>1, <2>3, UnsignedStays DEF Unsigned
    <2>6. ASSUME NEW b \in Command, Begins(b)
          PROVE  keys' = keys
      <3>1. PICK k \in CommandKind : Begin(b, k, First(k))
        BY <2>6, Beginning
      <3>2. QED
        BY <3>1 DEF Begin
    <2>7. ASSUME NEW b \in Command, Runs(b)
          PROVE  c \notin keys'
      BY <2>1, <2>3, <2>7, KeyChange, Advancing
    <2>8. c \notin keys'
      BY <2>3, <2>6, <2>7, StepCases DEF Handles, Deliver, RecordPing, Misdirect, DeleteByHand
    <2>9. QED
      BY <2>4, <2>5, <2>8
  <1>4. end[c] = "undone" \/ DropKey(c)
    <2>1. ASSUME NEW b \in Command, Begins(b) \/ Runs(b), b # c
          PROVE  end'[c] = end[c]
      BY <2>1, OthersStay
    <2>2. CASE Begins(c) \/ UNCHANGED end
      <3>1. end' = end
        BY <2>2, Beginning DEF Begin
      <3>2. QED
        BY <1>1, <3>1
    <2>3. CASE Runs(c)
      BY <1>1, <2>3, Coming
    <2>4. QED
      BY <1>1, <2>1, <2>2, <2>3, StepCases DEF Handles, Deliver, RecordPing, Misdirect, DeleteByHand, Meddle
  <1>5. QED
    BY <1>2, <1>3, <1>4

\* What holds of every command that takes back what it did.
Cleaned ==
    /\ TypeOK /\ StepsInv /\ NamedArePlaced /\ HooksAreClean /\ FilesAreSaved
    /\ UndoneLeavesNothing

LEMMA CleanedInitially ==
  ASSUME Init
  PROVE  Cleaned
  <1>1. TypeOK /\ StepsInv /\ NamedArePlaced
    BY KeptInitially DEF Kept
  <1> PICK first \in Command \cup {None} : Before(first)
    BY Starting
  <1>2. \A c \in Command : kind[c] = "add" /\ end[c] = "none" /\ step[c] \in {"idle", "before"}
    BY DEF Init, Before
  <1>3. HooksAreClean
    <2>1. ASSUME NEW c \in Command, step[c] = "idle"
          PROVE  Unsigned(c) /\ hooks[c] = NoHook
      BY <2>1, Nulls DEF Before, Unsigned, Signing
    <2>2. QED
      BY <1>2, <2>1 DEF HooksAreClean
  <1>4. FilesAreSaved /\ UndoneLeavesNothing
    BY <1>2 DEF Before, FilesAreSaved, UndoneLeavesNothing
  <1>5. QED
    BY <1>1, <1>3, <1>4 DEF Cleaned

LEMMA CleanedStays ==
  ASSUME Cleaned, [Next]_vars
  PROVE  Cleaned'
  <1>1. CASE Next
    BY <1>1, TypesKept, StepsKept, NamedKept, HooksKept, FilesKept, UndoneKept DEF Cleaned
  <1>2. CASE UNCHANGED vars
    <2>1. TypeOK' /\ StepsInv'
      BY <1>2 DEF Cleaned, vars, TypeOK, StepsInv
    <2>2. NamedArePlaced' /\ HooksAreClean'
      BY <1>2 DEF Cleaned, vars, NamedArePlaced, Placed, HooksAreClean, Unsigned
    <2>3. FilesAreSaved' /\ UndoneLeavesNothing'
      BY <1>2 DEF Cleaned, vars, FilesAreSaved, UndoneLeavesNothing
    <2>4. QED
      BY <2>1, <2>2, <2>3 DEF Cleaned
  <1>3. QED
    BY <1>1, <1>2

\* A registration or rotation that reported it was undone, and told of nothing left over and lost
\* no answer, has left nothing of itself at GitHub, in the row or, a rotation, in the key files,
\* whatever ran beside it.
THEOREM UndoneIsClean == Spec => []UndoneLeavesNothing
  <1>1. Init => Cleaned
    BY CleanedInitially
  <1>2. Cleaned /\ [Next]_vars => Cleaned'
    BY CleanedStays
  <1>3. Cleaned => UndoneLeavesNothing
    BY DEF Cleaned
  <1>4. QED
    BY <1>1, <1>2, <1>3, PTL DEF Spec

-----------------------------------------------------------------------------
(* A removal can be run again *)

LEMMA RepeatKept ==
  ASSUME TypeOK, StepsInv, RemovalCanBeRepeated, Next
  PROVE  RemovalCanBeRepeated'
  <1>1. SUFFICES ASSUME NEW c \in Command, kind'[c] = "remove", end'[c] = "failed"
                 PROVE  marks'[c].hit
    BY DEF RemovalCanBeRepeated
  <1>2. CASE Begins(c)
    <2>1. step[c] = "idle" /\ end' = end
      BY <1>2, Beginning DEF Begin
    <2>2. QED
      BY <1>1, <2>1 DEF StepsInv
  <1>3. CASE Runs(c)
    <2>1. kind[c] = "remove" /\ end[c] # "failed" /\ step[c] \in StepsOf("remove")
      BY <1>1, <1>3, Advancing DEF StepsInv
    <2>2. Failing(c) \/ LosingAnswer(c)
      <3>1. CASE DeleteHook(c)
        BY <1>1, <2>1, <3>1 DEF DeleteHook, Answers, Forgettable, Goto, End, TypeOK
      <3>2. CASE DeleteDeployKey(c)
        BY <1>1, <2>1, <3>2 DEF DeleteDeployKey, Answers, Forgettable, Goto, End, TypeOK
      <3>3. CASE RemoveFiles(c) \/ RepoDelete(c)
        BY <1>1, <2>1, <3>3 DEF RemoveFiles, RepoDelete, Goto, End, TypeOK
      <3>4. CASE Kill(c)
        BY <3>4 DEF Kill
      <3>5. QED
        BY <1>3, <2>1, <3>1, <3>2, <3>3, <3>4 DEF Runs, AddDeployKey, CreateHook, UpdateHook, Save,
           RepoInsert, DropHook, DropKey, RepoUpdate, ReadHook, ListDeliveries, PingHook, FindPing,
           GiveUpPolling, StepsOf
    <2>3. marks \in [Command -> Mark] /\ marks[c] \in Mark
      BY DEF TypeOK, Mark
    <2>4. marks' \in {[marks EXCEPT ![c] = [marks[c] EXCEPT !.hit = TRUE]],
                     [marks EXCEPT ![c] = [marks[c] EXCEPT !.hit = TRUE, !.lost = TRUE]]}
      BY <2>2 DEF Failing, LosingAnswer, Struck
    <2>5. QED
      BY <2>3, <2>4 DEF Mark
  <1>4. CASE ~ Begins(c) /\ ~ Runs(c)
    <2>1. kind[c] = "remove" /\ end[c] = "failed"
      BY <1>1, <1>4, OthersStay, StepCases DEF Handles, Deliver, RecordPing, Misdirect, DeleteByHand, Meddle
    <2>2. MarkGrows(c)
      BY <2>1, MarksGrow DEF StepsInv
    <2>3. QED
      BY <2>1, <2>2 DEF RemovalCanBeRepeated, MarkGrows
  <1>5. QED
    BY <1>2, <1>3, <1>4

\* A removal fails only where a call, a write or the process itself failed, so it can be run again
\* until it is through, whatever is already gone.
THEOREM RemovalRepeats == Spec => []RemovalCanBeRepeated
  <1> DEFINE Inv == TypeOK /\ StepsInv /\ RemovalCanBeRepeated
  <1>1. Init => Inv
    BY Initially DEF StepsInv, Init, RemovalCanBeRepeated
  <1>2. Inv /\ [Next]_vars => Inv'
    <2>1. SUFFICES ASSUME Inv, [Next]_vars
                   PROVE  Inv'
      OBVIOUS
    <2>2. CASE Next
      BY <2>1, <2>2, TypesKept, StepsKept, RepeatKept
    <2>3. CASE UNCHANGED vars
      BY <2>1, <2>3 DEF vars, TypeOK, StepsInv, RemovalCanBeRepeated
    <2>4. QED
      BY <2>1, <2>2, <2>3
  <1>3. QED
    BY <1>1, <1>2, PTL DEF Spec
-----------------------------------------------------------------------------
(* What an undisturbed command reports *)

\* The ping c asks for, and what its answer says of the webhook of c.
Own(c) == <<c, "asked">>

Told(c) ==
    /\ answer[Own(c)] = "accepted" => hooks[mine[c].hook] = Signing(row.secret)
    /\ answer[Own(c)] = "unsigned" => hooks[mine[c].hook].secret # row.secret

\* A ping is answered only after it was sent, and put on record only with its answer.
PingsInv ==
    /\ \A c \in Command : step[c] \notin {"poll", "ended"} => ping[Own(c)] = NoPing
    /\ \A p \in Pinged : ping[p] = NoPing => answer[p] = "none"
    /\ \A i \in DOMAIN record : answer[record[i]] # "none"

\* How far a command has come that nothing disturbs, by its kind.
Adding(c) ==
    /\ step[c] \in {"addKey", "createHook", "save", "insert"} => ~ Registered
    /\ step[c] \in {"createHook", "save", "insert"} => c \in keys
    /\ step[c] \in {"save", "insert"} => hooks[c] = Signing(c)
    /\ step[c] = "insert" => priv = c /\ pub = c
    /\ step[c] \in {"list", "ping", "poll"} => Works

Rotating(c) ==
    /\ step[c] \in {"addKey", "updateHook", "save", "update"} => row = mine[c]
    /\ step[c] \in {"updateHook", "save", "update"} => c \in keys
    /\ step[c] \in {"save", "update"} => hooks[mine[c].hook] = Signing(c)
    /\ step[c] = "update" => priv = c /\ pub = c
    /\ step[c] \in {"deleteKey", "list", "ping", "poll"} => Works

Removing(c) ==
    /\ row = mine[c]
    /\ step[c] \in {"deleteKey", "removeFiles", "deleteRow"} => hooks[mine[c].hook] = NoHook
    /\ step[c] \in {"removeFiles", "deleteRow"} => mine[c].key \notin keys
    /\ step[c] = "deleteRow" => priv = None /\ pub = None

Checking(c) ==
    /\ row = mine[c]
    /\ step[c] = "poll" =>
         LET hook == hooks[mine[c].hook]
         IN /\ ping[Own(c)] = [hook |-> mine[c].hook, secret |-> hook.secret, aimed |-> hook.aimed]
            /\ Told(c)

OnTrack(c) ==
    /\ kind[c] = "add" => Adding(c)
    /\ kind[c] = "rotate" => Rotating(c)
    /\ kind[c] = "remove" => Removing(c)
    /\ kind[c] = "check" => Checking(c)

\* What a command that ended well and undisturbed has reached.
Reached(c) ==
    /\ kind[c] \in {"add", "rotate"} => Works
    /\ kind[c] = "remove" =>
         /\ ~ Registered /\ priv = None /\ pub = None
         /\ hooks[mine[c].hook] = NoHook /\ mine[c].key \notin keys
    /\ kind[c] = "check" =>
         /\ row = mine[c]
         /\ rests[c] = None /\ verdict[c] = "failed" => hooks[mine[c].hook] = NoHook
         /\ rests[c] = Own(c) => Told(c) /\ answer[Own(c)] # "none"

\* A command that is alone is the only one that runs, and is on its track.
AloneInv ==
    \A c \in Command : Active(c) /\ marks[c].alone =>
        OnTrack(c) /\ \A u \in Command : Active(u) => u = c

\* While the report of a command stands, nothing runs.
FreshInv ==
    \A c \in Command : c = fresh =>
        /\ step[c] = "ended" /\ \A u \in Command : ~ Active(u)
        /\ end[c] = "done" => Reached(c)

\* c goes on along its track, or ends, and where it ends well has reached its aim.
Onward(c) ==
    \/ step'[c] # "ended" /\ OnTrack(c)'
    \/ step'[c] = "ended" /\ (end'[c] = "done" => Reached(c)')

\* How a step of c can move it.
LEMMA Moving ==
  ASSUME TypeOK, NEW c \in Command
  PROVE  /\ \A s : Goto(c, s) => step'[c] = s
         /\ \A e : End(c, e) => step'[c] = "ended" /\ end'[c] = e
         /\ \A v, d : Conclude(c, v, d) => /\ step'[c] = "ended" /\ mine' = mine
                                           /\ verdict'[c] = v /\ rests'[c] = d
BY DEF TypeOK, Goto, End, Conclude

LEMMA WorksOn ==
  ASSUME Works, UNCHANGED <<keys, hooks, priv, pub, row>>
  PROVE  Works'
BY DEF Works

LEMMA AddKept ==
  ASSUME TypeOK, StepsInv, NEW c \in Command, Runs(c), kind[c] = "add", Adding(c)
  PROVE  Onward(c)
  <1>0. /\ kind'[c] = "add" /\ step[c] \in StepsOf("add")
        /\ hooks \in [Command -> Hook]
    BY Advancing DEF StepsInv, TypeOK
  <1>1. CASE AddDeployKey(c)
    <2>1. ~ Registered /\ UNCHANGED row
      BY <1>1 DEF AddDeployKey, Adding
    <2>2. \/ step'[c] = "createHook" /\ c \in keys'
          \/ step'[c] = "ended" /\ end'[c] = "refused"
      BY <1>0, <1>1, Moving DEF AddDeployKey, Done
    <2>3. QED
      BY <1>0, <2>1, <2>2 DEF Onward, OnTrack, Adding
  <1>2. CASE CreateHook(c)
    <2>1. ~ Registered /\ c \in keys /\ UNCHANGED <<row, keys>>
      BY <1>2 DEF CreateHook, Adding
    <2>2. \/ step'[c] = "save" /\ hooks' = [hooks EXCEPT ![c] = Signing(c)]
          \/ step'[c] = "dropKey"
      BY <1>2, Moving DEF CreateHook, Done
    <2>3. QED
      BY <1>0, <2>1, <2>2 DEF Onward, OnTrack, Adding
  <1>3. CASE Save(c)
    <2>1. /\ ~ Registered /\ c \in keys /\ hooks[c] = Signing(c)
          /\ UNCHANGED <<row, keys, hooks>>
      BY <1>3 DEF Save, Adding
    <2>2. \/ step'[c] = "insert" /\ priv' = c /\ pub' = c
          \/ step'[c] = "dropHook"
      BY <1>0, <1>3, Moving DEF Save
    <2>3. QED
      BY <1>0, <2>1, <2>2 DEF Onward, OnTrack, Adding
  <1>4. CASE RepoInsert(c)
    <2>1. /\ c \in keys /\ hooks[c] = Signing(c) /\ priv = c /\ pub = c
          /\ UNCHANGED <<keys, hooks>>
      BY <1>4 DEF RepoInsert, Adding
    <2>2. CASE step'[c] = "dropHook"
      BY <1>0, <2>2 DEF Onward, OnTrack, Adding
    <2>3. CASE step'[c] # "dropHook"
      <3>1. /\ row' = [secret |-> c, key |-> c, hook |-> c] /\ UNCHANGED <<priv, pub>>
            /\ step'[c] \in {"list", "ended"}
        BY <1>4, <2>3, Moving DEF RepoInsert
      <3>2. Works'
        BY <2>1, <3>1, Nulls DEF Works
      <3>3. QED
        BY <1>0, <3>1, <3>2 DEF Onward, OnTrack, Adding, Reached
    <2>4. QED
      BY <2>2, <2>3
  <1>5. CASE DropHook(c) \/ DropKey(c)
    <2>1. \/ step'[c] = "dropKey"
          \/ step'[c] = "ended" /\ end'[c] = "undone"
      <3>1. DropHook(c) => step'[c] = "dropKey"
        BY Moving DEF DropHook
      <3>2. DropKey(c) => step'[c] = "ended" /\ end'[c] = "undone"
        BY Moving DEF DropKey
      <3>3. QED
        BY <1>5, <3>1, <3>2
    <2>2. QED
      BY <1>0, <2>1 DEF Onward, OnTrack, Adding
  <1>6. CASE ListDeliveries(c) \/ PingHook(c) \/ FindPing(c) \/ GiveUpPolling(c)
    <2>1. Works
      BY <1>6 DEF ListDeliveries, PingHook, FindPing, GiveUpPolling, Adding
    <2>2. Works'
      BY <1>6, <2>1, WorksOn DEF ListDeliveries, PingHook, FindPing, GiveUpPolling
    <2>3. step'[c] \in {"ping", "poll", "ended"}
      BY <1>6, Moving DEF ListDeliveries, PingHook, FindPing, GiveUpPolling, Outcome
    <2>4. QED
      BY <1>0, <2>2, <2>3 DEF Onward, OnTrack, Adding, Reached
  <1>7. CASE Kill(c)
    BY <1>7, Moving DEF Kill, Onward
  <1>8. QED
    BY <1>0, <1>1, <1>2, <1>3, <1>4, <1>5, <1>6, <1>7 DEF Runs, StepsOf, UpdateHook, RepoUpdate,
       DeleteHook, DeleteDeployKey, RemoveFiles, RepoDelete, ReadHook
LEMMA RotateKept ==
  ASSUME TypeOK, StepsInv, OldKeyIsOut, NEW c \in Command, Runs(c), kind[c] = "rotate",
         Rotating(c)
  PROVE  Onward(c)
  <1>0. /\ kind'[c] = "rotate" /\ step[c] \in StepsOf("rotate") /\ mine' = mine
        /\ hooks \in [Command -> Hook] /\ mine[c] \in Row /\ mine[c] # NoRow
    BY Advancing DEF StepsInv, TypeOK
  <1>1. CASE AddDeployKey(c)
    <2>1. row = mine[c] /\ UNCHANGED row
      BY <1>1 DEF AddDeployKey, Rotating
    <2>2. \/ step'[c] = "updateHook" /\ c \in keys'
          \/ step'[c] = "ended" /\ end'[c] = "refused"
      BY <1>0, <1>1, Moving DEF AddDeployKey, Done
    <2>3. QED
      BY <1>0, <2>1, <2>2 DEF Onward, OnTrack, Rotating
  <1>2. CASE UpdateHook(c)
    <2>1. row = mine[c] /\ c \in keys /\ UNCHANGED <<row, keys>>
      BY <1>2 DEF UpdateHook, Rotating
    <2>2. \/ step'[c] = "save" /\ hooks' = [hooks EXCEPT ![mine[c].hook] = Signing(c)]
          \/ step'[c] = "dropKey"
      BY <1>0, <1>2, Moving DEF UpdateHook, SecretFor, Done
    <2>3. mine[c].hook \in Command
      BY <1>0, RowNamesCommands
    <2>4. QED
      BY <1>0, <2>1, <2>2, <2>3 DEF Onward, OnTrack, Rotating
  <1>3. CASE Save(c)
    <2>1. /\ row = mine[c] /\ c \in keys /\ hooks[mine[c].hook] = Signing(c)
          /\ UNCHANGED <<row, keys, hooks>>
      BY <1>3 DEF Save, Rotating
    <2>2. \/ step'[c] = "update" /\ priv' = c /\ pub' = c
          \/ step'[c] = "ended" /\ end'[c] = "failed"
      BY <1>0, <1>3, Moving DEF Save
    <2>3. QED
      BY <1>0, <2>1, <2>2 DEF Onward, OnTrack, Rotating
  <1>4. CASE RepoUpdate(c)
    <2>1. /\ row = mine[c] /\ c \in keys /\ hooks[mine[c].hook] = Signing(c)
          /\ priv = c /\ pub = c
          /\ UNCHANGED <<keys, hooks, priv, pub>>
      BY <1>4 DEF RepoUpdate, Rotating
    <2>2. CASE step'[c] = "ended"
      <3>1. end'[c] = "failed"
        BY <1>4, <2>2, Moving DEF RepoUpdate
      <3>2. QED
        BY <2>2, <3>1 DEF Onward
    <2>3. CASE step'[c] # "ended"
      <3>1. step'[c] = "deleteKey" /\ row' = Rotated(c)
        BY <1>0, <1>4, <2>1, <2>3, Moving DEF RepoUpdate, Updated, Row
      <3>2. row'.secret = c /\ row'.key = c /\ row'.hook = mine[c].hook
        BY <1>0, <3>1 DEF Rotated, Row, NoRow
      <3>3. Works'
        BY <2>1, <3>2, Nulls DEF Works
      <3>4. QED
        BY <1>0, <3>1, <3>3 DEF Onward, OnTrack, Rotating
    <2>4. QED
      BY <2>2, <2>3
  <1>5. CASE DropKey(c)
    BY <1>5, Moving DEF DropKey, Onward
  <1>6. CASE DeleteDeployKey(c)
    <2>1. Works /\ row.key # mine[c].key
      BY <1>0, <1>6 DEF DeleteDeployKey, Rotating, OldKeyIsOut
    <2>2. /\ keys' \in {keys, keys \ {mine[c].key}} /\ UNCHANGED <<hooks, priv, pub, row>>
          /\ step'[c] = "list"
      BY <1>0, <1>6, Moving DEF DeleteDeployKey
    <2>3. Works'
      BY <2>1, <2>2 DEF Works
    <2>4. QED
      BY <1>0, <2>2, <2>3 DEF Onward, OnTrack, Rotating
  <1>7. CASE ListDeliveries(c) \/ PingHook(c) \/ FindPing(c) \/ GiveUpPolling(c)
    <2>1. Works
      BY <1>7 DEF ListDeliveries, PingHook, FindPing, GiveUpPolling, Rotating
    <2>2. Works'
      BY <1>7, <2>1, WorksOn DEF ListDeliveries, PingHook, FindPing, GiveUpPolling
    <2>3. step'[c] \in {"ping", "poll", "ended"}
      BY <1>7, Moving DEF ListDeliveries, PingHook, FindPing, GiveUpPolling, Outcome
    <2>4. QED
      BY <1>0, <2>2, <2>3 DEF Onward, OnTrack, Rotating, Reached
  <1>8. CASE Kill(c)
    BY <1>8, Moving DEF Kill, Onward
  <1>9. QED
    BY <1>0, <1>1, <1>2, <1>3, <1>4, <1>5, <1>6, <1>7, <1>8 DEF Runs, StepsOf, CreateHook,
       RepoInsert, DropHook, DeleteHook, RemoveFiles, RepoDelete, ReadHook

LEMMA RemoveKept ==
  ASSUME TypeOK, StepsInv, NEW c \in Command, Runs(c), kind[c] = "remove", Removing(c)
  PROVE  Onward(c)
  <1>0. /\ kind'[c] = "remove" /\ step[c] \in StepsOf("remove") /\ mine' = mine
        /\ hooks \in [Command -> Hook] /\ mine[c] \in Row /\ mine[c] # NoRow
    BY Advancing DEF StepsInv, TypeOK
  <1>1. CASE DeleteHook(c)
    <2>1. row = mine[c] /\ UNCHANGED row /\ mine[c].hook \in Command
      BY <1>0, <1>1, RowNamesCommands DEF DeleteHook, Removing
    <2>2. CASE step'[c] = "ended"
      <3>1. end'[c] = "failed"
        BY <1>1, <2>2, Moving DEF DeleteHook
      <3>2. QED
        BY <2>2, <3>1 DEF Onward
    <2>3. CASE step'[c] # "ended"
      <3>1. step'[c] = "deleteKey" /\ hooks'[mine[c].hook] = NoHook
        BY <1>0, <1>1, <2>1, <2>3, Moving DEF DeleteHook, Answers, Forgettable, Done
      <3>2. QED
        BY <1>0, <2>1, <3>1 DEF Onward, OnTrack, Removing
    <2>4. QED
      BY <2>2, <2>3
  <1>2. CASE DeleteDeployKey(c)
    <2>1. row = mine[c] /\ hooks[mine[c].hook] = NoHook /\ UNCHANGED <<row, hooks>>
      BY <1>2 DEF DeleteDeployKey, Removing
    <2>2. CASE step'[c] = "ended"
      <3>1. end'[c] = "failed"
        BY <1>0, <1>2, <2>2, Moving DEF DeleteDeployKey
      <3>2. QED
        BY <2>2, <3>1 DEF Onward
    <2>3. CASE step'[c] # "ended"
      <3>1. step'[c] = "removeFiles" /\ mine[c].key \notin keys'
        BY <1>0, <1>2, <2>3, Moving DEF DeleteDeployKey, Answers, Forgettable, Done
      <3>2. QED
        BY <1>0, <2>1, <3>1 DEF Onward, OnTrack, Removing
    <2>4. QED
      BY <2>2, <2>3
  <1>3. CASE RemoveFiles(c)
    <2>1. /\ row = mine[c] /\ hooks[mine[c].hook] = NoHook /\ mine[c].key \notin keys
          /\ UNCHANGED <<row, hooks, keys>>
      BY <1>3 DEF RemoveFiles, Removing
    <2>2. \/ step'[c] = "deleteRow" /\ priv' = None /\ pub' = None
          \/ step'[c] = "ended" /\ end'[c] = "failed"
      BY <1>3, Moving DEF RemoveFiles
    <2>3. QED
      BY <1>0, <2>1, <2>2 DEF Onward, OnTrack, Removing
  <1>4. CASE RepoDelete(c)
    <2>1. /\ hooks[mine[c].hook] = NoHook /\ mine[c].key \notin keys /\ priv = None /\ pub = None
          /\ UNCHANGED <<hooks, keys, priv, pub>>
      BY <1>4 DEF RepoDelete, Removing
    <2>2. /\ step'[c] = "ended"
          /\ row' = NoRow \/ end'[c] = "failed"
      BY <1>4, Moving DEF RepoDelete
    <2>3. QED
      BY <1>0, <2>1, <2>2 DEF Onward, Reached
  <1>5. CASE Kill(c)
    BY <1>5, Moving DEF Kill, Onward
  <1>6. QED
    BY <1>0, <1>1, <1>2, <1>3, <1>4, <1>5 DEF Runs, StepsOf, AddDeployKey, CreateHook, UpdateHook,
       Save, RepoInsert, DropHook, DropKey, RepoUpdate, ReadHook, ListDeliveries, PingHook,
       FindPing, GiveUpPolling

LEMMA CheckKept ==
  ASSUME TypeOK, StepsInv, PingsInv, NEW c \in Command, Runs(c), kind[c] = "check", Checking(c)
  PROVE  Onward(c)
  <1>0. /\ kind'[c] = "check" /\ step[c] \in StepsOf("check") /\ mine' = mine
        /\ hooks \in [Command -> Hook] /\ mine[c] \in Row /\ mine[c] # NoRow
        /\ row = mine[c] /\ HookOf(c) = mine[c].hook /\ Own(c) \in Pinged
    BY Advancing DEF StepsInv, TypeOK, Checking, HookOf, Own, Pinged
  <1>1. CASE ReadHook(c)
    <2>1. /\ UNCHANGED row
          /\ \/ step'[c] \in {"list", "updateHook"}
             \/ step'[c] = "ended" /\ end'[c] \in {"refused", "failed"}
      BY <1>1, Moving DEF ReadHook
    <2>2. QED
      BY <1>0, <2>1 DEF Onward, OnTrack, Checking
  <1>2. CASE UpdateHook(c)
    <2>1. /\ UNCHANGED row
          /\ \/ step'[c] = "list"
             \/ step'[c] = "ended" /\ end'[c] = "failed"
      BY <1>0, <1>2, Moving DEF UpdateHook
    <2>2. QED
      BY <1>0, <2>1 DEF Onward, OnTrack, Checking
  <1>3. CASE ListDeliveries(c)
    <2>1. UNCHANGED <<row, hooks>>
      BY <1>3 DEF ListDeliveries
    <2>2. PICK out \in Outcome \ {"lost"} :
            /\ Answers(c, out, hooks[HookOf(c)] # NoHook)
            /\ out = "ok" => Goto(c, "ping")
            /\ out = "missing" => Conclude(c, "failed", None)
            /\ out = "failed" => Conclude(c, "unknown", None)
      BY <1>3 DEF ListDeliveries
    <2>3. CASE out = "ok"
      <3>1. step'[c] = "ping"
        BY <2>2, <2>3, Moving
      <3>2. QED
        BY <1>0, <2>1, <3>1 DEF Onward, OnTrack, Checking
    <2>4. CASE out # "ok"
      <3>1. /\ step'[c] = "ended" /\ rests'[c] = None
            /\ verdict'[c] = "failed" => hooks[mine[c].hook] = NoHook
        BY <1>0, <2>2, <2>4, Moving DEF Outcome, Answers
      <3>2. rests'[c] # Own(c)
        BY <3>1, CommandAssumption DEF Own
      <3>3. QED
        BY <1>0, <2>1, <3>1, <3>2 DEF Onward, Reached
    <2>5. QED
      BY <2>3, <2>4
  <1>4. CASE PingHook(c)
    <2>1. UNCHANGED <<row, hooks, answer>>
      BY <1>4 DEF PingHook
    <2>2. PICK out \in Outcome :
            /\ Answers(c, out, hooks[HookOf(c)] # NoHook)
            /\ out \in Done => SendPing(Own(c), HookOf(c), hooks[HookOf(c)])
            /\ out = "ok" => Goto(c, "poll")
            /\ out = "missing" => Conclude(c, "failed", None)
            /\ out \in {"lost", "failed"} => Conclude(c, "unknown", None)
      BY <1>4 DEF PingHook, Own
    <2>3. CASE out = "ok"
      <3>1. answer[Own(c)] = "none"
        BY <1>0, <1>4 DEF PingsInv, PingHook
      <3>2. ping'[Own(c)] = [hook |-> mine[c].hook, secret |-> hooks[mine[c].hook].secret,
                             aimed |-> hooks[mine[c].hook].aimed]
        BY <1>0, <2>2, <2>3 DEF SendPing, Done, TypeOK
      <3>3. step'[c] = "poll"
        BY <2>2, <2>3, Moving
      <3>4. QED
        BY <1>0, <2>1, <3>1, <3>2, <3>3 DEF Onward, OnTrack, Checking, Told, Own
    <2>4. CASE out # "ok"
      <3>1. /\ step'[c] = "ended" /\ rests'[c] = None
            /\ verdict'[c] = "failed" => hooks[mine[c].hook] = NoHook
        BY <1>0, <2>2, <2>4, Moving DEF Outcome, Answers
      <3>2. rests'[c] # Own(c)
        BY <3>1, CommandAssumption DEF Own
      <3>3. QED
        BY <1>0, <2>1, <3>1, <3>2 DEF Onward, Reached
    <2>5. QED
      BY <2>3, <2>4
  <1>5. CASE FindPing(c)
    <2>1. /\ UNCHANGED <<row, hooks, answer>> /\ Told(c)
      BY <1>0, <1>5 DEF FindPing, Checking
    <2>2. PICK i \in DOMAIN record : step'[c] = "ended" /\ rests'[c] = record[i]
      BY <1>5, Moving DEF FindPing
    <2>3. answer[record[i]] # "none"
      BY DEF PingsInv
    <2>4. record[i] \in Pinged /\ record[i] # None
      BY CommandAssumption DEF TypeOK, Pinged
    <2>5. QED
      BY <1>0, <2>1, <2>2, <2>3, <2>4 DEF Onward, Reached, Told, Own
  <1>6. CASE GiveUpPolling(c)
    <2>1. /\ step'[c] = "ended" /\ rests'[c] = None /\ verdict'[c] # "failed"
          /\ UNCHANGED row
      BY <1>6, Moving DEF GiveUpPolling
    <2>2. rests'[c] # Own(c)
      BY <2>1, CommandAssumption DEF Own
    <2>3. QED
      BY <1>0, <2>1, <2>2 DEF Onward, Reached
  <1>7. CASE Kill(c)
    BY <1>7, Moving DEF Kill, Onward
  <1>8. QED
    BY <1>0, <1>1, <1>2, <1>3, <1>4, <1>5, <1>6, <1>7 DEF Runs, StepsOf, AddDeployKey, CreateHook,
       Save, RepoInsert, DropHook, DropKey, RepoUpdate, DeleteHook, DeleteDeployKey, RemoveFiles,
       RepoDelete
LEMMA TrackKept ==
  ASSUME TypeOK, StepsInv, OldKeyIsOut, PingsInv, NEW c \in Command, Runs(c), OnTrack(c)
  PROVE  Onward(c)
  <1>1. kind[c] \in CommandKind
    BY DEF TypeOK
  <1>2. QED
    BY <1>1, AddKept, RotateKept, RemoveKept, CheckKept DEF OnTrack, CommandKind

\* Where a command starts, it is on its track.
LEMMA TrackBegun ==
  ASSUME TypeOK, NEW c \in Command, Begins(c)
  PROVE  OnTrack(c)'
  <1>1. PICK k \in CommandKind : Begin(c, k, First(k)) /\ (k = "add" <=> row = NoRow)
    BY Beginning
  <1>2. /\ kind'[c] = k /\ mine'[c] = row /\ step'[c] = First(k) /\ UNCHANGED row
    BY <1>1 DEF Begin, TypeOK
  <1>3. QED
    BY <1>1, <1>2 DEF OnTrack, Adding, Rotating, Removing, Checking, First, CommandKind

\* The daemon answers a ping: nothing a command reports changes but the answer to its ping,
\* and that only while the command waits for it.
LEMMA TrackStands ==
  ASSUME TypeOK, NEW v \in Command, Handles(v), NEW c \in Command
  PROVE  /\ OnTrack(c) => OnTrack(c)'
         /\ Reached(c) => Reached(c)'
  <1>0. UNCHANGED <<keys, hooks, priv, pub, row, step, kind, mine, ping, verdict, rests>>
    BY DEF Handles, Deliver, RecordPing
  <1>1. PICK p \in {v} \X {"created", "asked"} :
          \/ answer' = answer
          \/ /\ answer[p] = "none"
             /\ \/ answer' = [answer EXCEPT ![p] = Answer(ping[p])]
                \/ answer' = [answer EXCEPT ![p] = "unreached"]
    BY DEF Handles, Deliver, RecordPing
  <1>2. Works => Works'
    BY <1>0, WorksOn
  <1>3. /\ p \in Pinged /\ Own(c) \in Pinged
        /\ answer \in [Pinged -> {"none", "unreached", "unknown", "unsigned", "accepted"}]
    BY DEF TypeOK, Pinged, Own
  <1>4. answer[Own(c)] # "none" => answer'[Own(c)] = answer[Own(c)]
    BY <1>1, <1>3
  <1>5. ASSUME kind[c] = "check", Checking(c) PROVE Checking(c)'
    <2>1. CASE step[c] = "poll" /\ answer'[Own(c)] # answer[Own(c)]
      <3> DEFINE hook == hooks[mine[c].hook]
      <3>1. /\ row = mine[c]
            /\ ping[Own(c)] = [hook |-> mine[c].hook, secret |-> hook.secret, aimed |-> hook.aimed]
        BY <1>5, <2>1 DEF Checking
      <3>2. answer'[Own(c)] \in {Answer(ping[Own(c)]), "unreached"}
        BY <1>1, <1>3, <2>1
      <3>3. answer'[Own(c)] = "unsigned" => hook.secret # row.secret
        BY <3>1, <3>2 DEF Answer
      <3>4. answer'[Own(c)] = "accepted" => hook = Signing(row.secret)
        <4>1. answer'[Own(c)] = "accepted" => hook.aimed /\ row.secret = hook.secret
          BY <3>1, <3>2 DEF Answer
        <4>2. SUFFICES ASSUME hook.aimed, row.secret = hook.secret
                       PROVE  hook = Signing(row.secret)
          BY <4>1
        <4>3. mine[c].hook \in Command
          BY <1>5, <2>1, RowNamesCommands DEF TypeOK
        <4>4. hook \in Hook \ {NoHook}
          BY <4>2, <4>3, Nulls DEF TypeOK
        <4>5. QED
          BY <4>2, <4>4 DEF Hook, Signing
      <3>5. QED
        BY <1>0, <2>1, <3>1, <3>3, <3>4 DEF Checking, Told, Own
    <2>2. CASE ~ (step[c] = "poll" /\ answer'[Own(c)] # answer[Own(c)])
      BY <1>0, <1>5, <2>2 DEF Checking, Told, Own
    <2>3. QED
      BY <2>1, <2>2
  <1>6. OnTrack(c) => OnTrack(c)'
    BY <1>0, <1>2, <1>5 DEF OnTrack, Adding, Rotating, Removing
  <1>7. Reached(c) => Reached(c)'
    BY <1>0, <1>2, <1>4 DEF Reached, Told, Own
  <1>8. QED
    BY <1>6, <1>7
LEMMA PingsKept ==
  ASSUME TypeOK, StepsInv, PingsInv, Next
  PROVE  PingsInv'
  <1>0. /\ ping \in [Pinged -> Ping] /\ record \in Seq(Pinged)
        /\ answer \in [Pinged -> {"none", "unreached", "unknown", "unsigned", "accepted"}]
    BY DEF TypeOK
  <1>1. ASSUME NEW b \in Command, Begins(b)
        PROVE  PingsInv'
    <2>1. PICK k \in CommandKind : Begin(b, k, First(k))
      BY <1>1, Beginning
    <2>2. UNCHANGED <<ping, answer, record>>
      BY <2>1 DEF Begin
    <2>3. \A c \in Command : step'[c] = step[c] \/ (c = b /\ step[c] = "idle")
      BY <1>1, <2>1, OthersStay DEF Begin
    <2>4. QED
      BY <2>2, <2>3 DEF PingsInv, Own
  <1>2. ASSUME NEW b \in Command, Runs(b)
        PROVE  PingsInv'
    <2>1. UNCHANGED <<answer, record>>
      BY <1>2 DEF Runs, AddDeployKey, CreateHook, UpdateHook, Save, RepoInsert, DropHook, DropKey,
         RepoUpdate, DeleteHook, DeleteDeployKey, RemoveFiles, RepoDelete, ReadHook,
         ListDeliveries, PingHook, FindPing, GiveUpPolling, Kill
    <2>2. \A p \in Pinged : ping'[p] = NoPing => ping[p] = NoPing
      <3>1. CASE CreateHook(b)
        <4>1. ASSUME SendPing(<<b, "created">>, b, Signing(b)), NEW p \in Pinged,
                     ping'[p] = NoPing
              PROVE  ping[p] = NoPing
          BY <1>0, <4>1, Nulls DEF SendPing, NoPing
        <4>2. QED
          BY <3>1, <4>1 DEF CreateHook
      <3>2. CASE PingHook(b)
        <4>1. HookOf(b) \in Command
          BY <3>2, RowNamesCommands DEF HookOf, TypeOK, PingHook
        <4>2. ASSUME SendPing(<<b, "asked">>, HookOf(b), hooks[HookOf(b)]), NEW p \in Pinged,
                     ping'[p] = NoPing
              PROVE  ping[p] = NoPing
          BY <1>0, <4>1, <4>2, Nulls DEF SendPing, NoPing
        <4>3. QED
          BY <3>2, <4>2 DEF PingHook
      <3>3. CASE ~ CreateHook(b) /\ ~ PingHook(b)
        BY <1>2, <3>3 DEF Runs, AddDeployKey, UpdateHook, Save, RepoInsert, DropHook, DropKey,
           RepoUpdate, DeleteHook, DeleteDeployKey, RemoveFiles, RepoDelete, ReadHook,
           ListDeliveries, FindPing, GiveUpPolling, Kill
      <3>4. QED
        BY <3>1, <3>2, <3>3
    <2>3. ASSUME NEW c \in Command, step'[c] \notin {"poll", "ended"}
          PROVE  ping'[Own(c)] = NoPing
      <3>1. step[c] \notin {"poll", "ended"}
        <4>1. CASE c # b
          BY <1>2, <2>3, <4>1, OthersStay
        <4>2. CASE c = b
          <5>1. step[b] # "ended"
            BY <1>2, Advancing
          <5>2. step[b] = "poll" => FindPing(b) \/ GiveUpPolling(b) \/ Kill(b)
            BY <1>2 DEF Runs, AddDeployKey, CreateHook, UpdateHook, Save, RepoInsert, DropHook,
               DropKey, RepoUpdate, DeleteHook, DeleteDeployKey, RemoveFiles, RepoDelete,
               ReadHook, ListDeliveries, PingHook
          <5>3. FindPing(b) \/ GiveUpPolling(b) \/ Kill(b) => step'[b] = "ended"
            BY Moving DEF FindPing, GiveUpPolling, Kill
          <5>4. QED
            BY <2>3, <4>2, <5>1, <5>2, <5>3
        <4>3. QED
          BY <4>1, <4>2
      <3>2. ping[Own(c)] = NoPing
        BY <3>1 DEF PingsInv
      <3>3. ping'[Own(c)] = ping[Own(c)]
        <4>1. CASE CreateHook(b)
          <5>1. UNCHANGED ping \/ SendPing(<<b, "created">>, b, Signing(b))
            BY <4>1 DEF CreateHook
          <5>2. Own(c) # <<b, "created">> /\ Own(c) \in Pinged
            BY DEF Own, Pinged
          <5>3. QED
            BY <1>0, <5>1, <5>2 DEF SendPing
        <4>2. CASE PingHook(b)
          <5>1. step'[b] \in {"poll", "ended"}
            BY <4>2, Moving DEF PingHook, Outcome
          <5>2. UNCHANGED ping \/ SendPing(<<b, "asked">>, HookOf(b), hooks[HookOf(b)])
            BY <4>2 DEF PingHook
          <5>3. Own(c) # <<b, "asked">> /\ Own(c) \in Pinged
            BY <2>3, <5>1 DEF Own, Pinged
          <5>4. QED
            BY <1>0, <5>2, <5>3 DEF SendPing
        <4>3. CASE ~ CreateHook(b) /\ ~ PingHook(b)
          BY <1>2, <4>3 DEF Runs, AddDeployKey, UpdateHook, Save, RepoInsert, DropHook, DropKey,
             RepoUpdate, DeleteHook, DeleteDeployKey, RemoveFiles, RepoDelete, ReadHook,
             ListDeliveries, FindPing, GiveUpPolling, Kill
        <4>4. QED
          BY <4>1, <4>2, <4>3
      <3>4. QED
        BY <3>2, <3>3
    <2>4. QED
      BY <2>1, <2>2, <2>3 DEF PingsInv, Own
  <1>3. ASSUME NEW b \in Command, Deliver(b)
        PROVE  PingsInv'
    <2>1. PICK p \in {b} \X {"created", "asked"} :
            /\ ping[p] # NoPing /\ UNCHANGED <<ping, step, record>>
            /\ \/ answer' = [answer EXCEPT ![p] = Answer(ping[p])]
               \/ answer' = [answer EXCEPT ![p] = "unreached"]
      BY <1>3 DEF Deliver
    <2>2. p \in Pinged /\ answer'[p] # "none"
      BY <1>0, <2>1 DEF Pinged, Answer
    <2>3. \A q \in Pinged : q # p => answer'[q] = answer[q]
      BY <1>0, <2>1, <2>2
    <2>4. \A i \in DOMAIN record : record[i] \in Pinged
      BY <1>0
    <2>5. QED
      BY <2>1, <2>2, <2>3, <2>4 DEF PingsInv, Own
  <1>6. ASSUME NEW b \in Command, RecordPing(b)
        PROVE  PingsInv'
    <2>1. PICK p \in {b} \X {"created", "asked"} :
            /\ answer[p] # "none" /\ UNCHANGED <<ping, answer, step>>
            /\ record' = Append(record, p)
      BY <1>6 DEF RecordPing
    <2>2. p \in Pinged
      BY <2>1 DEF Pinged
    <2>3. \A i \in DOMAIN record' : record'[i] = p \/ (i \in DOMAIN record /\ record'[i] = record[i])
      BY <1>0, <2>1, <2>2
    <2>4. QED
      BY <2>1, <2>3 DEF PingsInv, Own
  <1>4. ASSUME Misdirect \/ DeleteByHand
        PROVE  PingsInv'
    BY <1>4 DEF Misdirect, DeleteByHand, Meddle, PingsInv, Own
  <1>5. QED
    BY <1>1, <1>2, <1>3, <1>4, <1>6, StepCases DEF Handles

LEMMA AloneOnly ==
  ASSUME TypeOK, NEW b \in Command, Marking(b), NEW c \in Command
  PROVE  marks'[c].alone <=> marks[c].alone
  <1>1. marks \in [Command -> Mark] /\ marks[b] \in Mark
    BY DEF TypeOK, Mark
  <1>2. QED
    BY <1>1 DEF Marking, Smoothly, Struck, Telling, Mark

LEMMA AloneKept ==
  ASSUME TypeOK, StepsInv, OldKeyIsOut, PingsInv, AloneInv, Next
  PROVE  AloneInv'
  <1> SUFFICES ASSUME NEW c \in Command, Active(c)', marks'[c].alone
               PROVE  OnTrack(c)' /\ \A u \in Command : Active(u)' => u = c
    BY DEF AloneInv
  <1>1. ASSUME NEW b \in Command, Begins(b)
        PROVE  OnTrack(c)' /\ \A u \in Command : Active(u)' => u = c
    <2>1. PICK k \in CommandKind : Begin(b, k, First(k))
      BY <1>1, Beginning
    <2>2. \A u \in Command : u # b => (Active(u)' <=> Active(u))
      BY <1>1, OthersStay
    <2>3. c = b
      <3>1. ASSUME c # b, Active(c) PROVE FALSE
        <4>1. marks'[c] = [marks[c] EXCEPT !.alone = FALSE]
          BY <2>1, <3>1 DEF Begin
        <4>2. QED
          BY <4>1 DEF TypeOK
      <3>2. QED
        BY <2>2, <3>1
    <2>4. \A u \in Command : ~ Active(u)
      <3>1. marks'[b] = [Unmarked EXCEPT !.alone = \A u \in Command : ~ Active(u)]
        BY <2>1 DEF Begin, TypeOK
      <3>2. QED
        BY <2>3, <3>1 DEF Unmarked
    <2>5. QED
      BY <1>1, <2>2, <2>3, <2>4, TrackBegun
  <1>2. ASSUME NEW b \in Command, Runs(b)
        PROVE  OnTrack(c)' /\ \A u \in Command : Active(u)' => u = c
    <2>1. Active(b) /\ marks[c].alone
      BY <1>2, Advancing, RunsMark, AloneOnly
    <2>2. \A u \in Command : u # b => (Active(u)' <=> Active(u))
      BY <1>2, OthersStay
    <2>3. c = b /\ OnTrack(c) /\ \A u \in Command : Active(u) => u = c
      BY <2>1, <2>2 DEF AloneInv
    <2>4. OnTrack(c)'
      BY <1>2, <2>3, TrackKept DEF Onward
    <2>5. QED
      BY <2>2, <2>3, <2>4
  <1>3. ASSUME NEW b \in Command, Handles(b)
        PROVE  OnTrack(c)' /\ \A u \in Command : Active(u)' => u = c
    <2>1. UNCHANGED step /\ marks[c].alone
      BY <1>3, RunsMark, AloneOnly DEF Handles, Deliver, RecordPing
    <2>2. OnTrack(c) /\ \A u \in Command : Active(u) => u = c
      BY <2>1 DEF AloneInv
    <2>3. QED
      BY <1>3, <2>1, <2>2, TrackStands
  <1>4. ASSUME Misdirect \/ DeleteByHand
        PROVE  FALSE
    <2>1. marks'[c] = [marks[c] EXCEPT !.alone = FALSE]
      BY <1>4 DEF Misdirect, DeleteByHand, Meddle
    <2>2. QED
      BY <2>1 DEF TypeOK
  <1>5. QED
    BY <1>1, <1>2, <1>3, <1>4, StepCases

LEMMA FreshKept ==
  ASSUME TypeOK, StepsInv, OldKeyIsOut, PingsInv, AloneInv, FreshInv, Next
  PROVE  FreshInv'
  <1> SUFFICES ASSUME NEW c \in Command, c = fresh'
               PROVE  /\ step'[c] = "ended" /\ \A u \in Command : ~ Active(u)'
                      /\ end'[c] = "done" => Reached(c)'
    BY DEF FreshInv
  <1>1. ASSUME NEW b \in Command, Begins(b)
        PROVE  FALSE
    BY <1>1, Beginning, CommandAssumption DEF Begin
  <1>2. ASSUME NEW b \in Command, Runs(b)
        PROVE  /\ step'[c] = "ended" /\ \A u \in Command : ~ Active(u)'
               /\ end'[c] = "done" => Reached(c)'
    <2>1. Active(b)
      BY <1>2, Advancing
    <2>2. c # fresh
      BY <2>1 DEF FreshInv
    <2>3. PICK e \in Ends : End(b, e)
      BY <1>2, <2>2, Advancing DEF Goto
    <2>4. c = b /\ marks[b].alone
      BY <2>3, CommandAssumption DEF End
    <2>5. OnTrack(b) /\ \A u \in Command : Active(u) => u = b
      BY <2>1, <2>4 DEF AloneInv
    <2>6. step'[b] = "ended"
      BY <2>3, Moving
    <2>7. end'[b] = "done" => Reached(b)'
      BY <1>2, <2>5, <2>6, TrackKept DEF Onward
    <2>8. \A u \in Command : ~ Active(u)'
      BY <1>2, <2>5, <2>6, OthersStay
    <2>9. QED
      BY <2>4, <2>6, <2>7, <2>8
  <1>3. ASSUME NEW b \in Command, Handles(b)
        PROVE  /\ step'[c] = "ended" /\ \A u \in Command : ~ Active(u)'
               /\ end'[c] = "done" => Reached(c)'
    <2>1. c = fresh /\ UNCHANGED <<step, end>>
      BY <1>3 DEF Handles, Deliver, RecordPing
    <2>2. /\ step[c] = "ended" /\ \A u \in Command : ~ Active(u)
          /\ end[c] = "done" => Reached(c)
      BY <2>1 DEF FreshInv
    <2>3. QED
      BY <1>3, <2>1, <2>2, TrackStands
  <1>4. ASSUME Misdirect \/ DeleteByHand
        PROVE  FALSE
    BY <1>4, CommandAssumption DEF Misdirect, DeleteByHand, Meddle
  <1>5. QED
    BY <1>1, <1>2, <1>3, <1>4, StepCases

\* What keeps the reports true.
Reporting == Kept /\ PingsInv /\ AloneInv /\ FreshInv

LEMMA ReportingInitially ==
  ASSUME Init
  PROVE  Reporting
  <1>1. Kept
    BY KeptInitially
  <1>2. \A c \in Command : ~ Active(c)
    BY DEF Init
  <1>3. PingsInv
    BY DEF Init, PingsInv, Own, Pinged
  <1>4. AloneInv /\ FreshInv
    BY <1>2, CommandAssumption DEF Init, AloneInv, FreshInv
  <1>5. QED
    BY <1>1, <1>3, <1>4 DEF Reporting

LEMMA ReportingStays ==
  ASSUME Reporting, [Next]_vars
  PROVE  Reporting'
  <1>1. Kept'
    BY KeptStays DEF Reporting
  <1>2. CASE Next
    BY <1>1, <1>2, PingsKept, AloneKept, FreshKept DEF Reporting, Kept
  <1>3. CASE UNCHANGED vars
    <2>1. PingsInv'
      BY <1>3 DEF vars, Reporting, PingsInv, Own
    <2>2. AloneInv' /\ FreshInv'
      BY <1>3 DEF vars, Reporting, AloneInv, FreshInv, OnTrack, Adding, Rotating, Removing,
         Checking, Told, Own, Works, Reached
    <2>3. QED
      BY <1>1, <2>1, <2>2 DEF Reporting
  <1>4. QED
    BY <1>2, <1>3

\* What repo add, repo rotate, repo remove and repo check report is true of a server where
\* nothing else ran and nobody meddled, whatever befell the commands before: after a
\* registration or a rotation a push can be deployed, after a removal nothing that the row
\* named is left, and a check that rests on its own ping is right about the webhook.
THEOREM ReportsAreTrue == Spec => []ReportIsTrue
  <1>1. Init => Reporting
    BY ReportingInitially
  <1>2. Reporting /\ [Next]_vars => Reporting'
    BY ReportingStays
  <1>3. Reporting => ReportIsTrue
    <2> SUFFICES ASSUME Reporting, NEW c \in {fresh} \cap Command, end[c] = "done"
                 PROVE  CASE kind[c] \in {"add", "rotate"} -> Works
                          [] kind[c] = "remove" ->
                                /\ ~ Registered /\ priv = None /\ pub = None
                                /\ hooks[mine[c].hook] = NoHook /\ mine[c].key \notin keys
                          [] kind[c] = "check" ->
                                LET hook == hooks[row.hook]
                                IN CASE Diagnosis(c) = "fine" /\ ~ drift[c] -> hook = Signing(row.secret)
                                     [] Diagnosis(c) = "secret"  -> hook.secret # row.secret
                                     [] Diagnosis(c) = "gone"    -> hook = NoHook
                                     [] OTHER -> TRUE
      BY DEF ReportIsTrue
    <2>1. Reached(c)
      BY DEF Reporting, FreshInv
    <2>2. CASE kind[c] # "check"
      BY <2>1, <2>2 DEF Reached, Reporting, Kept, TypeOK, CommandKind
    <2>3. CASE kind[c] = "check"
      <3>1. /\ row = mine[c]
            /\ rests[c] = None /\ verdict[c] = "failed" => hooks[row.hook] = NoHook
            /\ rests[c] = Own(c) => Told(c)
        BY <2>1, <2>3 DEF Reached
      <3>2. Diagnosis(c) \in {"fine", "secret"} => rests[c] = Own(c)
        BY DEF Diagnosis, Own
      <3>3. Diagnosis(c) = "gone" => rests[c] = None /\ verdict[c] = "failed"
        BY DEF Diagnosis
      <3>4. /\ Diagnosis(c) = "fine" => answer[Own(c)] = "accepted"
            /\ Diagnosis(c) = "secret" => answer[Own(c)] = "unsigned"
        BY DEF Diagnosis, Own
      <3>5. /\ Diagnosis(c) = "fine" => hooks[row.hook] = Signing(row.secret)
            /\ Diagnosis(c) = "secret" => hooks[row.hook].secret # row.secret
            /\ Diagnosis(c) = "gone" => hooks[row.hook] = NoHook
        BY <3>1, <3>2, <3>3, <3>4 DEF Told
      <3>6. QED
        BY <2>3, <3>5
    <2>4. QED
      BY <2>2, <2>3
  <1>4. QED
    BY <1>1, <1>2, <1>3, PTL DEF Spec

=============================================================================
