----------------------------- MODULE RepoAdmin ------------------------------
(***************************************************************************)
(* Registering, rotating, checking and removing a repository: cmd/repo.go  *)
(* and cmd/repo_check.go over internal/github, internal/sshkey and the     *)
(* repos table.                                                            *)
(*                                                                         *)
(* One repository.  A command of the operator is one process; nothing      *)
(* keeps two of them apart.  Each one mints at most one key pair and one   *)
(* secret, and `repo add` one URL token and one webhook, so a deploy key,  *)
(* a secret and a webhook all go by the name of the command that made      *)
(* them.                                                                   *)
(*                                                                         *)
(* A registration lives in four places, GitHub's deploy keys, GitHub's     *)
(* webhooks, the key files and the row, and no transaction spans them.     *)
(* One action is one API call (Client.do with all its attempts), one SQL   *)
(* statement or one run over the key files; a command may be killed        *)
(* between any two.                                                        *)
(***************************************************************************)
EXTENDS Naturals, Sequences, FiniteSets

CONSTANTS
    Command,      \* the commands the operator runs
    MaxCommands,  \* bound on the commands that are run
    MaxTogether,  \* bound on the commands that run at one time
    MaxTrouble,   \* bound on calls and writes that fail, kills, and changes made by hand
    None          \* no key, no file, no command

ASSUME CommandAssumption ==
    /\ None \notin Command \cup (Command \X {"created", "asked"})
    /\ IsFiniteSet(Command)
ASSUME BoundAssumption == {MaxCommands, MaxTogether, MaxTrouble} \subseteq Nat

VARIABLES
    keys,      \* the deploy keys GitHub holds
    hooks,     \* the webhooks GitHub holds: what each signs with, and whether it is
               \* active and aimed at the address this server has now
    listed,    \* whether the repository still exists at GitHub
    priv, pub, \* the two files of the key pair
    row,       \* the row of repos
    step,      \* what each command does next
    kind,      \* which command it is
    mine,      \* the row as the command read it, with what it has changed in its copy
    drift,     \* checkRepo's drift
    seen,      \* VerifyHook's seen: the pings recorded before its own
    ping,      \* the pings GitHub was made to send, as it signed them
    answer,    \* what the daemon made of each
    record,    \* the answered pings GitHub lists, in its order
    verdict,   \* Reachability.State
    rests,     \* Reachability.Delivery: whose ping the verdict rests on
    end,       \* how the command ended
    marks,     \* history: what befell the command
    fresh,     \* history: the last command to end, if nothing happened since
    trouble

github  == <<keys, hooks, listed>>
files   == <<priv, pub>>
command == <<mine, drift, seen, verdict, rests>>
pings   == <<ping, answer, record>>
vars    == <<github, files, row, step, kind, command, pings, end, marks, fresh, trouble>>

\* A webhook is pinged once when it is created, and once for every check that asks.
Pinged == Command \X {"created", "asked"}

NoRow  == [secret |-> None, key |-> None, hook |-> None]
NoHook == [secret |-> None, aimed |-> FALSE]
NoPing == [hook |-> None, secret |-> None, aimed |-> FALSE]

Registered == row # NoRow

\* The webhook a command is about.
HookOf(c) == IF kind[c] = "add" THEN c ELSE mine[c].hook

Active(c) == step[c] \notin {"idle", "before", "ended"}

\* A webhook is created and rewritten as a whole: active, and aimed here.
Signing(secret) == [secret |-> secret, aimed |-> TRUE]

\* Nothing befell the command yet.
Unmarked == [hit |-> FALSE, lost |-> FALSE, stray |-> FALSE, alone |-> TRUE]

\* Nothing is registered yet, or one command registered the repository before.
Init ==
    /\ \E first \in Command \cup {None} :
         /\ keys = {first} \ {None} /\ priv = first
         /\ hooks = [c \in Command |-> IF c = first THEN Signing(c) ELSE NoHook]
         /\ row = [secret |-> first, key |-> first, hook |-> first]
         /\ step = [c \in Command |-> IF c = first THEN "before" ELSE "idle"]
    /\ listed = TRUE /\ pub = priv /\ kind = [c \in Command |-> "add"]
    /\ mine = [c \in Command |-> NoRow] /\ drift = [c \in Command |-> FALSE]
    /\ seen = [c \in Command |-> {}]
    /\ ping = [p \in Pinged |-> NoPing] /\ answer = [p \in Pinged |-> "none"]
    /\ record = <<>>
    /\ verdict = [c \in Command |-> "unknown"] /\ rests = [c \in Command |-> None]
    /\ end = [c \in Command |-> "none"] /\ marks = [c \in Command |-> Unmarked]
    /\ fresh = None /\ trouble = 0

-----------------------------------------------------------------------------
(* Moving on, and what can go wrong *)

Goto(c, s) == step' = [step EXCEPT ![c] = s] /\ UNCHANGED <<end, fresh>>

\* The command returns; its report stands until something else happens.
End(c, e) ==
    /\ step' = [step EXCEPT ![c] = "ended"]
    /\ end' = [end EXCEPT ![c] = e]
    /\ fresh' = IF marks[c].alone THEN c ELSE None

Smoothly == UNCHANGED <<marks, trouble>>

Struck(c, mark) ==
    /\ trouble < MaxTrouble /\ trouble' = trouble + 1
    /\ marks' = [marks EXCEPT ![c] = mark]

\* A write to the disk or to the database fails.
Failing(c) == Struck(c, [marks[c] EXCEPT !.hit = TRUE])

\* How Client.do ends, all attempts included.  lost: GitHub has done it, but no answer came
\* through, or a POST was repeated for a lost answer and the second copy refused with a
\* 422.  missing: GitHub does not have it, ErrNotFound.
Outcome == {"ok", "lost", "failed", "missing"}
Done    == {"ok", "lost"}

LosingAnswer(c) == Struck(c, [marks[c] EXCEPT !.hit = TRUE, !.lost = TRUE])

Answers(c, out, there) ==
    /\ there <=> out # "missing"
    /\ \/ out \in {"ok", "missing"} /\ Smoothly
       \/ out = "failed" /\ Failing(c)
       \/ out = "lost" /\ LosingAnswer(c)

Telling(c) == marks' = [marks EXCEPT ![c] = [marks[c] EXCEPT !.stray = TRUE]]

\* The same while a command cleans up after itself: it tells of whatever it could not delete.
AnswersUndo(c, out, there) ==
    /\ there <=> out # "missing"
    /\ \/ out = "ok" /\ Smoothly
       \/ out = "missing" /\ Telling(c) /\ UNCHANGED trouble
       \/ out \in {"lost", "failed"} /\ Struck(c, [marks[c] EXCEPT !.stray = TRUE])

-----------------------------------------------------------------------------
(* The commands start *)

\* A command reads the row, the operator says yes, and it runs beside whatever runs already.
Begin(c, k, first) ==
    /\ step[c] = "idle"
    /\ Cardinality({v \in Command : Active(v)}) < MaxTogether
    /\ Cardinality({v \in Command : step[v] \notin {"idle", "before"}}) < MaxCommands
    /\ kind' = [kind EXCEPT ![c] = k]
    /\ mine' = [mine EXCEPT ![c] = row]
    /\ marks' = [v \in Command |->
         IF v = c THEN [Unmarked EXCEPT !.alone = \A u \in Command : ~ Active(u)]
         ELSE IF Active(v) THEN [marks[v] EXCEPT !.alone = FALSE] ELSE marks[v]]
    /\ step' = [step EXCEPT ![c] = first]
    /\ fresh' = None
    /\ UNCHANGED <<github, files, row, drift, seen, verdict, rests, pings, end, trouble>>

\* Refused when the slug is registered already.
BeginAdd(c) == ~ Registered /\ Begin(c, "add", "addKey")

\* registeredRepo: the other commands need the row.
HasRow_Unasked == TRUE
HasRow == Registered

BeginRotate(c) == HasRow /\ Begin(c, "rotate", "addKey")
BeginRemove(c) == HasRow /\ Begin(c, "remove", "deleteHook")
BeginCheck(c)  == HasRow /\ Begin(c, "check", "readHook")

-----------------------------------------------------------------------------
(* repo add and repo rotate: the new pair *)

\* AddDeployKey.  A lost answer leaves a key nobody knows the id of.
AddDeployKey(c) ==
    /\ step[c] = "addKey"
    /\ \E out \in Outcome :
         /\ Answers(c, out, listed)
         /\ keys' = IF out \in Done THEN keys \cup {c} ELSE keys
         /\ IF out # "ok" THEN End(c, "refused")
            ELSE Goto(c, IF kind[c] = "add" THEN "createHook" ELSE "updateHook")
    /\ UNCHANGED <<hooks, listed, files, row, kind, command, pings>>

\* GitHub sends ping p of webhook h, signed with the secret the webhook has now.
SendPing(p, h, hook) ==
    ping' = [ping EXCEPT ![p] = [hook |-> h, secret |-> hook.secret, aimed |-> hook.aimed]]

CreateHook(c) ==
    /\ step[c] = "createHook"
    /\ \E out \in Outcome :
         /\ Answers(c, out, listed)
         /\ IF out \in Done
            THEN /\ hooks' = [hooks EXCEPT ![c] = Signing(c)]
                 /\ SendPing(<<c, "created">>, c, Signing(c))
            ELSE UNCHANGED <<hooks, ping>>
         /\ Goto(c, IF out = "ok" THEN "save" ELSE "dropKey")
    /\ UNCHANGED <<keys, listed, files, row, kind, command, answer, record>>

\* rotateRepo signs the webhook with the new secret, repairHook with the one it read when it
\* started.
SecretFor(c) == IF kind[c] = "rotate" THEN c ELSE mine[c].secret

\* UpdateHook; a rotation drops its new key when that fails.
UpdateHook(c) ==
    /\ step[c] = "updateHook"
    /\ LET h == mine[c].hook
       IN \E out \in Outcome :
            /\ Answers(c, out, hooks[h] # NoHook)
            /\ hooks' = IF out \in Done THEN [hooks EXCEPT ![h] = Signing(SecretFor(c))]
                        ELSE hooks
            /\ IF kind[c] = "rotate" THEN Goto(c, IF out = "ok" THEN "save" ELSE "dropKey")
               ELSE IF out = "ok" THEN Goto(c, "list") ELSE End(c, "failed")
    /\ UNCHANGED <<keys, listed, files, row, kind, command, pings>>

\* sshkey.Save removes the old private key, writes the new one, then the public key.
Save(c) ==
    /\ step[c] = "save"
    /\ \/ /\ Smoothly
          /\ priv' = c /\ pub' = c
          /\ Goto(c, IF kind[c] = "add" THEN "insert" ELSE "update")
       \/ /\ Failing(c)
          /\ priv' \in {priv, None, c} /\ pub' \in IF priv' = c THEN {pub, None} ELSE {pub}
          /\ IF kind[c] = "add" THEN Goto(c, "dropHook") ELSE End(c, "failed")
    /\ UNCHANGED <<github, row, kind, command, pings>>

\* RepoInsert, which the UNIQUE slug refuses when another command has registered it by now;
\* repoAdd then removes the key files, whoever wrote them.
RepoInsert(c) ==
    /\ step[c] = "insert"
    /\ \/ /\ ~ Registered /\ Smoothly
          /\ row' = [secret |-> c, key |-> c, hook |-> c]
          /\ Goto(c, "list") \/ End(c, "done")  \* --skip-check
          /\ UNCHANGED files
       \/ /\ Failing(c) \/ (Registered /\ Smoothly)
          /\ priv' \in {None, priv} /\ pub' \in IF priv' = None THEN {None, pub} ELSE {pub}
          /\ Goto(c, "dropHook")
          /\ UNCHANGED row
    /\ UNCHANGED <<github, kind, command, pings>>

\* abortAdd: the webhook first, then the key, on a context of its own.
DropHook(c) ==
    /\ step[c] = "dropHook"
    /\ \E out \in Outcome :
         /\ AnswersUndo(c, out, hooks[c] # NoHook)
         /\ hooks' = IF out \in Done THEN [hooks EXCEPT ![c] = NoHook] ELSE hooks
    /\ Goto(c, "dropKey")
    /\ UNCHANGED <<keys, listed, files, row, kind, command, pings>>

Left_Behind(c, out) == keys
Left(c, out) == IF out \in Done THEN keys \ {c} ELSE keys

DropKey(c) ==
    /\ step[c] = "dropKey"
    /\ \E out \in Outcome :
         /\ AnswersUndo(c, out, c \in keys)
         /\ keys' = Left(c, out)
    /\ End(c, "undone")
    /\ UNCHANGED <<hooks, listed, files, row, kind, command, pings>>

Rotated_SecretOnly(c) == [mine[c] EXCEPT !.secret = c]
Rotated(c) == [mine[c] EXCEPT !.secret = c, !.key = c]

\* The UPDATE is matched on the id alone.  SQLite may give a freed id out again, so the row
\* of a later registration has it or not; a row without it stays as it is, with no error.
Updated(c) ==
    IF ~ Registered THEN {row}
    ELSE IF row.hook = mine[c].hook THEN {Rotated(c)} ELSE {Rotated(c), row}

RepoUpdate_Swallowed(c) ==
    /\ step[c] = "update"
    /\ \/ Smoothly /\ row' \in Updated(c)
       \/ Failing(c) /\ UNCHANGED row
    /\ Goto(c, "deleteKey")
    /\ UNCHANGED <<github, files, kind, command, pings>>

RepoUpdate(c) ==
    /\ step[c] = "update"
    /\ \/ /\ Smoothly
          /\ row' \in Updated(c)
          /\ Goto(c, "deleteKey")
       \/ /\ Failing(c)
          /\ End(c, "failed")
          /\ UNCHANGED row
    /\ UNCHANGED <<github, files, kind, command, pings>>

-----------------------------------------------------------------------------
(* repo remove: deleteRepoArtifacts *)

Forgettable_OkOnly == {"ok"}
Forgettable == {"ok", "missing"}

\* What is not there any more counts as deleted; any other error ends the command.
DeleteHook(c) ==
    /\ step[c] = "deleteHook"
    /\ LET h == mine[c].hook
       IN \E out \in Outcome :
            /\ Answers(c, out, hooks[h] # NoHook)
            /\ hooks' = IF out \in Done THEN [hooks EXCEPT ![h] = NoHook] ELSE hooks
            /\ IF out \in Forgettable THEN Goto(c, "deleteKey") ELSE End(c, "failed")
    /\ UNCHANGED <<keys, listed, files, row, kind, command, pings>>

\* After a rotation the old key is dead weight: failing to delete it is a warning.
DeleteDeployKey(c) ==
    /\ step[c] = "deleteKey"
    /\ \E out \in Outcome :
         /\ Answers(c, out, mine[c].key \in keys)
         /\ keys' = IF out \in Done THEN keys \ {mine[c].key} ELSE keys
         /\ IF kind[c] = "rotate" THEN Goto(c, "list")
            ELSE IF out \in Forgettable THEN Goto(c, "removeFiles") ELSE End(c, "failed")
    /\ UNCHANGED <<hooks, listed, files, row, kind, command, pings>>

\* sshkey.Remove: the private key, then the public one.
RemoveFiles(c) ==
    /\ step[c] = "removeFiles"
    /\ \/ Smoothly /\ priv' = None /\ pub' = None /\ Goto(c, "deleteRow")
       \/ Failing(c) /\ priv' \in {None, priv} /\ pub' = pub /\ End(c, "failed")
    /\ UNCHANGED <<github, row, kind, command, pings>>

RepoDelete(c) ==
    /\ step[c] = "deleteRow"
    /\ \/ Smoothly /\ row' = NoRow /\ End(c, "done")
       \/ Failing(c) /\ UNCHANGED row /\ End(c, "failed")
    /\ UNCHANGED <<github, files, kind, command, pings>>

-----------------------------------------------------------------------------
(* repo check, and the check that ends repo add and repo rotate *)

\* hookDrift; a webhook that is not there has not drifted.
Drifted(hook) == hook # NoHook /\ ~ hook.aimed

\* checkRepo compares GitHub's copy with what this server would register; a drifted one
\* is reported, or, with --repair and unless the operator says no, rewritten.
ReadHook(c) ==
    /\ step[c] = "readHook"
    /\ LET hook == hooks[mine[c].hook]
       IN \E out \in Outcome \ {"lost"} :
            /\ Answers(c, out, hook # NoHook)
            /\ \/ /\ out # "failed"
                  /\ drift' = [drift EXCEPT ![c] = Drifted(hook)]
                  /\ Goto(c, "list")
               \/ /\ out = "ok" /\ Drifted(hook)
                  /\ Goto(c, "updateHook") \/ End(c, "refused")
                  /\ UNCHANGED drift
               \/ out = "failed" /\ End(c, "failed") /\ UNCHANGED drift
    /\ UNCHANGED <<github, files, row, kind, mine, seen, verdict, rests, pings>>

\* VerifyHook ends with a verdict, and the command with it; webhookExit makes an error of a
\* failed one, and undoes nothing.
Conclude(c, v, delivery) ==
    /\ verdict' = [verdict EXCEPT ![c] = v]
    /\ rests' = [rests EXCEPT ![c] = delivery]
    /\ seen' = [seen EXCEPT ![c] = {}]
    /\ End(c, "done")
    /\ UNCHANGED <<mine, drift>>

Recorded(h) == {p \in Pinged : \E i \in DOMAIN record : record[i] = p /\ ping[p].hook = h}

\* The deliveries GitHub lists before the ping is asked for.
ListDeliveries(c) ==
    /\ step[c] = "list"
    /\ \E out \in Outcome \ {"lost"} :
         /\ Answers(c, out, hooks[HookOf(c)] # NoHook)
         /\ CASE out = "ok" -> /\ seen' = [seen EXCEPT ![c] = Recorded(HookOf(c))]
                               /\ Goto(c, "ping")
                               /\ UNCHANGED <<mine, drift, verdict, rests>>
              [] out = "missing" -> Conclude(c, "failed", None)
              [] out = "failed"  -> Conclude(c, "unknown", None)
    /\ UNCHANGED <<github, files, row, kind, pings>>

PingHook(c) ==
    /\ step[c] = "ping"
    /\ LET h == HookOf(c)
       IN \E out \in Outcome :
            /\ Answers(c, out, hooks[h] # NoHook)
            /\ IF out \in Done THEN SendPing(<<c, "asked">>, h, hooks[h]) ELSE UNCHANGED ping
            /\ CASE out = "ok" -> Goto(c, "poll") /\ UNCHANGED command
                 [] out = "missing" -> Conclude(c, "failed", None)
                 [] out \in {"lost", "failed"} -> Conclude(c, "unknown", None)
    /\ UNCHANGED <<github, files, row, kind, answer, record>>

\* What becomes of a ping: nobody answers it, the path names no registration (404), the
\* signature is not made with its secret (401), or it is accepted (200).
Answer(p) ==
    IF ~ p.aimed THEN "unreached"
    ELSE IF row.hook # p.hook THEN "unknown"
    ELSE IF row.secret # p.secret THEN "unsigned" ELSE "accepted"

\* GitHub sends a ping when it gets to it, and lists it, with the answer, some time later.
Deliver(c) ==
    /\ \E p \in {c} \X {"created", "asked"} :
         /\ ping[p] # NoPing /\ answer[p] = "none"
         /\ \/ Smoothly /\ answer' = [answer EXCEPT ![p] = Answer(ping[p])]
            \/ Failing(c) /\ answer' = [answer EXCEPT ![p] = "unreached"]  \* a firewall
    /\ UNCHANGED <<github, files, row, step, kind, command, ping, record, end, fresh>>

RecordPing(c) ==
    /\ \E p \in {c} \X {"created", "asked"} :
         /\ answer[p] # "none" /\ \A i \in DOMAIN record : record[i] # p
         /\ record' = Append(record, p)
    /\ Smoothly
    /\ UNCHANGED <<github, files, row, step, kind, command, ping, answer, end, fresh>>

\* The newest ping on record that was not on the list before is taken for the one this
\* check asked for, whoever asked for it.
FindPing(c) ==
    /\ step[c] = "poll" /\ hooks[HookOf(c)] # NoHook
    /\ \E i \in DOMAIN record :
         LET new(j) == ping[record[j]].hook = HookOf(c) /\ record[j] \notin seen[c]
         IN /\ new(i) /\ \A j \in DOMAIN record : new(j) => j <= i
            /\ Conclude(c, IF answer[record[i]] = "accepted" THEN "reachable" ELSE "failed",
                        record[i])
    /\ Smoothly
    /\ UNCHANGED <<github, files, row, kind, pings>>

\* The budget runs out, or Ctrl+C ends the wait.
GiveUpPolling(c) ==
    /\ step[c] = "poll"
    /\ \E v \in {"pending", "unknown"} : Conclude(c, v, None)
    /\ Smoothly
    /\ UNCHANGED <<github, files, row, kind, pings>>

-----------------------------------------------------------------------------
(* What else happens *)

Kill(c) ==
    /\ Active(c) /\ Failing(c) /\ End(c, "killed")
    /\ UNCHANGED <<github, files, row, kind, command, pings>>

Meddle ==
    /\ trouble < MaxTrouble /\ trouble' = trouble + 1
    /\ marks' = [v \in Command |->
                   IF Active(v) THEN [marks[v] EXCEPT !.alone = FALSE] ELSE marks[v]]
    /\ fresh' = None
    /\ UNCHANGED <<files, row, step, kind, command, pings, end>>

\* public_url changes, or somebody deactivates the webhook: it delivers nothing here.
Misdirect ==
    /\ Meddle
    /\ \E h \in Command : /\ hooks[h].aimed
                          /\ hooks' = [hooks EXCEPT ![h].aimed = FALSE]
    /\ UNCHANGED <<keys, listed>>

\* Somebody deletes the webhook at GitHub, or the whole repository.
DeleteByHand ==
    /\ Meddle
    /\ \/ /\ \E h \in Command : hooks[h] # NoHook /\ hooks' = [hooks EXCEPT ![h] = NoHook]
          /\ UNCHANGED <<keys, listed>>
       \/ listed /\ listed' = FALSE /\ keys' = {} /\ hooks' = [h \in Command |-> NoHook]

CommandKind == {"add", "rotate", "remove", "check"}

Step(c) ==
    \/ BeginAdd(c) \/ BeginRotate(c) \/ BeginRemove(c) \/ BeginCheck(c)
    \/ AddDeployKey(c) \/ CreateHook(c) \/ UpdateHook(c) \/ Save(c) \/ RepoInsert(c)
    \/ DropHook(c) \/ DropKey(c) \/ RepoUpdate(c)
    \/ DeleteHook(c) \/ DeleteDeployKey(c) \/ RemoveFiles(c) \/ RepoDelete(c)
    \/ ReadHook(c) \/ ListDeliveries(c) \/ PingHook(c) \/ FindPing(c) \/ GiveUpPolling(c)
    \/ Deliver(c) \/ RecordPing(c) \/ Kill(c)

Next == (\E c \in Command : Step(c)) \/ Misdirect \/ DeleteByHand

Spec == Init /\ [][Next]_vars

-----------------------------------------------------------------------------
(* Properties *)

Row  == [secret : Command, key : Command, hook : Command] \cup {NoRow}
Hook == [secret : Command, aimed : BOOLEAN] \cup {NoHook}
Ping == [hook : Command, secret : Command, aimed : BOOLEAN] \cup {NoPing}

TypeOK ==
    /\ keys \subseteq Command /\ hooks \in [Command -> Hook] /\ listed \in BOOLEAN
    /\ {priv, pub, fresh} \subseteq Command \cup {None} /\ row \in Row
    /\ rests \in [Command -> Pinged \cup {None}]
    /\ step \in [Command ->
         {"idle", "before", "addKey", "createHook", "updateHook", "save", "insert", "dropHook", "dropKey",
          "update", "deleteHook", "deleteKey", "removeFiles", "deleteRow", "readHook", "list",
          "ping", "poll", "ended"}]
    /\ kind \in [Command -> CommandKind] /\ mine \in [Command -> Row]
    /\ \A c \in Command : Active(c) /\ kind[c] # "add" => mine[c] # NoRow
    /\ drift \in [Command -> BOOLEAN] /\ seen \in [Command -> SUBSET Pinged]
    /\ ping \in [Pinged -> Ping] /\ record \in Seq(Pinged)
    /\ answer \in [Pinged -> {"none", "unreached", "unknown", "unsigned", "accepted"}]
    /\ verdict \in [Command -> {"unknown", "reachable", "failed", "pending"}]
    /\ end \in [Command -> {"none", "refused", "undone", "failed", "done", "killed"}]
    /\ marks \in [Command -> [hit : BOOLEAN, lost : BOOLEAN, stray : BOOLEAN, alone : BOOLEAN]]
    /\ trouble \in 0 .. MaxTrouble

\* rotateRepo uploads the new key before it deletes the old one: while the repository exists,
\* GitHub holds the key the row names, however commands overlap, fail and are killed.  Only
\* a removal that has got that far takes it away.
RowKeyIsThere ==
    Registered /\ listed =>
        \/ row.key \in keys
        \/ \E c \in Command : /\ kind[c] = "remove" /\ mine[c].key = row.key
                              /\ step[c] \in {"deleteKey", "removeFiles", "deleteRow", "ended"}

\* abortAdd: a registration or a rotation that was undone, told of nothing it could not undo
\* and lost no answer has left nothing of itself at GitHub and nothing in the row, whatever
\* ran beside it; a rotation has not touched the key files either.
UndoneLeavesNothing ==
    \A c \in Command :
        end[c] = "undone" /\ ~ marks[c].lost /\ ~ marks[c].stray =>
            /\ c \notin keys /\ hooks[c] = NoHook /\ \A h \in Command : hooks[h].secret # c
            /\ c \notin {row.secret, row.key, row.hook}
            /\ kind[c] = "rotate" => priv # c /\ pub # c

\* diagnoseWebhook, of the delivery the verdict rests on.
Diagnosis(c) ==
    LET own  == <<c, "asked">>
        from == IF rests[c] = own THEN answer[own] ELSE "none"
    IN IF verdict[c] \in {"pending", "unknown"} THEN "no verdict"
       ELSE IF rests[c] = None /\ verdict[c] = "failed" THEN "gone"
       ELSE CASE from = "accepted"  -> "fine"
              [] from = "unsigned"  -> "secret"
              [] from = "unknown"   -> "address"
              [] from = "unreached" -> "firewall"
              [] OTHER -> "another's ping"

\* Everything a push needs to be deployed.
Works ==
    /\ Registered
    /\ hooks[row.hook] = Signing(row.secret)
    /\ priv = row.key /\ pub = row.key /\ row.key \in keys

\* What a command reports is true while nothing else ran or was changed by hand: after a
\* registration or a rotation a push can be deployed; after a removal nothing that the row
\* named is left anywhere; and a check is right about the webhook, where its verdict rests
\* on its own ping.
ReportIsTrue ==
    \A c \in {fresh} \cap Command :
        end[c] = "done" =>
            CASE kind[c] \in {"add", "rotate"} -> Works
              [] kind[c] = "remove" ->
                    /\ ~ Registered /\ priv = None /\ pub = None
                    /\ hooks[mine[c].hook] = NoHook /\ mine[c].key \notin keys
              [] kind[c] = "check" ->
                    LET hook == hooks[row.hook]
                    IN CASE Diagnosis(c) = "fine" /\ ~ drift[c] -> hook = Signing(row.secret)
                         [] Diagnosis(c) = "secret"  -> hook.secret # row.secret
                         [] Diagnosis(c) = "gone"    -> hook = NoHook
                         [] OTHER -> TRUE

\* A removal succeeds unless something failed in it, whatever is already gone: it can always
\* be run again, also after the repository was deleted at GitHub.
RemovalCanBeRepeated ==
    \A c \in Command : kind[c] = "remove" /\ end[c] = "failed" => marks[c].hit

\* VerifyHook "triggers its own ping rather than reading the one GitHub sends when a hook is
\* created", which, arriving before the row, "is answered 404, which would report a healthy
\* server as broken": a webhook in working order is not called broken on account of a ping
\* the check did not ask for.
VerdictIsOwn ==
    \A c \in Command : Works /\ verdict[c] = "failed" => rests[c] \in {<<c, "asked">>, None}

=============================================================================
