------------------------------- MODULE Ledger -------------------------------
(***************************************************************************)
(* What the receiver promises GitHub and the operator about one delivery,  *)
(* with nothing of how it keeps the promise.                               *)
(*                                                                         *)
(* A delivery (one X-GitHub-Delivery GUID) is taken at most once.  Once it *)
(* is taken it is running until it is given one outcome, which is final:   *)
(* either the verdict of its own deploy, or "interrupted" when a daemon    *)
(* finds that the one before it died.  Webhook.tla implements this.        *)
(***************************************************************************)
CONSTANT Delivery

VARIABLE ledger

Verdict == {"success", "failed", "skipped"}

Entry == {"unseen", "running", "interrupted"} \cup Verdict

Init == ledger = [g \in Delivery |-> "unseen"]

\* A push is accepted: from here on the GUID is spent.
Open(g) ==
    /\ ledger[g] = "unseen"
    /\ ledger' = [ledger EXCEPT ![g] = "running"]

\* The deploy of g ends and its verdict is recorded.
Settle(g) ==
    /\ ledger[g] = "running"
    /\ \E v \in Verdict : ledger' = [ledger EXCEPT ![g] = v]

\* A starting daemon writes off, in one statement, everything still running.
WriteOff ==
    ledger' = [g \in Delivery |->
                 IF ledger[g] = "running" THEN "interrupted" ELSE ledger[g]]

Next ==
    \/ \E g \in Delivery : Open(g) \/ Settle(g)
    \/ WriteOff

Spec == Init /\ [][Next]_ledger

=============================================================================
