----------------------------- MODULE MCCheckout -----------------------------
(***************************************************************************)
(* Instances of Checkout for TLC.                                          *)
(***************************************************************************)
EXTENDS Checkout, TLC

CONSTANTS p1, p2, main, dev, w1, w2

Plain     == [file |-> "ok", setup |-> FALSE, rollback |-> FALSE, lenient |-> FALSE]
Careful   == [file |-> "ok", setup |-> FALSE, rollback |-> TRUE, lenient |-> FALSE]
WithSetup == [file |-> "ok", setup |-> TRUE, rollback |-> TRUE, lenient |-> FALSE]
Empty     == [file |-> "ok", setup |-> FALSE, rollback |-> TRUE, lenient |-> TRUE]
Broken    == [file |-> "broken", setup |-> FALSE, rollback |-> FALSE, lenient |-> FALSE]
Missing   == [Broken EXCEPT !.file = "missing"]

\* For safety: pushes that undo themselves and pushes that cannot be deployed.
MCCarefulOrBroken == {Careful, Broken}

\* For the fan-out: a tree that is left where it failed, and one that is put back.
MCPlainOrCareful == {Plain, Careful}

\* For termination: every way a scan and a pipeline can come out.
MCOddOnes == {Careful, Empty, Missing}

\* One checkout, on main; dev is not checked out here.
MCOnePath == p1 :> main

\* Two checkouts of main.
MCTwoPaths == (p1 :> main) @@ (p2 :> main)

MCInitialCommits ==
    <<[branch |-> dev, manifest |-> Plain], [branch |-> main, manifest |-> Plain]>>

MCOneCommit == <<[branch |-> main, manifest |-> WithSetup]>>

Interchangeable == Permutations({w1, w2})
InterchangeableBoth == Permutations({w1, w2}) \cup Permutations({p1, p2})

=============================================================================
