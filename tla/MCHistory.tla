----------------------------- MODULE MCHistory -----------------------------
(* Instances of History: two checkouts, on one branch or on two. *)
EXTENDS History, TLC

TwoPaths == 1 .. 2
OnePath == {1}
TwoBranches == 1 .. 2
OneBranch == {1}
EachItsOwn == [p \in {1, 2} |-> p]
OnlyOne == [p \in {1} |-> 1]

Symmetry == Permutations(Worker)

=============================================================================
