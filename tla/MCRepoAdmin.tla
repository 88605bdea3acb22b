---------------------------- MODULE MCRepoAdmin -----------------------------
(* Instances of RepoAdmin. *)
EXTENDS RepoAdmin, TLC

Symmetry == Permutations(Command)

=============================================================================
