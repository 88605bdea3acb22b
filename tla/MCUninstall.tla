---------------------------- MODULE MCUninstall ----------------------------
(***************************************************************************)
(* Instance of Uninstall for TLC.                                          *)
(***************************************************************************)
EXTENDS Uninstall, TLC

CONSTANTS r1, r2

InterchangeableRepos == Permutations({r1, r2})

=============================================================================
