---------------------------- MODULE MCSelfUpdate ----------------------------
(* Instances of SelfUpdate: three releases, the second of which crashes. *)
EXTENDS SelfUpdate

Releases == 1 .. 3
Second == {2}

=============================================================================
