------------------------------ MODULE MCSites ------------------------------
(***************************************************************************)
(* Instance of Sites for TLC: a web root, a site in it, and a theme and a  *)
(* cache in the site.                                                      *)
(***************************************************************************)
EXTENDS Sites, TLC

CONSTANTS www, site, theme, cache, root, andrei, r1, r2

MCParentOf == www :> www @@ site :> www @@ theme :> site @@ cache :> site

Short == ".rec-deploy.yml"
Long  == ".rec-deploy.yaml"

\* As it should be, with a setup block; under the other name, spelled otherwise; none at
\* all.  A user can copy in the manifest of r2, or move the origin to it.
MCContents ==
    {[files |-> {Short}, declares |-> <<r1, "a">>, setup |-> TRUE],
     [files |-> {Long}, declares |-> <<r1, "A">>, setup |-> FALSE],
     [files |-> {}, declares |-> None, setup |-> FALSE]}

=============================================================================
