----------------------------- MODULE MCWebhook ------------------------------
(***************************************************************************)
(* Instances of Webhook for TLC.                                           *)
(***************************************************************************)
EXTENDS Webhook, TLC

CONSTANTS g1, g2, t1, t2, c1, c2, c3

\* Two deliveries of one registered repository.
MCTokenOf == (g1 :> t1) @@ (g2 :> t1)

\* One delivery for each of two registrations.
MCTokenOfTwo == (g1 :> t1) @@ (g2 :> t2)

InterchangeableConns == Permutations({c1, c2, c3})

=============================================================================
