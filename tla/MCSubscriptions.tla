-------------------------- MODULE MCSubscriptions --------------------------
(* Subscriptions for TLC, with its inductive invariant and its service. *)
EXTENDS SubscriptionRefinement
=============================================================================
