---------------------------- MODULE MCSubscription ----------------------------
(***************************************************************************)
(* Small instances of Subscription for TLC.                                *)
(***************************************************************************)
EXTENDS Subscription, TLC

\* One promo code for annual plans, to be redeemed once, that expires.
CONSTANT promo
AnnualOnly == [p \in {promo} |-> "annual"]
Once == [p \in {promo} |-> 1]
EarlyOnly == [p \in {promo} |-> {0}]

\* An annual plan outlives the run, a monthly one does not.
Terms == [plan \in Plans |-> IF plan = "monthly" THEN 1 ELSE 4]

Symmetry ==
  Permutations(Partners) \cup Permutations(Requests) \cup Permutations(Subscriptions)
=============================================================================
