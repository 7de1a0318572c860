------------------------- MODULE SubscriptionContract -------------------------
(***************************************************************************)
(* What the subscription component promises partners and the operator: a   *)
(* ledger without requests, locks or statements. A subscription is sold    *)
(* together with its bill and the redemption of its promo code, a monthly  *)
(* one is turned into an annual one at most once in the same way, and      *)
(* nothing else ever happens to it.                                        *)
(*                                                                         *)
(* Module Subscription implements this specification.                      *)
(***************************************************************************)
EXTENDS Integers, Sequences

CONSTANTS
  Partners, Subscriptions, Promos,
  MaxRedemptions,  \* [Promos -> Nat], 0 is unlimited
  PromoPlan,       \* [Promos -> plan it is restricted to, or None]
  OpenAt,          \* [Promos -> times at which it is active and valid]
  Term,            \* length of each plan
  Overrun,         \* how far a limit may be exceeded
  None             \* no partner, no plan, no promo code

VARIABLES
  subs,      \* each subscription's partner, plan, end and time of creation
  bills,     \* its bills, oldest first
  redeemed,  \* redemptions of each promo code
  now

vars == <<subs, bills, redeemed, now>>

Plans == {"monthly", "annual"}
NoSub == [partner |-> None, plan |-> None, end |-> 0, created |-> 0]

Init ==
  /\ subs = [s \in Subscriptions |-> NoSub]
  /\ bills = [s \in Subscriptions |-> <<>>]
  /\ redeemed = [p \in Promos |-> 0]
  /\ now = 0

\* A promo code lowers the price of its plan only, of a purchase dated no
\* earlier than some time at which it was valid, until it is used up.
Honoured(promo, plan, at) ==
  promo # None =>
    /\ PromoPlan[promo] \in {None, plan}
    /\ \E t \in 0..at : t \in OpenAt[promo]
    /\ MaxRedemptions[promo] > 0 =>
         redeemed[promo] < MaxRedemptions[promo] + Overrun

\* One more bill of s, and one more redemption of the code that lowered it.
Charge(s, type, plan, promo) ==
  /\ bills' = [bills EXCEPT ![s] =
       Append(@, [type |-> type, plan |-> plan, promo |-> promo])]
  /\ redeemed' = [p \in Promos |-> redeemed[p] + (IF p = promo THEN 1 ELSE 0)]

Sell(s, partner, plan, promo) ==
  /\ subs[s] = NoSub
  /\ \E at \in 0..now :
       /\ Honoured(promo, plan, at)
       /\ subs' = [subs EXCEPT ![s] =
            [partner |-> partner, plan |-> plan, end |-> at + Term[plan],
             created |-> at]]
  /\ Charge(s, "purchase", plan, promo)
  /\ UNCHANGED now

\* The annual plan runs from the day of the upgrade.
Upgrade(s, promo) ==
  /\ subs[s].plan = "monthly"
  /\ \E at \in 0..now :
       /\ Honoured(promo, "annual", at)
       /\ subs' = [subs EXCEPT ![s].plan = "annual", ![s].end = at + Term["annual"]]
  /\ Charge(s, "upgrade", "annual", promo)
  /\ UNCHANGED now

Tick == now' = now + 1 /\ UNCHANGED <<subs, bills, redeemed>>

Next ==
  \/ Tick
  \/ \E s \in Subscriptions, promo \in Promos \cup {None} :
       \/ \E partner \in Partners, plan \in Plans : Sell(s, partner, plan, promo)
       \/ Upgrade(s, promo)

Spec == Init /\ [][Next]_vars
=============================================================================
