----------------------------- MODULE Subscription -----------------------------
(***************************************************************************)
(* Partner subscriptions, their billing history and promo codes            *)
(* (src/internal/service/subscription_service.go and                       *)
(* src/internal/repository/subscription_repository.go).                    *)
(*                                                                         *)
(* As in module Booking a request slot serves one call after another and a *)
(* step is one SQL statement, or the last ones of a transaction with its   *)
(* COMMIT. Amounts are left out: nothing reads them back. No code gives a  *)
(* subscription another status than active, so the status is left out too: *)
(* every row of a partner matches "status = active". Promo codes are       *)
(* entered from outside; here they are constants and only the count of     *)
(* their redemptions changes.                                              *)
(*                                                                         *)
(* Operators whose name begins with Faulty are plausible bugs that show    *)
(* what the properties tell apart, as in module Booking.                   *)
(***************************************************************************)
EXTENDS Naturals, Sequences, FiniteSets

CONSTANTS
  Partners, Requests,
  Subscriptions,   \* subscription ids (bounds their number)
  Promos,          \* promo codes
  MaxRedemptions,  \* [Promos -> Nat], 0 is unlimited
  PromoPlan,       \* [Promos -> plan it is restricted to, or None]
  OpenAt,          \* [Promos -> times at which it is active and valid]
  Term,            \* [Plans -> length in ticks]
  MaxTime,         \* bounds the clock
  Faults,          \* whether calls may fail half-way
  None             \* NULL

Plans == {"monthly", "annual"}

ASSUME RequestsAssumption == IsFiniteSet(Requests) /\ None \notin Requests
ASSUME PartnersAssumption == None \notin Partners
ASSUME PromoAssumption ==
  /\ None \notin Promos
  /\ MaxRedemptions \in [Promos -> Nat]
  /\ PromoPlan \in [Promos -> Plans \cup {None}]
  /\ OpenAt \in [Promos -> SUBSET Nat]
ASSUME TermAssumption == Term \in [Plans -> Nat] /\ MaxTime \in Nat
ASSUME FaultsAssumption == Faults \in BOOLEAN

VARIABLES
  subs,      \* partner_subscriptions rows
  bills,     \* subscription_transactions of each subscription, oldest first
  redeemed,  \* redeemed count of each promo code
  lock,      \* request holding a subscription row's lock, or None
  pc, call,  \* next statement of each request, and the call it serves
  now        \* wall clock

vars == <<subs, bills, redeemed, lock, pc, call, now>>

NoSub == [partner |-> None, plan |-> None, end |-> 0, created |-> 0]
NoCall == [op |-> None, partner |-> None, plan |-> None, promo |-> None,
           sub |-> None, at |-> 0]
PCs == {"idle", "check", "promo", "insert", "load", "lock", "store"}

Init ==
  /\ subs = [s \in Subscriptions |-> NoSub]
  /\ bills = [s \in Subscriptions |-> <<>>]
  /\ redeemed = [p \in Promos |-> 0]
  /\ lock = [s \in Subscriptions |-> None]
  /\ pc = [r \in Requests |-> "idle"]
  /\ call = [r \in Requests |-> NoCall]
  /\ now = 0

-----------------------------------------------------------------------------
Goto(r, label) == pc' = [pc EXCEPT ![r] = label]

Finish(r) == Goto(r, "idle") /\ call' = [call EXCEPT ![r] = NoCall]

Release(r) ==
  lock' = [s \in Subscriptions |-> IF lock[s] = r THEN None ELSE lock[s]]

ActiveOf(p) == {s \in Subscriptions : subs[s].partner = p}

\* ORDER BY created_at DESC, first row.
Newest(p) ==
  {s \in ActiveOf(p) : \A t \in ActiveOf(p) : subs[t].created <= subs[s].created}

\* HasActive: what login reports as being subscribed.
HasActive(p) == \E s \in ActiveOf(p) : subs[s].end > now

\* Two fields swapped.
FaultyBill(type, plan, promo) == [type |-> plan, plan |-> type, promo |-> promo]

Bill(type, plan, promo) == [type |-> type, plan |-> plan, promo |-> promo]

\* UPDATE promo_codes SET redeemed = redeemed + 1; a blank id is a no-op.
\* It is the last write of its transaction: the row's lock is never waited on
\* for longer than this step.
RedeemPromoCode(p) ==
  redeemed' = IF p = None THEN redeemed ELSE [redeemed EXCEPT ![p] = @ + 1]

-----------------------------------------------------------------------------
\* Arrival of calls.

BeginSubscribe(r) ==
  /\ pc[r] = "idle"
  /\ \E p \in Partners, plan \in Plans, promo \in Promos \cup {None},
        s \in Subscriptions :
       /\ subs[s] = NoSub /\ \A q \in Requests : call[q].sub # s
       /\ call' = [call EXCEPT ![r] =
            [op |-> "subscribe", partner |-> p, plan |-> plan, promo |-> promo,
             sub |-> s, at |-> 0]]
  /\ Goto(r, "check")
  /\ UNCHANGED <<subs, bills, redeemed, lock, now>>

BeginUpgrade(r) ==
  /\ pc[r] = "idle"
  /\ \E p \in Partners, promo \in Promos \cup {None} :
       call' = [call EXCEPT ![r] =
         [op |-> "upgrade", partner |-> p, plan |-> "annual", promo |-> promo,
          sub |-> None, at |-> 0]]
  /\ Goto(r, "check")
  /\ UNCHANGED <<subs, bills, redeemed, lock, now>>

-----------------------------------------------------------------------------
\* The service's checks run before, and outside, the transaction.

\* A partner with a subscription is turned away, whether or not it has ended.
SubscribeCheck(r) ==
  /\ pc[r] = "check" /\ call[r].op = "subscribe"
  /\ \/ ActiveOf(call[r].partner) # {} /\ Finish(r)
     \/ ActiveOf(call[r].partner) = {} /\ Goto(r, "promo") /\ UNCHANGED call
  /\ UNCHANGED <<subs, bills, redeemed, lock, now>>

\* Only a monthly subscription is upgraded.
Upgradable(p) == \E s \in Newest(p) : subs[s].plan = "monthly"

UpgradeCheck(r) ==
  /\ pc[r] = "check" /\ call[r].op = "upgrade"
  /\ \/ ~Upgradable(call[r].partner) /\ Finish(r)
     \/ Upgradable(call[r].partner) /\ Goto(r, "promo") /\ UNCHANGED call
  /\ UNCHANGED <<subs, bills, redeemed, lock, now>>

\* The redemption limit is not looked at.
FaultyPromoOK(p, plan) ==
  p # None => now \in OpenAt[p] /\ PromoPlan[p] \in {None, plan}

\* The plan it is restricted to is not looked at.
AnyPlanPromoOK(p, plan) ==
  p # None =>
    /\ now \in OpenAt[p]
    /\ MaxRedemptions[p] > 0 => redeemed[p] < MaxRedemptions[p]

\* No promo code, or one that may still be redeemed for the plan.
PromoOK(p, plan) ==
  p # None =>
    /\ now \in OpenAt[p]
    /\ PromoPlan[p] \in {None, plan}
    /\ MaxRedemptions[p] > 0 => redeemed[p] < MaxRedemptions[p]

ApplyPromo(r) ==
  LET c == call[r] IN
  /\ pc[r] = "promo"
  /\ \/ ~PromoOK(c.promo, c.plan) /\ Finish(r)
     \/ /\ PromoOK(c.promo, c.plan)
        /\ call' = [call EXCEPT ![r].at = now]
        /\ Goto(r, IF c.op = "subscribe" THEN "insert" ELSE "load")
  /\ UNCHANGED <<subs, bills, redeemed, lock, now>>

-----------------------------------------------------------------------------
\* The transactions. The service reads the clock for the dates of the rows at
\* some time between the promo check and the statement that stores them.

\* INSERT the subscription, INSERT its purchase, redeem the promo code, COMMIT.
SubscribeStore(r) ==
  LET c == call[r] IN
  /\ pc[r] = "insert"
  /\ \E at \in c.at..now :
       subs' = [subs EXCEPT ![c.sub] =
         [partner |-> c.partner, plan |-> c.plan, end |-> at + Term[c.plan],
          created |-> at]]
  /\ bills' = [bills EXCEPT ![c.sub] =
       Append(@, Bill("purchase", c.plan, c.promo))]
  /\ RedeemPromoCode(c.promo)
  /\ Finish(r)
  /\ UNCHANGED <<lock, now>>

\* SELECT ... FOR UPDATE of the newest subscription. Its snapshot chooses the
\* row before it waits for the row's lock.
UpgradeChoose(r) ==
  /\ pc[r] = "load"
  /\ \E s \in Newest(call[r].partner) : call' = [call EXCEPT ![r].sub = s]
  /\ Goto(r, "lock")
  /\ UNCHANGED <<subs, bills, redeemed, lock, now>>

\* The plan is not checked again under the lock.
FaultyUpgradeLoad(r) ==
  /\ pc[r] = "lock" /\ lock[call[r].sub] = None
  /\ lock' = [lock EXCEPT ![call[r].sub] = r]
  /\ Goto(r, "store")
  /\ UNCHANGED <<subs, bills, redeemed, call, now>>

\* With the lock the newest version of the row is read; its plan is checked
\* again.
UpgradeLoad(r) ==
  LET s == call[r].sub IN
  /\ pc[r] = "lock" /\ lock[s] = None
  /\ \/ /\ subs[s].plan = "monthly"
        /\ lock' = [lock EXCEPT ![s] = r]
        /\ Goto(r, "store") /\ UNCHANGED call
     \/ subs[s].plan # "monthly" /\ Finish(r) /\ UNCHANGED lock
  /\ UNCHANGED <<subs, bills, redeemed, now>>

\* UPDATE the row, INSERT the upgrade's bill, redeem the promo code, COMMIT.
UpgradeStore(r) ==
  LET c == call[r] IN
  /\ pc[r] = "store"
  /\ \E at \in c.at..now :
       subs' = [subs EXCEPT ![c.sub] =
         [@ EXCEPT !.plan = "annual", !.end = at + Term["annual"]]]
  /\ bills' = [bills EXCEPT ![c.sub] =
       Append(@, Bill("upgrade", "annual", c.promo))]
  /\ RedeemPromoCode(c.promo)
  /\ Finish(r) /\ Release(r)
  /\ UNCHANGED now

\* The bill of an upgrade is inserted outside the transaction, which fails.
HalfUpgraded(r) ==
  /\ Faults /\ pc[r] # "idle"
  /\ bills' = IF pc[r] = "store"
              THEN [bills EXCEPT ![call[r].sub] =
                      Append(@, Bill("upgrade", "annual", call[r].promo))]
              ELSE bills
  /\ Finish(r) /\ Release(r)
  /\ UNCHANGED <<subs, redeemed, now>>

\* A statement fails, the client hangs up or the process dies.
Abandon(r) ==
  /\ Faults /\ pc[r] # "idle"
  /\ Finish(r) /\ Release(r)
  /\ UNCHANGED <<subs, bills, redeemed, now>>

Tick ==
  /\ now < MaxTime
  /\ now' = now + 1
  /\ UNCHANGED <<subs, bills, redeemed, lock, pc, call>>

Next ==
  \/ Tick
  \/ \E r \in Requests :
       \/ BeginSubscribe(r) \/ BeginUpgrade(r)
       \/ SubscribeCheck(r) \/ UpgradeCheck(r) \/ ApplyPromo(r)
       \/ SubscribeStore(r)
       \/ UpgradeChoose(r) \/ UpgradeLoad(r) \/ UpgradeStore(r)
       \/ Abandon(r)

Spec == Init /\ [][Next]_vars

-----------------------------------------------------------------------------
\* Properties.

Subs ==
  [partner : Partners, plan : Plans, end : Nat, created : Nat] \cup {NoSub}
Bills ==
  [type : {"purchase", "upgrade"}, plan : Plans, promo : Promos \cup {None}]
Calls ==
  [op : {"subscribe", "upgrade"}, partner : Partners, plan : Plans,
   promo : Promos \cup {None}, sub : Subscriptions \cup {None}, at : Nat]

\* Every column and local variable holds values of its type.
TypeOK ==
  /\ subs \in [Subscriptions -> Subs]
  /\ bills \in [Subscriptions -> Seq(Bills)]
  /\ redeemed \in [Promos -> Nat]
  /\ lock \in [Subscriptions -> Requests \cup {None}]
  /\ pc \in [Requests -> PCs]
  /\ call \in [Requests -> Calls \cup {NoCall}]
  /\ now \in Nat

\* A promo code is redeemed beyond its limit at most by the calls that were
\* between its check and its redemption when the last one in the limit was
\* counted: with one call at a time the limit is exact (applyPromo,
\* redeemPromoCode).
PromoOverrun ==
  \A p \in Promos :
    MaxRedemptions[p] > 0 =>
      redeemed[p] + 1 <= MaxRedemptions[p] + Cardinality(Requests)

\* A promo code has been counted once for every bill it has lowered, although
\* the count and the bill are rows of different tables and calls fail between
\* any two statements (the transactions of Create and Upgrade).
RedemptionsMatchBills ==
  \A p \in Promos :
    redeemed[p] =
      Cardinality({e \in Subscriptions \X (1..2) :
                     e[2] \in DOMAIN bills[e[1]] /\ bills[e[1]][e[2]].promo = p})

\* The billing history of a subscription explains its plan: one purchase and,
\* if that was monthly, at most one upgrade, however many upgrades race.
BillsTellPlan ==
  \A s \in Subscriptions :
    LET b == bills[s] IN
    IF subs[s] = NoSub THEN b = <<>>
    ELSE /\ Len(b) \in 1..2
         /\ b[1].type = "purchase"
         /\ Len(b) = 2 =>
              /\ b[1].plan = "monthly"
              /\ b[2].type = "upgrade" /\ b[2].plan = "annual"
         /\ b[Len(b)].plan = subs[s].plan

\* The component keeps the promises of SubscriptionContract: checks that run
\* before the transaction, locks and failures amount to sales and upgrades at
\* one moment, with promo codes valid then or earlier, for their plan, and a
\* limit exceeded at most by the other requests.
Contract == INSTANCE SubscriptionContract WITH
  Overrun <- Cardinality(Requests) - 1
ContractSpec == Contract!Spec

-----------------------------------------------------------------------------
\* What the comments of the code say and the code does not do.

\* "A partner has at most one active subscription at a time".
OneActive == \A p \in Partners : Cardinality(ActiveOf(p)) <= 1

\* "GetActiveByPartner returns a partner's current active subscription": who
\* is turned away by it is subscribed.
RefusedWhileSubscribed ==
  [][\A r \in Requests :
       pc[r] = "check" /\ call[r].op = "subscribe" /\ SubscribeCheck(r)
         /\ pc'[r] = "idle" => HasActive(call[r].partner)]_vars
=============================================================================
