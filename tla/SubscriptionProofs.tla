-------------------------- MODULE SubscriptionProofs --------------------------
(***************************************************************************)
(* Theorems about Subscription for every value of its constants.           *)
(***************************************************************************)
EXTENDS Subscription, FiniteSetTheorems, TLAPS

-----------------------------------------------------------------------------
\* The inductive invariant.

\* The recorded call fits the statement r is at. The id a Subscribe call has
\* generated is its own; what an upgrade has read under the row's lock stands.
CallOK(r) ==
  pc[r] # "idle" =>
    /\ call[r] \in Calls
    /\ pc[r] = "insert" => call[r].op = "subscribe"
    /\ call[r].op = "subscribe" =>
         /\ call[r].sub \in Subscriptions
         /\ subs[call[r].sub] = NoSub
         /\ \A q \in Requests :
              q # r /\ pc[q] # "idle" /\ call[q].op = "subscribe"
                => call[q].sub # call[r].sub
    /\ call[r].op = "upgrade" => call[r].plan = "annual"
    /\ pc[r] \in {"load", "lock", "store"} => call[r].op = "upgrade"
    /\ pc[r] \in {"lock", "store"} =>
         call[r].sub \in Subscriptions /\ subs[call[r].sub] # NoSub
    /\ pc[r] = "store" =>
         lock[call[r].sub] = r /\ subs[call[r].sub].plan = "monthly"

IInv == TypeOK /\ BillsTellPlan /\ \A r \in Requests : CallOK(r)

\* Calls that have passed the check of promo code p and not yet redeemed it.
Holding(p) ==
  {r \in Requests : pc[r] \in {"insert", "load", "lock", "store"} /\ call[r].promo = p}

PromoBound ==
  \A p \in Promos :
    MaxRedemptions[p] > 0 =>
      redeemed[p] + Cardinality(Holding(p)) + 1
        <= MaxRedemptions[p] + Cardinality(Requests)

-----------------------------------------------------------------------------
Step(r) ==
  \/ BeginSubscribe(r) \/ BeginUpgrade(r)
  \/ SubscribeCheck(r) \/ UpgradeCheck(r) \/ ApplyPromo(r)
  \/ SubscribeStore(r)
  \/ UpgradeChoose(r) \/ UpgradeLoad(r) \/ UpgradeStore(r)
  \/ Abandon(r)

\* The empty tables satisfy the invariant.
LEMMA InitIInv == Init => IInv
<1>. SUFFICES ASSUME Init PROVE IInv
  OBVIOUS
<1>1. TypeOK
  BY DEF Init, TypeOK, Subs, PCs
<1>2. BillsTellPlan
  BY DEF Init, BillsTellPlan
<1>3. \A r \in Requests : CallOK(r)
  BY DEF Init, CallOK
<1>. QED
  BY <1>1, <1>2, <1>3 DEF IInv

\* The two statements that write subscriptions and bills.
Writes(r) == SubscribeStore(r) \/ UpgradeStore(r)

Reads(r) ==
  \/ BeginSubscribe(r) \/ BeginUpgrade(r)
  \/ SubscribeCheck(r) \/ UpgradeCheck(r) \/ ApplyPromo(r)
  \/ UpgradeChoose(r) \/ UpgradeLoad(r) \/ Abandon(r)

\* All the others leave the tables as they are.
LEMMA ReadsKeepTables ==
  ASSUME NEW r \in Requests, Reads(r)
  PROVE  UNCHANGED <<subs, bills, redeemed>>
BY DEF Reads, BeginSubscribe, BeginUpgrade, SubscribeCheck, UpgradeCheck,
  ApplyPromo, UpgradeChoose, UpgradeLoad, Abandon

\* A step of q leaves the calls of other requests and their locks alone.
LEMMA OthersKept ==
  ASSUME IInv, NEW q \in Requests, Step(q)
  PROVE  /\ \A r \in Requests : r # q => pc'[r] = pc[r] /\ call'[r] = call[r]
         /\ \A s \in Subscriptions :
              lock[s] # None /\ lock[s] # q => lock'[s] = lock[s]
<1>0. TypeOK
  BY DEF IInv
<1>1. CASE BeginSubscribe(q) \/ BeginUpgrade(q) \/ SubscribeCheck(q)
           \/ UpgradeCheck(q) \/ ApplyPromo(q) \/ UpgradeChoose(q)
  BY <1>0, <1>1 DEF BeginSubscribe, BeginUpgrade, SubscribeCheck, UpgradeCheck,
    ApplyPromo, UpgradeChoose, Finish, Goto, TypeOK
<1>2. CASE UpgradeLoad(q)
  BY <1>0, <1>2 DEF UpgradeLoad, Finish, Goto, TypeOK
<1>3. CASE SubscribeStore(q) \/ UpgradeStore(q) \/ Abandon(q)
  BY <1>0, <1>3 DEF SubscribeStore, UpgradeStore, Abandon, Finish, Goto, Release,
    TypeOK
<1>. QED
  BY <1>1, <1>2, <1>3 DEF Step

\* What the call of q becomes.
LEMMA OwnCall ==
  ASSUME IInv, NEW q \in Requests, Step(q)
  PROVE  /\ pc' \in [Requests -> PCs]
         /\ call' \in [Requests -> Calls \cup {NoCall}]
         /\ lock' \in [Subscriptions -> Requests \cup {None}]
         /\ now' = now
         /\ pc'[q] # "idle" =>
              \/ BeginSubscribe(q) \/ BeginUpgrade(q)
              \/ /\ pc[q] # "idle" /\ Reads(q)
                 /\ pc[q] = "check" => pc'[q] = "promo" /\ call'[q] = call[q]
                 /\ pc[q] # "check" => pc[q] \in {"promo", "load", "lock"}
                 /\ pc[q] = "promo" =>
                      /\ call'[q] = [call[q] EXCEPT !.at = now]
                      /\ pc'[q] = IF call[q].op = "subscribe" THEN "insert" ELSE "load"
                 /\ pc[q] = "load" =>
                      /\ pc'[q] = "lock"
                      /\ \E s \in Newest(call[q].partner) :
                           call'[q] = [call[q] EXCEPT !.sub = s]
                 /\ pc[q] = "lock" =>
                      /\ pc'[q] = "store" /\ call'[q] = call[q]
                      /\ subs[call[q].sub].plan = "monthly"
                      /\ lock'[call[q].sub] = q
<1>0. TypeOK /\ CallOK(q)
  BY DEF IInv
<1>1. CASE BeginSubscribe(q)
  <2>1. call' \in [Requests -> Calls \cup {NoCall}]
    BY <1>0, <1>1 DEF BeginSubscribe, TypeOK, Calls
  <2>. QED
    BY <1>0, <1>1, <2>1 DEF BeginSubscribe, Goto, TypeOK, PCs
<1>2. CASE BeginUpgrade(q)
  <2>1. call' \in [Requests -> Calls \cup {NoCall}]
    BY <1>0, <1>2 DEF BeginUpgrade, TypeOK, Calls, Plans
  <2>. QED
    BY <1>0, <1>2, <2>1 DEF BeginUpgrade, Goto, TypeOK, PCs
<1>3. CASE Finish(q) /\ Reads(q)
  <2>1. lock' \in [Subscriptions -> Requests \cup {None}] /\ now' = now
    BY <1>0, <1>3 DEF Reads, BeginSubscribe, BeginUpgrade, SubscribeCheck,
      UpgradeCheck, ApplyPromo, UpgradeChoose, UpgradeLoad, Abandon, Release, TypeOK
  <2>. QED
    BY <1>0, <1>3, <2>1 DEF Finish, Goto, TypeOK, PCs
<1>4. CASE SubscribeCheck(q) \/ UpgradeCheck(q)
  BY <1>0, <1>3, <1>4 DEF SubscribeCheck, UpgradeCheck, Goto, TypeOK, PCs, Reads
<1>5. CASE ApplyPromo(q) /\ ~Finish(q)
  <2>1. /\ pc[q] = "promo"
        /\ call' = [call EXCEPT ![q].at = now]
        /\ Goto(q, IF call[q].op = "subscribe" THEN "insert" ELSE "load")
        /\ UNCHANGED <<lock, now>>
    BY <1>5 DEF ApplyPromo
  <2>2. [call[q] EXCEPT !.at = now] \in Calls
    BY <1>0, <2>1 DEF CallOK, Calls, TypeOK
  <2>3. call' \in [Requests -> Calls \cup {NoCall}]
    BY <1>0, <2>1, <2>2 DEF TypeOK
  <2>. QED
    BY <1>0, <1>5, <2>1, <2>2, <2>3 DEF Goto, TypeOK, PCs, Reads
<1>6. CASE UpgradeChoose(q)
  <2>1. PICK s \in Newest(call[q].partner) : call' = [call EXCEPT ![q].sub = s]
    BY <1>6 DEF UpgradeChoose
  <2>2. s \in Subscriptions /\ pc[q] = "load" /\ UNCHANGED <<lock, now>>
    BY <1>6, <2>1 DEF Newest, ActiveOf, UpgradeChoose
  <2>3. [call[q] EXCEPT !.sub = s] \in Calls
    BY <1>0, <2>2 DEF CallOK, Calls
  <2>4. call' \in [Requests -> Calls \cup {NoCall}]
    BY <1>0, <2>1, <2>3 DEF TypeOK
  <2>. QED
    BY <1>0, <1>6, <2>1, <2>2, <2>4 DEF UpgradeChoose, Goto, TypeOK, PCs, Reads
<1>7. CASE UpgradeLoad(q) /\ ~Finish(q)
  <2>1. call[q].sub \in Subscriptions
    BY <1>0, <1>7 DEF CallOK, UpgradeLoad
  <2>. QED
    BY <1>0, <1>7, <2>1 DEF UpgradeLoad, Goto, TypeOK, PCs, Reads
<1>8. CASE SubscribeStore(q) \/ UpgradeStore(q)
  BY <1>0, <1>8 DEF SubscribeStore, UpgradeStore, Finish, Goto, Release, TypeOK, PCs
<1>9. CASE Abandon(q)
  BY <1>3, <1>9 DEF Abandon, Reads
<1>. QED
  BY <1>1, <1>2, <1>3, <1>4, <1>5, <1>6, <1>7, <1>8, <1>9 DEF Step, Reads

-----------------------------------------------------------------------------
\* The two statements that write the tables.

\* Counting a promo code keeps the counts' type.
LEMMA RedeemType ==
  ASSUME TypeOK, NEW p \in Promos \cup {None}, RedeemPromoCode(p)
  PROVE  redeemed' \in [Promos -> Nat]
BY DEF TypeOK, RedeemPromoCode

\* Create stores a subscription with its purchase in an unused row.
LEMMA SubscribeTables ==
  ASSUME IInv, NEW q \in Requests, SubscribeStore(q)
  PROVE  /\ subs' \in [Subscriptions -> Subs]
         /\ bills' \in [Subscriptions -> Seq(Bills)]
         /\ redeemed' \in [Promos -> Nat]
         /\ BillsTellPlan'
         /\ call[q].op = "subscribe" /\ call[q].sub \in Subscriptions
         /\ \A s \in Subscriptions : s # call[q].sub => subs'[s] = subs[s]
<1>. DEFINE c == call[q]
<1>1. TypeOK /\ BillsTellPlan /\ CallOK(q) /\ pc[q] = "insert"
  BY DEF IInv, SubscribeStore
<1>2. /\ c.op = "subscribe" /\ c.sub \in Subscriptions /\ subs[c.sub] = NoSub
      /\ c.partner \in Partners /\ c.plan \in Plans
      /\ c.promo \in Promos \cup {None} /\ c.at \in Nat
  BY <1>1 DEF CallOK, Calls
<1>3. PICK at \in c.at..now :
        subs' = [subs EXCEPT ![c.sub] =
          [partner |-> c.partner, plan |-> c.plan, end |-> at + Term[c.plan],
           created |-> at]]
  BY DEF SubscribeStore
<1>. DEFINE row == [partner |-> c.partner, plan |-> c.plan,
                    end |-> at + Term[c.plan], created |-> at]
            bill == Bill("purchase", c.plan, c.promo)
<1>4. row \in Subs /\ row # NoSub /\ row.plan = c.plan
  BY <1>1, <1>2, <1>3, TermAssumption, PartnersAssumption DEF Subs, NoSub, TypeOK
<1>5. bill \in Bills /\ bill.type = "purchase" /\ bill.plan = c.plan
  BY <1>2 DEF Bills, Bill
<1>6. subs' = [subs EXCEPT ![c.sub] = row]
  BY <1>3
<1>7. bills' = [bills EXCEPT ![c.sub] = Append(@, bill)]
  BY DEF SubscribeStore
<1>8. redeemed' \in [Promos -> Nat]
  BY <1>1, <1>2, RedeemType DEF SubscribeStore
<1>. HIDE DEF row, bill, c
<1>9. bills[c.sub] = <<>>
  BY <1>1, <1>2 DEF BillsTellPlan
<1>10. subs' \in [Subscriptions -> Subs] /\ bills' \in [Subscriptions -> Seq(Bills)]
  BY <1>1, <1>2, <1>4, <1>5, <1>6, <1>7 DEF TypeOK
<1>11. ASSUME NEW s \in Subscriptions, s # c.sub
       PROVE  subs'[s] = subs[s] /\ bills'[s] = bills[s]
  BY <1>1, <1>6, <1>7, <1>11 DEF TypeOK
<1>12. /\ subs'[c.sub] = row
       /\ Len(bills'[c.sub]) = 1 /\ bills'[c.sub][1] = bill
  <2>1. subs'[c.sub] = row /\ bills'[c.sub] = Append(<<>>, bill)
    BY <1>1, <1>2, <1>6, <1>7, <1>9 DEF TypeOK
  <2>. QED
    BY <2>1
<1>13. BillsTellPlan'
  <2>. SUFFICES ASSUME NEW s \in Subscriptions
                PROVE  IF subs'[s] = NoSub THEN bills'[s] = <<>>
                       ELSE /\ Len(bills'[s]) \in 1..2
                            /\ bills'[s][1].type = "purchase"
                            /\ Len(bills'[s]) = 2 =>
                                 /\ bills'[s][1].plan = "monthly"
                                 /\ bills'[s][2].type = "upgrade"
                                 /\ bills'[s][2].plan = "annual"
                            /\ bills'[s][Len(bills'[s])].plan = subs'[s].plan
    BY DEF BillsTellPlan
  <2>1. CASE s = c.sub
    BY <1>4, <1>5, <1>12, <2>1
  <2>2. CASE s # c.sub
    BY <1>1, <1>11, <2>2 DEF BillsTellPlan
  <2>. QED
    BY <2>1, <2>2
<1>. QED
  BY <1>2, <1>8, <1>10, <1>11, <1>13 DEF c

\* Upgrade turns a monthly subscription with its purchase into an annual one.
LEMMA UpgradeTables ==
  ASSUME IInv, NEW q \in Requests, UpgradeStore(q)
  PROVE  /\ subs' \in [Subscriptions -> Subs]
         /\ bills' \in [Subscriptions -> Seq(Bills)]
         /\ redeemed' \in [Promos -> Nat]
         /\ BillsTellPlan'
         /\ call[q].op = "upgrade" /\ call[q].sub \in Subscriptions
         /\ lock[call[q].sub] = q /\ subs[call[q].sub] # NoSub
         /\ subs'[call[q].sub] # NoSub
         /\ \A s \in Subscriptions : s # call[q].sub => subs'[s] = subs[s]
<1>. DEFINE c == call[q]
<1>1. TypeOK /\ BillsTellPlan /\ CallOK(q) /\ pc[q] = "store"
  BY DEF IInv, UpgradeStore
<1>2. /\ c.op = "upgrade" /\ c.sub \in Subscriptions /\ lock[c.sub] = q
      /\ subs[c.sub] # NoSub /\ subs[c.sub].plan = "monthly"
      /\ c.promo \in Promos \cup {None} /\ c.at \in Nat
  BY <1>1 DEF CallOK, Calls
<1>3. PICK at \in c.at..now :
        subs' = [subs EXCEPT ![c.sub] =
          [@ EXCEPT !.plan = "annual", !.end = at + Term["annual"]]]
  BY DEF UpgradeStore
<1>. DEFINE row == [subs[c.sub] EXCEPT !.plan = "annual",
                                       !.end = at + Term["annual"]]
            bill == Bill("upgrade", "annual", c.promo)
<1>4. row \in Subs /\ row # NoSub /\ row.plan = "annual"
  <2>1. subs[c.sub] \in [partner : Partners, plan : Plans, end : Nat, created : Nat]
    BY <1>1, <1>2 DEF TypeOK, Subs
  <2>2. at + Term["annual"] \in Nat
    BY <1>1, <1>2, <1>3, TermAssumption DEF TypeOK, Plans
  <2>3. row \in [partner : Partners, plan : Plans, end : Nat, created : Nat]
    BY <2>1, <2>2 DEF Plans
  <2>. QED
    BY <2>1, <2>3, PartnersAssumption DEF Subs, NoSub
<1>5. bill \in Bills /\ bill.type = "upgrade" /\ bill.plan = "annual"
  BY <1>2 DEF Bills, Bill, Plans
<1>6. subs' = [subs EXCEPT ![c.sub] = row]
  BY <1>3
<1>7. bills' = [bills EXCEPT ![c.sub] = Append(@, bill)]
  BY DEF UpgradeStore
<1>8. redeemed' \in [Promos -> Nat]
  BY <1>1, <1>2, RedeemType DEF UpgradeStore
<1>. HIDE DEF row, bill, c
<1>9. /\ bills[c.sub] \in Seq(Bills) /\ Len(bills[c.sub]) = 1
      /\ bills[c.sub][1].type = "purchase" /\ bills[c.sub][1].plan = "monthly"
  <2>. DEFINE b == bills[c.sub]
  <2>1. b \in Seq(Bills)
    BY <1>1, <1>2 DEF TypeOK
  <2>2. /\ Len(b) \in 1..2 /\ b[1].type = "purchase"
        /\ Len(b) = 2 => b[2].plan = "annual"
        /\ b[Len(b)].plan = "monthly"
    BY <1>1, <1>2 DEF BillsTellPlan
  <2>3. Len(b) = 1
    <3>. SUFFICES ASSUME Len(b) = 2 PROVE FALSE
      BY <2>2
    <3>. QED
      BY <2>2
  <2>. QED
    BY <2>1, <2>2, <2>3
<1>10. subs' \in [Subscriptions -> Subs] /\ bills' \in [Subscriptions -> Seq(Bills)]
  BY <1>1, <1>2, <1>4, <1>5, <1>6, <1>7 DEF TypeOK
<1>11. ASSUME NEW s \in Subscriptions, s # c.sub
       PROVE  subs'[s] = subs[s] /\ bills'[s] = bills[s]
  BY <1>1, <1>6, <1>7, <1>11 DEF TypeOK
<1>12. /\ subs'[c.sub] = row /\ Len(bills'[c.sub]) = 2
       /\ bills'[c.sub][1] = bills[c.sub][1] /\ bills'[c.sub][2] = bill
  <2>1. subs'[c.sub] = row /\ bills'[c.sub] = Append(bills[c.sub], bill)
    BY <1>1, <1>2, <1>6, <1>7 DEF TypeOK
  <2>. QED
    BY <1>5, <1>9, <2>1
<1>13. BillsTellPlan'
  <2>. SUFFICES ASSUME NEW s \in Subscriptions
                PROVE  IF subs'[s] = NoSub THEN bills'[s] = <<>>
                       ELSE /\ Len(bills'[s]) \in 1..2
                            /\ bills'[s][1].type = "purchase"
                            /\ Len(bills'[s]) = 2 =>
                                 /\ bills'[s][1].plan = "monthly"
                                 /\ bills'[s][2].type = "upgrade"
                                 /\ bills'[s][2].plan = "annual"
                            /\ bills'[s][Len(bills'[s])].plan = subs'[s].plan
    BY DEF BillsTellPlan
  <2>1. CASE s = c.sub
    BY <1>4, <1>5, <1>9, <1>12, <2>1
  <2>2. CASE s # c.sub
    BY <1>1, <1>11, <2>2 DEF BillsTellPlan
  <2>. QED
    BY <2>1, <2>2
<1>. QED
  BY <1>2, <1>4, <1>8, <1>10, <1>11, <1>12, <1>13 DEF c

-----------------------------------------------------------------------------
\* The recorded calls.

\* The call that takes the step fits its next statement.
LEMMA OwnCallOK ==
  ASSUME IInv, NEW q \in Requests, Step(q)
  PROVE  CallOK(q)'
<1>. SUFFICES ASSUME pc'[q] # "idle" PROVE CallOK(q)'
  BY DEF CallOK
<1>0. TypeOK /\ CallOK(q)
  BY DEF IInv
<1>1. CASE BeginSubscribe(q)
  <2>1. PICK s \in Subscriptions :
          /\ subs[s] = NoSub /\ \A r \in Requests : call[r].sub # s
          /\ call'[q].op = "subscribe" /\ call'[q].sub = s
    BY <1>0, <1>1 DEF BeginSubscribe, TypeOK
  <2>2. pc'[q] = "check" /\ subs' = subs
    BY <1>0, <1>1 DEF BeginSubscribe, Goto, TypeOK
  <2>3. call'[q] \in Calls
    BY <1>0, <1>1 DEF BeginSubscribe, TypeOK, Calls
  <2>4. \A r \in Requests : r # q => call'[r] = call[r]
    BY OthersKept
  <2>. QED
    BY <2>1, <2>2, <2>3, <2>4 DEF CallOK
<1>2. CASE BeginUpgrade(q)
  <2>1. /\ pc'[q] = "check" /\ call'[q] \in Calls
        /\ call'[q].op = "upgrade" /\ call'[q].plan = "annual"
    BY <1>0, <1>2 DEF BeginUpgrade, TypeOK, Goto, Calls, Plans
  <2>. QED
    BY <2>1 DEF CallOK
<1>3. CASE ~(BeginSubscribe(q) \/ BeginUpgrade(q))
  <2>1. Reads(q) /\ subs' = subs /\ pc[q] # "idle"
    BY <1>3, OwnCall, ReadsKeepTables
  <2>2. \A r \in Requests : r # q => pc'[r] = pc[r] /\ call'[r] = call[r]
    BY OthersKept
  <2>3. CASE pc[q] = "check"
    BY <1>0, <1>3, <2>1, <2>2, <2>3, OwnCall DEF CallOK
  <2>4. CASE pc[q] = "promo"
    <3>1. /\ call'[q] = [call[q] EXCEPT !.at = now]
          /\ pc'[q] = IF call[q].op = "subscribe" THEN "insert" ELSE "load"
      BY <1>3, <2>4, OwnCall
    <3>2. call'[q] \in Calls /\ call'[q].op = call[q].op /\ call'[q].sub = call[q].sub
            /\ call'[q].plan = call[q].plan
      BY <1>0, <2>1, <3>1 DEF CallOK, Calls, TypeOK
    <3>3. call[q].op \in {"subscribe", "upgrade"}
      BY <1>0, <2>1 DEF CallOK, Calls
    <3>. QED
      BY <1>0, <2>1, <2>2, <2>4, <3>1, <3>2, <3>3 DEF CallOK
  <2>5. CASE pc[q] = "load"
    <3>1. PICK s \in Newest(call[q].partner) :
            call'[q] = [call[q] EXCEPT !.sub = s]
      BY <1>3, <2>5, OwnCall
    <3>2. pc'[q] = "lock"
      BY <1>3, <2>5, OwnCall
    <3>3. call[q] \in Calls /\ call[q].op = "upgrade" /\ call[q].plan = "annual"
      BY <1>0, <2>5 DEF CallOK
    <3>4. s \in Subscriptions /\ subs[s] # NoSub
      BY <3>1, <3>3, PartnersAssumption DEF Newest, ActiveOf, Calls, NoSub
    <3>5. /\ call'[q] \in Calls /\ call'[q].op = "upgrade"
          /\ call'[q].plan = "annual" /\ call'[q].sub = s
      BY <3>1, <3>3, <3>4 DEF Calls
    <3>. QED
      BY <2>1, <3>2, <3>4, <3>5 DEF CallOK
  <2>6. CASE pc[q] = "lock"
    BY <1>0, <1>3, <2>1, <2>6, OwnCall DEF CallOK
  <2>. QED
    BY <1>3, <2>3, <2>4, <2>5, <2>6, OwnCall
<1>. QED
  BY <1>1, <1>2, <1>3

\* A step of q takes nothing from under another call.
LEMMA OthersCallOK ==
  ASSUME IInv, NEW q \in Requests, Step(q), NEW r \in Requests, r # q
  PROVE  CallOK(r)'
<1>. SUFFICES ASSUME pc'[r] # "idle" PROVE CallOK(r)'
  BY DEF CallOK
<1>0. TypeOK /\ CallOK(r) /\ CallOK(q)
  BY DEF IInv
<1>1. /\ \A t \in Requests : t # q => pc'[t] = pc[t] /\ call'[t] = call[t]
      /\ \A s \in Subscriptions :
           lock[s] # None /\ lock[s] # q => lock'[s] = lock[s]
  BY OthersKept
<1>2. ASSUME call[r].sub \in Subscriptions,
             call[r].op = "subscribe" \/ pc[r] = "store"
      PROVE  subs'[call[r].sub] = subs[call[r].sub]
  <2>1. CASE Reads(q)
    BY <2>1, ReadsKeepTables
  <2>2. CASE SubscribeStore(q)
    <3>1. pc[q] # "idle" /\ call[q].op = "subscribe" /\ subs[call[q].sub] = NoSub
      BY <1>0, <2>2, SubscribeTables DEF CallOK, SubscribeStore
    <3>2. call[r].sub # call[q].sub
      BY <1>0, <1>1, <1>2, <3>1 DEF CallOK
    <3>. QED
      BY <1>2, <2>2, <3>2, SubscribeTables
  <2>3. CASE UpgradeStore(q)
    <3>1. lock[call[q].sub] = q /\ subs[call[q].sub] # NoSub
      BY <2>3, UpgradeTables
    <3>2. call[r].sub # call[q].sub
      BY <1>0, <1>1, <1>2, <3>1 DEF CallOK
    <3>. QED
      BY <1>2, <2>3, <3>2, UpgradeTables
  <2>. QED
    BY <2>1, <2>2, <2>3 DEF Step, Reads
<1>3. ASSUME pc'[q] # "idle", call'[q].op = "subscribe", call[r].op = "subscribe"
      PROVE  call'[q].sub # call[r].sub
  <2>1. CASE BeginSubscribe(q)
    BY <1>0, <2>1 DEF BeginSubscribe, TypeOK
  <2>2. CASE BeginUpgrade(q)
    BY <1>0, <1>3, <2>2 DEF BeginUpgrade, TypeOK
  <2>3. CASE ~(BeginSubscribe(q) \/ BeginUpgrade(q))
    <3>1. pc[q] # "idle" /\ call[q] \in Calls
      BY <1>0, <1>3, <2>3, OwnCall DEF CallOK
    <3>2. CASE pc[q] = "load"
      <4>1. PICK s \in Newest(call[q].partner) : call'[q] = [call[q] EXCEPT !.sub = s]
        BY <1>3, <2>3, <3>2, OwnCall
      <4>2. call'[q].op = "upgrade"
        BY <1>0, <3>1, <3>2, <4>1 DEF CallOK, Calls
      <4>. QED
        BY <1>3, <4>2
    <3>3. CASE pc[q] # "load"
      <4>1. call'[q] = call[q] \/ call'[q] = [call[q] EXCEPT !.at = now]
        BY <1>3, <2>3, <3>3, OwnCall
      <4>2. call'[q].op = call[q].op /\ call'[q].sub = call[q].sub
        BY <3>1, <4>1 DEF Calls
      <4>. QED
        BY <1>0, <1>1, <1>3, <3>1, <4>2 DEF CallOK
    <3>. QED
      BY <3>2, <3>3
  <2>. QED
    BY <2>1, <2>2, <2>3
<1>4. call[r].op = "subscribe" =>
        /\ call[r].sub \in Subscriptions /\ subs'[call[r].sub] = NoSub
        /\ \A t \in Requests :
             t # r /\ pc'[t] # "idle" /\ call'[t].op = "subscribe"
               => call'[t].sub # call[r].sub
  BY <1>0, <1>1, <1>2, <1>3 DEF CallOK
<1>5. pc[r] = "store" =>
        lock'[call[r].sub] = r /\ subs'[call[r].sub].plan = "monthly"
  BY <1>0, <1>1, <1>2, RequestsAssumption DEF CallOK
<1>6. pc[r] \in {"lock", "store"} =>
        call[r].sub \in Subscriptions /\ subs'[call[r].sub] # NoSub
  <2>. SUFFICES ASSUME pc[r] \in {"lock", "store"}
                PROVE  call[r].sub \in Subscriptions /\ subs'[call[r].sub] # NoSub
    OBVIOUS
  <2>1. call[r].sub \in Subscriptions /\ subs[call[r].sub] # NoSub
    BY <1>0 DEF CallOK
  <2>2. CASE Reads(q)
    BY <2>1, <2>2, ReadsKeepTables
  <2>3. CASE SubscribeStore(q)
    <3>1. subs[call[q].sub] = NoSub
      BY <1>0, <2>3, SubscribeTables DEF CallOK, SubscribeStore
    <3>. QED
      BY <2>1, <2>3, <3>1, SubscribeTables
  <2>4. CASE UpgradeStore(q)
    BY <2>1, <2>4, UpgradeTables
  <2>. QED
    BY <2>2, <2>3, <2>4 DEF Step, Reads
<1>. QED
  BY <1>0, <1>1, <1>4, <1>5, <1>6 DEF CallOK

-----------------------------------------------------------------------------
\* The invariant is inductive.

\* Every step and every stuttering step keep the invariant.
LEMMA NextIInv == IInv /\ [Next]_vars => IInv'
<1>. SUFFICES ASSUME IInv, [Next]_vars PROVE IInv'
  OBVIOUS
<1>0. TypeOK /\ BillsTellPlan
  BY DEF IInv
<1>1. CASE UNCHANGED vars
  <2>1. TypeOK' /\ BillsTellPlan'
    BY <1>0, <1>1 DEF TypeOK, BillsTellPlan, vars
  <2>2. \A r \in Requests : CallOK(r)'
    BY <1>1 DEF IInv, CallOK, vars
  <2>. QED
    BY <2>1, <2>2 DEF IInv
<1>2. CASE Tick
  <2>1. UNCHANGED <<subs, bills, redeemed, lock, pc, call>> /\ now' \in Nat
    BY <1>0, <1>2 DEF Tick, TypeOK
  <2>2. TypeOK' /\ BillsTellPlan'
    BY <1>0, <2>1 DEF TypeOK, BillsTellPlan
  <2>3. \A r \in Requests : CallOK(r)'
    BY <2>1 DEF IInv, CallOK
  <2>. QED
    BY <2>2, <2>3 DEF IInv
<1>3. ASSUME NEW q \in Requests, Step(q)
      PROVE  IInv'
  <2>1. \A r \in Requests : CallOK(r)'
    BY <1>3, OwnCallOK, OthersCallOK
  <2>2. BillsTellPlan' /\ subs' \in [Subscriptions -> Subs]
        /\ bills' \in [Subscriptions -> Seq(Bills)] /\ redeemed' \in [Promos -> Nat]
    <3>1. CASE Reads(q)
      <4>1. UNCHANGED <<subs, bills, redeemed>>
        BY <3>1, ReadsKeepTables
      <4>. QED
        BY <1>0, <4>1 DEF TypeOK, BillsTellPlan
    <3>2. CASE SubscribeStore(q)
      BY <3>2, SubscribeTables
    <3>3. CASE UpgradeStore(q)
      BY <3>3, UpgradeTables
    <3>. QED
      BY <1>3, <3>1, <3>2, <3>3 DEF Step, Reads
  <2>3. TypeOK'
    BY <1>0, <1>3, <2>2, OwnCall DEF TypeOK
  <2>. QED
    BY <2>1, <2>2, <2>3 DEF IInv
<1>. QED
  BY <1>1, <1>2, <1>3 DEF Next, Step

\* Every column and local variable keeps its type.
THEOREM TypeCorrectness == Spec => []TypeOK
<1>1. IInv => TypeOK
  BY DEF IInv
<1>. QED
  BY <1>1, InitIInv, NextIInv, PTL DEF Spec

\* For any number of requests and failures, the bills of a subscription explain
\* its plan.
THEOREM BillingSafety == Spec => []BillsTellPlan
<1>1. IInv => BillsTellPlan
  BY DEF IInv
<1>. QED
  BY <1>1, InitIInv, NextIInv, PTL DEF Spec

-----------------------------------------------------------------------------
\* How far a promo code can be redeemed beyond its limit.

\* The calls that hold a promo code are some of the requests.
LEMMA HoldingFinite ==
  ASSUME NEW p
  PROVE  /\ IsFiniteSet(Holding(p)) /\ Cardinality(Holding(p)) \in Nat
         /\ Cardinality(Requests) \in Nat
         /\ Cardinality(Holding(p)) <= Cardinality(Requests)
<1>1. Holding(p) \subseteq Requests
  BY DEF Holding
<1>. QED
  BY <1>1, RequestsAssumption, FS_Subset, FS_CardinalityType

\* A step of q takes hold of a promo code only in its check, and lets go of it
\* when it counts its redemption.
LEMMA HoldingSteps ==
  ASSUME IInv, NEW q \in Requests, Step(q), NEW p \in Promos
  PROVE  \/ redeemed'[p] = redeemed[p] /\ Holding(p)' \subseteq Holding(p)
         \/ /\ redeemed'[p] = redeemed[p] /\ Holding(p)' \subseteq Requests
            /\ MaxRedemptions[p] > 0 => redeemed[p] < MaxRedemptions[p]
         \/ /\ redeemed'[p] = redeemed[p] + 1 /\ q \in Holding(p)
            /\ Holding(p)' \subseteq Holding(p) \ {q}
<1>0. TypeOK /\ CallOK(q)
  BY DEF IInv
<1>1. \A r \in Requests : r # q => pc'[r] = pc[r] /\ call'[r] = call[r]
  BY OthersKept
<1>2. CASE Writes(q)
  <2>1. /\ pc[q] \in {"insert", "store"} /\ pc'[q] = "idle"
        /\ RedeemPromoCode(call[q].promo)
    BY <1>0, <1>2 DEF Writes, SubscribeStore, UpgradeStore, Finish, Goto, TypeOK
  <2>2. Holding(p)' \subseteq Holding(p) \ {q}
    BY <1>1, <2>1 DEF Holding
  <2>3. CASE call[q].promo = p
    <3>1. redeemed'[p] = redeemed[p] + 1
      BY <1>0, <2>1, <2>3, PromoAssumption DEF RedeemPromoCode, TypeOK
    <3>2. q \in Holding(p)
      BY <2>1, <2>3 DEF Holding
    <3>. QED
      BY <2>2, <3>1, <3>2
  <2>4. CASE call[q].promo # p
    <3>1. redeemed'[p] = redeemed[p]
      BY <1>0, <2>1, <2>4 DEF RedeemPromoCode, TypeOK
    <3>. QED
      BY <2>2, <3>1
  <2>. QED
    BY <2>3, <2>4
<1>3. CASE Reads(q)
  <2>1. redeemed' = redeemed
    BY <1>3, ReadsKeepTables
  <2>2. CASE q \notin Holding(p)'
    <3>1. Holding(p)' \subseteq Holding(p)
      BY <1>1, <2>2 DEF Holding
    <3>. QED
      BY <2>1, <3>1
  <2>3. CASE q \in Holding(p)' /\ q \in Holding(p)
    <3>1. Holding(p)' \subseteq Holding(p)
      BY <1>1, <2>3 DEF Holding
    <3>. QED
      BY <2>1, <3>1
  <2>4. CASE q \in Holding(p)' /\ q \notin Holding(p)
    <3>1. pc'[q] \in {"insert", "load", "lock", "store"} /\ call'[q].promo = p
      BY <2>4 DEF Holding
    <3>2. ~(BeginSubscribe(q) \/ BeginUpgrade(q))
      BY <1>0, <3>1 DEF BeginSubscribe, BeginUpgrade, Goto, TypeOK
    <3>3. pc[q] \in {"promo", "load", "lock"} /\ call[q] \in Calls
      BY <1>0, <3>1, <3>2, OwnCall DEF CallOK
    <3>4. CASE pc[q] = "load"
      <4>1. PICK s \in Newest(call[q].partner) : call'[q] = [call[q] EXCEPT !.sub = s]
        BY <3>1, <3>2, <3>4, OwnCall
      <4>2. call'[q].promo = call[q].promo
        BY <3>3, <4>1 DEF Calls
      <4>. QED
        BY <2>4, <3>1, <3>4, <4>2 DEF Holding
    <3>5. CASE pc[q] = "promo"
      <4>1. call'[q] = [call[q] EXCEPT !.at = now]
        BY <3>1, <3>2, <3>5, OwnCall
      <4>2. call[q].promo = p
        BY <3>1, <3>3, <4>1 DEF Calls
      <4>3. PromoOK(p, call[q].plan)
        BY <1>0, <1>3, <3>1, <3>2, <3>5, <4>2 DEF Reads, SubscribeCheck, UpgradeCheck,
          ApplyPromo, UpgradeChoose, UpgradeLoad, Abandon, Finish, Goto, TypeOK
      <4>4. MaxRedemptions[p] > 0 => redeemed[p] < MaxRedemptions[p]
        BY <4>3, PromoAssumption DEF PromoOK
      <4>5. Holding(p)' \subseteq Requests
        BY DEF Holding
      <4>. QED
        BY <2>1, <4>4, <4>5
    <3>6. CASE pc[q] = "lock"
      BY <2>4, <3>1, <3>2, <3>6, OwnCall DEF Holding
    <3>. QED
      BY <3>3, <3>4, <3>5, <3>6
  <2>. QED
    BY <2>2, <2>3, <2>4
<1>. QED
  BY <1>2, <1>3 DEF Step, Reads, Writes

\* What is redeemed and what is held never exceed the limit by more than the
\* other requests.
LEMMA NextPromoBound == IInv /\ PromoBound /\ [Next]_vars => PromoBound'
<1>. SUFFICES ASSUME IInv, PromoBound, [Next]_vars, NEW p \in Promos,
                     MaxRedemptions[p] > 0
              PROVE  redeemed'[p] + Cardinality(Holding(p)') + 1
                       <= MaxRedemptions[p] + Cardinality(Requests)
  BY DEF PromoBound
<1>0. /\ redeemed[p] \in Nat /\ MaxRedemptions[p] \in Nat
      /\ Cardinality(Requests) \in Nat /\ IsFiniteSet(Holding(p))
      /\ Cardinality(Holding(p)) \in Nat
      /\ redeemed[p] + Cardinality(Holding(p)) + 1
           <= MaxRedemptions[p] + Cardinality(Requests)
  BY HoldingFinite, PromoAssumption DEF IInv, TypeOK, PromoBound
<1>1. CASE UNCHANGED vars \/ Tick
  <2>1. redeemed' = redeemed /\ Holding(p)' = Holding(p)
    BY <1>1 DEF vars, Tick, Holding
  <2>. QED
    BY <1>0, <2>1
<1>2. ASSUME NEW q \in Requests, Step(q)
      PROVE  redeemed'[p] + Cardinality(Holding(p)') + 1
               <= MaxRedemptions[p] + Cardinality(Requests)
  <2>. DEFINE H == Holding(p)'
  <2>1. CASE redeemed'[p] = redeemed[p] /\ H \subseteq Holding(p)
    <3>1. Cardinality(H) \in Nat /\ Cardinality(H) <= Cardinality(Holding(p))
      BY <1>0, <2>1, FS_Subset, FS_CardinalityType
    <3>. QED
      BY <1>0, <2>1, <3>1
  <2>2. CASE /\ redeemed'[p] = redeemed[p] /\ H \subseteq Requests
             /\ redeemed[p] < MaxRedemptions[p]
    <3>1. Cardinality(H) \in Nat /\ Cardinality(H) <= Cardinality(Requests)
      BY <2>2, RequestsAssumption, FS_Subset, FS_CardinalityType
    <3>. QED
      BY <1>0, <2>2, <3>1
  <2>3. CASE /\ redeemed'[p] = redeemed[p] + 1 /\ q \in Holding(p)
             /\ H \subseteq Holding(p) \ {q}
    <3>1. /\ IsFiniteSet(Holding(p) \ {q})
          /\ Cardinality(Holding(p) \ {q}) = Cardinality(Holding(p)) - 1
      BY <1>0, <2>3, FS_RemoveElement
    <3>2. /\ Cardinality(H) \in Nat
          /\ Cardinality(H) <= Cardinality(Holding(p) \ {q})
      BY <2>3, <3>1, FS_Subset, FS_CardinalityType
    <3>. QED
      BY <1>0, <2>3, <3>1, <3>2
  <2>. QED
    BY <1>2, <2>1, <2>2, <2>3, HoldingSteps
<1>. QED
  BY <1>1, <1>2 DEF Next, Step

\* A promo code limited to n is redeemed at most n + |Requests| - 1 times.
THEOREM PromoSafety == Spec => []PromoOverrun
<1>1. Init => PromoBound
  <2>. SUFFICES ASSUME Init, NEW p \in Promos, MaxRedemptions[p] > 0
                PROVE  redeemed[p] + Cardinality(Holding(p)) + 1
                         <= MaxRedemptions[p] + Cardinality(Requests)
    BY DEF PromoBound
  <2>1. redeemed[p] = 0 /\ Holding(p) = {}
    BY DEF Init, Holding
  <2>2. Cardinality(Holding(p)) = 0
    BY <2>1, FS_EmptySet
  <2>3. Cardinality(Requests) \in Nat /\ MaxRedemptions[p] \in Nat
    BY HoldingFinite, PromoAssumption
  <2>. QED
    BY <2>1, <2>2, <2>3
<1>2. IInv /\ PromoBound => PromoOverrun
  <2>. SUFFICES ASSUME IInv, PromoBound, NEW p \in Promos, MaxRedemptions[p] > 0
                PROVE  redeemed[p] + 1 <= MaxRedemptions[p] + Cardinality(Requests)
    BY DEF PromoOverrun
  <2>. QED
    BY HoldingFinite, PromoAssumption DEF PromoBound, IInv, TypeOK
<1>. QED
  BY <1>1, <1>2, InitIInv, NextIInv, NextPromoBound, PTL DEF Spec

-----------------------------------------------------------------------------
\* Redemptions and bills.

\* The bills, in all tables together, that promo code p has lowered.
Lowered(p) ==
  {e \in Subscriptions \X (1..2) :
     e[2] \in DOMAIN bills[e[1]] /\ bills[e[1]][e[2]].promo = p}

\* Nothing bounds the number of subscriptions, so finiteness of the bills is
\* part of the invariant.
BillsCounted ==
  \A p \in Promos : IsFiniteSet(Lowered(p)) /\ redeemed[p] = Cardinality(Lowered(p))

\* A store appends one bill to one subscription, the first or the second of it,
\* and redeems the code on it.
LEMMA OneBill ==
  ASSUME IInv, NEW q \in Requests, Writes(q)
  PROVE  \E s \in Subscriptions, bill \in Bills :
           /\ Len(bills[s]) \in 0..1
           /\ bills' = [bills EXCEPT ![s] = Append(@, bill)]
           /\ RedeemPromoCode(bill.promo)
<1>. DEFINE c == call[q]
<1>0. TypeOK /\ CallOK(q) /\ BillsTellPlan
  BY DEF IInv
<1>1. CASE SubscribeStore(q)
  <2>1. /\ c.sub \in Subscriptions /\ subs[c.sub] = NoSub
        /\ c.plan \in Plans /\ c.promo \in Promos \cup {None}
    BY <1>0, <1>1 DEF SubscribeStore, CallOK, Calls
  <2>. DEFINE bill == Bill("purchase", c.plan, c.promo)
  <2>2. bill \in Bills
    BY <2>1 DEF Bill, Bills
  <2>3. Len(bills[c.sub]) = 0
    BY <1>0, <2>1 DEF BillsTellPlan
  <2>4. bills' = [bills EXCEPT ![c.sub] = Append(@, bill)] /\ RedeemPromoCode(bill.promo)
    BY <1>1 DEF SubscribeStore, Bill
  <2>. USE <2>1, <2>2
  <2>5. WITNESS c.sub \in Subscriptions, bill \in Bills
  <2>. QED
    BY <2>3, <2>4
<1>2. CASE UpgradeStore(q)
  <2>1. /\ c.sub \in Subscriptions /\ subs[c.sub] # NoSub
        /\ subs[c.sub].plan = "monthly" /\ c.promo \in Promos \cup {None}
    BY <1>0, <1>2 DEF UpgradeStore, CallOK, Calls
  <2>. DEFINE bill == Bill("upgrade", "annual", c.promo)
  <2>2. bill \in Bills
    BY <2>1 DEF Bill, Bills, Plans
  <2>3. Len(bills[c.sub]) = 1
    <3>1. bills[c.sub] \in Seq(Bills) /\ Len(bills[c.sub]) \in 1..2
      BY <1>0, <2>1 DEF BillsTellPlan, TypeOK
    <3>2. Len(bills[c.sub]) # 2
      BY <1>0, <2>1 DEF BillsTellPlan
    <3>. QED
      BY <3>1, <3>2
  <2>4. bills' = [bills EXCEPT ![c.sub] = Append(@, bill)] /\ RedeemPromoCode(bill.promo)
    BY <1>2 DEF UpgradeStore, Bill
  <2>. USE <2>1, <2>2
  <2>5. WITNESS c.sub \in Subscriptions, bill \in Bills
  <2>. QED
    BY <2>3, <2>4
<1>. QED
  BY <1>1, <1>2 DEF Writes

\* The bill that is appended is the only one that comes to be lowered.
LEMMA LoweredGrows ==
  ASSUME TypeOK, NEW s \in Subscriptions, NEW bill \in Bills, NEW p \in Promos,
         Len(bills[s]) \in 0..1, bills' = [bills EXCEPT ![s] = Append(@, bill)]
  PROVE  /\ <<s, Len(bills[s]) + 1>> \notin Lowered(p)
         /\ Lowered(p)' = IF bill.promo = p
                          THEN Lowered(p) \cup {<<s, Len(bills[s]) + 1>>}
                          ELSE Lowered(p)
<1>. DEFINE n == Len(bills[s])
            new == <<s, n + 1>>
<1>1. bills[s] \in Seq(Bills) /\ bills'[s] = Append(bills[s], bill)
  BY DEF TypeOK
<1>2. /\ DOMAIN bills[s] = 1..n /\ DOMAIN bills'[s] = 1..(n + 1)
      /\ bills'[s][n + 1] = bill /\ \A i \in 1..n : bills'[s][i] = bills[s][i]
  BY <1>1
<1>3. \A t \in Subscriptions : t # s => bills'[t] = bills[t]
  BY DEF TypeOK
<1>4. n \in Nat /\ n + 1 \in 1..2 /\ n + 1 \notin 1..n
  BY <1>1
<1>5. new \notin Lowered(p)
  BY <1>2, <1>4 DEF Lowered
<1>6. ASSUME NEW t \in Subscriptions, NEW i \in 1..2
      PROVE  <<t, i>> \in Lowered(p)'
               <=> <<t, i>> \in Lowered(p) \/ (<<t, i>> = new /\ bill.promo = p)
  <2>1. CASE t # s
    BY <1>3, <2>1 DEF Lowered
  <2>2. CASE t = s /\ i = n + 1
    BY <1>2, <1>5, <2>2 DEF Lowered
  <2>3. CASE t = s /\ i # n + 1
    <3>1. i \in 1..(n + 1) <=> i \in 1..n
      BY <2>3
    <3>. QED
      BY <1>2, <2>3, <3>1 DEF Lowered
  <2>. QED
    BY <2>1, <2>2, <2>3
<1>7. ASSUME NEW e
      PROVE  e \in Lowered(p)' <=> e \in Lowered(p) \/ (e = new /\ bill.promo = p)
  <2>1. CASE \E t \in Subscriptions, i \in 1..2 : e = <<t, i>>
    BY <1>6, <2>1
  <2>2. CASE ~\E t \in Subscriptions, i \in 1..2 : e = <<t, i>>
    <3>1. e \notin Subscriptions \X (1..2) /\ e # new
      BY <1>4, <2>2
    <3>. QED
      BY <3>1 DEF Lowered
  <2>. QED
    BY <2>1, <2>2
<1>8. Lowered(p)' = IF bill.promo = p THEN Lowered(p) \cup {new} ELSE Lowered(p)
  BY <1>7
<1>. QED
  BY <1>5, <1>8

\* A count and a bill are written by the same transaction, or neither is.
LEMMA NextBillsCounted == IInv /\ BillsCounted /\ [Next]_vars => BillsCounted'
<1>. SUFFICES ASSUME IInv, BillsCounted, [Next]_vars, NEW p \in Promos
              PROVE  IsFiniteSet(Lowered(p)') /\ redeemed'[p] = Cardinality(Lowered(p)')
  BY DEF BillsCounted
<1>0. TypeOK /\ IsFiniteSet(Lowered(p)) /\ redeemed[p] = Cardinality(Lowered(p))
  BY DEF IInv, BillsCounted
<1>1. CASE UNCHANGED <<bills, redeemed>>
  BY <1>0, <1>1 DEF Lowered
<1>2. ASSUME NEW q \in Requests, Writes(q)
      PROVE  IsFiniteSet(Lowered(p)') /\ redeemed'[p] = Cardinality(Lowered(p)')
  <2>1. PICK s \in Subscriptions, bill \in Bills :
          /\ Len(bills[s]) \in 0..1
          /\ bills' = [bills EXCEPT ![s] = Append(@, bill)]
          /\ RedeemPromoCode(bill.promo)
    BY <1>2, OneBill
  <2>2. CASE bill.promo = p
    <3>1. redeemed'[p] = redeemed[p] + 1
      BY <1>0, <2>1, <2>2, PromoAssumption DEF RedeemPromoCode, TypeOK
    <3>2. /\ <<s, Len(bills[s]) + 1>> \notin Lowered(p)
          /\ Lowered(p)' = Lowered(p) \cup {<<s, Len(bills[s]) + 1>>}
      BY <1>0, <2>1, <2>2, LoweredGrows
    <3>. QED
      BY <1>0, <3>1, <3>2, FS_AddElement
  <2>3. CASE bill.promo # p
    <3>1. redeemed'[p] = redeemed[p]
      BY <1>0, <2>1, <2>3 DEF RedeemPromoCode, TypeOK
    <3>2. Lowered(p)' = Lowered(p)
      BY <1>0, <2>1, <2>3, LoweredGrows
    <3>. QED
      BY <1>0, <3>1, <3>2
  <2>. QED
    BY <2>2, <2>3
<1>3. ASSUME NEW q \in Requests, Reads(q)
      PROVE  UNCHANGED <<bills, redeemed>>
  BY <1>3, ReadsKeepTables
<1>. QED
  BY <1>1, <1>2, <1>3 DEF Next, Reads, Writes, Tick, vars

\* Whatever fails between two statements, a promo code has been counted once for
\* every bill it has lowered.
THEOREM RedemptionSafety == Spec => []RedemptionsMatchBills
<1>1. Init => BillsCounted
  <2>. SUFFICES ASSUME Init, NEW p \in Promos
                PROVE  IsFiniteSet(Lowered(p)) /\ redeemed[p] = Cardinality(Lowered(p))
    BY DEF BillsCounted
  <2>1. Lowered(p) = {}
    BY DEF Init, Lowered
  <2>. QED
    BY <2>1, FS_EmptySet DEF Init
<1>2. BillsCounted => RedemptionsMatchBills
  BY DEF BillsCounted, Lowered, RedemptionsMatchBills
<1>. QED
  BY <1>1, <1>2, InitIInv, NextIInv, NextBillsCounted, PTL DEF Spec

-----------------------------------------------------------------------------
\* The ledger that partners are promised.

\* A call that has passed the check of its promo code holds one that was open
\* then, for its plan.
HonouredOK ==
  \A r \in Requests :
    pc[r] \in {"insert", "load", "lock", "store"} =>
      /\ call[r].at <= now
      /\ call[r].promo # None =>
           /\ call[r].at \in OpenAt[call[r].promo]
           /\ PromoPlan[call[r].promo] \in {None, call[r].plan}

\* Later steps of a call keep its promo code, its plan and the time of the check.
LEMMA NextHonoured == IInv /\ HonouredOK /\ [Next]_vars => HonouredOK'
<1>. SUFFICES ASSUME IInv, HonouredOK, [Next]_vars, NEW r \in Requests,
                     pc'[r] \in {"insert", "load", "lock", "store"}
              PROVE  /\ call'[r].at <= now'
                     /\ call'[r].promo # None =>
                          /\ call'[r].at \in OpenAt[call'[r].promo]
                          /\ PromoPlan[call'[r].promo] \in {None, call'[r].plan}
  BY DEF HonouredOK
<1>0. TypeOK /\ CallOK(r)
  BY DEF IInv
<1>1. CASE UNCHANGED vars
  BY <1>1 DEF vars, HonouredOK
<1>2. CASE Tick
  <2>1. UNCHANGED <<pc, call>> /\ now' = now + 1 /\ now \in Nat
    BY <1>0, <1>2 DEF Tick, TypeOK
  <2>2. call[r].at \in Nat
    BY <1>0, <2>1 DEF CallOK, Calls
  <2>. QED
    BY <2>1, <2>2 DEF HonouredOK
<1>3. ASSUME NEW q \in Requests, Step(q), q # r
      PROVE  pc'[r] = pc[r] /\ call'[r] = call[r] /\ now' = now
  BY <1>3, OthersKept, OwnCall
<1>4. CASE Step(r)
  <2>1. ~BeginSubscribe(r) /\ ~BeginUpgrade(r)
    BY <1>0 DEF BeginSubscribe, BeginUpgrade, Goto, TypeOK
  <2>2. /\ pc[r] \in {"promo", "load", "lock"} /\ Reads(r) /\ now' = now
        /\ call[r] \in Calls
    BY <1>0, <1>4, <2>1, OwnCall DEF CallOK
  <2>3. CASE pc[r] = "promo"
    <3>1. call'[r] = [call[r] EXCEPT !.at = now]
      BY <1>4, <2>1, <2>3, OwnCall
    <3>2. /\ call'[r].at = now /\ call'[r].promo = call[r].promo
          /\ call'[r].plan = call[r].plan
      BY <2>2, <3>1 DEF Calls
    <3>3. PromoOK(call[r].promo, call[r].plan)
      BY <1>0, <2>1, <2>2, <2>3 DEF Reads, SubscribeCheck, UpgradeCheck, ApplyPromo,
        UpgradeChoose, UpgradeLoad, Abandon, Finish, Goto, TypeOK
    <3>4. now <= now'
      BY <1>0, <2>2 DEF TypeOK
    <3>. QED
      BY <2>2, <3>2, <3>3, <3>4 DEF PromoOK
  <2>4. CASE pc[r] \in {"load", "lock"}
    <3>1. \/ call'[r] = call[r]
          \/ \E s \in Newest(call[r].partner) : call'[r] = [call[r] EXCEPT !.sub = s]
      BY <1>4, <2>1, <2>4, OwnCall
    <3>2. /\ call'[r].at = call[r].at /\ call'[r].promo = call[r].promo
          /\ call'[r].plan = call[r].plan
      BY <2>2, <3>1 DEF Calls
    <3>. QED
      BY <2>2, <2>4, <3>2 DEF HonouredOK
  <2>. QED
    BY <2>2, <2>3, <2>4
<1>. QED
  BY <1>1, <1>2, <1>3, <1>4 DEF Next, Step, HonouredOK

\* What a call that stores its dates at time at may charge.
LEMMA Honours ==
  ASSUME IInv, HonouredOK, PromoOverrun', NEW q \in Requests, Writes(q),
         NEW at \in call[q].at..now
  PROVE  Contract!Honoured(call[q].promo, call[q].plan, at) /\ at \in 0..now
<1>. DEFINE p == call[q].promo
<1>1. /\ TypeOK /\ call[q] \in Calls /\ pc[q] \in {"insert", "store"}
      /\ RedeemPromoCode(p)
  BY DEF IInv, CallOK, Writes, SubscribeStore, UpgradeStore
<1>2. call[q].at \in Nat /\ p \in Promos \cup {None} /\ now \in Nat /\ at \in 0..now
  BY <1>1 DEF Calls, TypeOK
<1>3. ASSUME p # None
      PROVE  /\ PromoPlan[p] \in {None, call[q].plan}
             /\ \E t \in 0..at : t \in OpenAt[p]
  BY <1>1, <1>2, <1>3 DEF HonouredOK
<1>4. ASSUME p # None, MaxRedemptions[p] > 0
      PROVE  redeemed[p] < MaxRedemptions[p] + (Cardinality(Requests) - 1)
  <2>1. redeemed'[p] = redeemed[p] + 1 /\ redeemed[p] \in Nat /\ p \in Promos
    BY <1>1, <1>2, <1>4 DEF RedeemPromoCode, TypeOK
  <2>2. redeemed'[p] + 1 <= MaxRedemptions[p] + Cardinality(Requests)
    BY <1>4, <2>1 DEF PromoOverrun
  <2>3. Cardinality(Requests) \in Nat /\ MaxRedemptions[p] \in Nat
    BY <2>1, HoldingFinite, PromoAssumption
  <2>. QED
    BY <2>1, <2>2, <2>3
<1>. QED
  BY <1>2, <1>3, <1>4 DEF Contract!Honoured

\* A store step counts the promo code as a charge does.
LEMMA Charges ==
  ASSUME TypeOK, NEW s \in Subscriptions, NEW type, NEW plan,
         NEW p \in Promos \cup {None}, RedeemPromoCode(p),
         bills' = [bills EXCEPT ![s] = Append(@, Bill(type, plan, p))]
  PROVE  Contract!Charge(s, type, plan, p)
<1>1. redeemed' = [x \in Promos |-> redeemed[x] + (IF x = p THEN 1 ELSE 0)]
  <2>1. redeemed \in [Promos -> Nat]
    BY DEF TypeOK
  <2>2. CASE p = None
    BY <2>1, <2>2, PromoAssumption DEF RedeemPromoCode
  <2>3. CASE p # None
    <3>1. redeemed' = [redeemed EXCEPT ![p] = @ + 1]
      BY <2>3 DEF RedeemPromoCode
    <3>2. ASSUME NEW x \in Promos
          PROVE  redeemed'[x] = redeemed[x] + (IF x = p THEN 1 ELSE 0)
      BY <2>1, <3>1
    <3>3. redeemed' = [x \in Promos |-> redeemed'[x]]
      BY <2>1, <3>1
    <3>. QED
      BY <3>2, <3>3
  <2>. QED
    BY <2>2, <2>3
<1>. QED
  BY <1>1 DEF Contract!Charge, Bill

\* The last statement of a call is a sale or an upgrade.
LEMMA ContractStep ==
  ASSUME IInv, HonouredOK, PromoOverrun', NEW q \in Requests, Writes(q)
  PROVE  Contract!Next
<1>. DEFINE c == call[q]
<1>0. TypeOK /\ CallOK(q) /\ pc[q] # "idle"
  BY DEF IInv, Writes, SubscribeStore, UpgradeStore
<1>1. c.sub \in Subscriptions /\ c.promo \in Promos \cup {None}
  BY <1>0 DEF CallOK, Calls, Writes, SubscribeStore, UpgradeStore
<1>2. CASE SubscribeStore(q)
  <2>1. /\ subs[c.sub] = NoSub /\ c.partner \in Partners /\ c.plan \in Plans
    BY <1>0, <1>2 DEF CallOK, Calls, SubscribeStore
  <2>2. PICK at \in c.at..now :
          subs' = [subs EXCEPT ![c.sub] =
            [partner |-> c.partner, plan |-> c.plan, end |-> at + Term[c.plan],
             created |-> at]]
    BY <1>2 DEF SubscribeStore
  <2>3. Contract!Honoured(c.promo, c.plan, at) /\ at \in 0..now
    BY <1>2, <2>2, Honours DEF Writes
  <2>4. Contract!Charge(c.sub, "purchase", c.plan, c.promo)
    BY <1>0, <1>1, <1>2, Charges DEF SubscribeStore
  <2>5. now' = now
    BY <1>2 DEF SubscribeStore
  <2>6. Contract!Sell(c.sub, c.partner, c.plan, c.promo)
    BY <2>1, <2>2, <2>3, <2>4, <2>5 DEF Contract!Sell, Contract!NoSub, NoSub
  <2>. QED
    BY <1>1, <2>1, <2>6 DEF Contract!Next, Contract!Plans, Plans
<1>3. CASE UpgradeStore(q)
  <2>1. subs[c.sub].plan = "monthly" /\ c.plan = "annual"
    BY <1>0, <1>3 DEF CallOK, UpgradeStore
  <2>2. PICK at \in c.at..now :
          subs' = [subs EXCEPT ![c.sub] =
            [@ EXCEPT !.plan = "annual", !.end = at + Term["annual"]]]
    BY <1>3 DEF UpgradeStore
  <2>3. Contract!Honoured(c.promo, "annual", at) /\ at \in 0..now
    BY <1>3, <2>1, <2>2, Honours DEF Writes
  <2>4. Contract!Charge(c.sub, "upgrade", "annual", c.promo)
    BY <1>0, <1>1, <1>3, Charges DEF UpgradeStore
  <2>5. now' = now
    BY <1>3 DEF UpgradeStore
  <2>6. subs' = [subs EXCEPT ![c.sub].plan = "annual",
                             ![c.sub].end = at + Term["annual"]]
    BY <1>0, <1>1, <2>2 DEF TypeOK
  <2>7. Contract!Upgrade(c.sub, c.promo)
    BY <2>1, <2>3, <2>4, <2>5, <2>6 DEF Contract!Upgrade
  <2>. QED
    BY <1>1, <2>7 DEF Contract!Next
<1>. QED
  BY <1>2, <1>3 DEF Writes

\* For any number of requests, checks, locks and failures included, the tables
\* change as the ledger of SubscriptionContract does.
THEOREM ContractKept == Spec => ContractSpec
<1>1. Init => Contract!Init /\ HonouredOK
  BY DEF Init, NoSub, Contract!Init, Contract!NoSub, HonouredOK
<1>2. IInv /\ HonouredOK /\ PromoOverrun' /\ [Next]_vars => [Contract!Next]_(Contract!vars)
  <2>. SUFFICES ASSUME IInv, HonouredOK, PromoOverrun', [Next]_vars
                PROVE  Contract!Next \/ UNCHANGED Contract!vars
    OBVIOUS
  <2>1. CASE UNCHANGED vars
    BY <2>1 DEF vars, Contract!vars
  <2>2. CASE Tick
    BY <2>2 DEF Tick, Contract!Tick, Contract!Next
  <2>3. ASSUME NEW q \in Requests, Reads(q)
        PROVE  UNCHANGED Contract!vars
    BY <2>3, ReadsKeepTables, OwnCall DEF Contract!vars, Reads, Step
  <2>4. ASSUME NEW q \in Requests, Writes(q)
        PROVE  Contract!Next
    BY <2>4, ContractStep
  <2>. QED
    BY <2>1, <2>2, <2>3, <2>4 DEF Next, Reads, Writes
<1>. QED
  BY <1>1, <1>2, InitIInv, NextIInv, NextHonoured, PromoSafety, PTL
    DEF Spec, ContractSpec, Contract!Spec
=============================================================================
