\* Two requests over two partners, calls that fail half-way.
SPECIFICATION Spec
CONSTANTS
  Partners = {p1, p2}
  Requests = {r1, r2}
  Subscriptions = {s1, s2, s3}
  promo = c1
  Promos = {c1}
  MaxRedemptions <- Once
  PromoPlan <- AnnualOnly
  OpenAt <- EarlyOnly
  Term <- Terms
  MaxTime = 2
  Faults = TRUE
  None = None
SYMMETRY Symmetry
INVARIANTS TypeOK PromoOverrun RedemptionsMatchBills BillsTellPlan
PROPERTIES ContractSpec
