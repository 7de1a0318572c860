\* Two Subscribe calls of one partner.
SPECIFICATION Spec
CONSTANTS
  Partners = {p1}
  Requests = {r1, r2}
  Subscriptions = {s1, s2}
  promo = c1
  Promos = {c1}
  MaxRedemptions <- Once
  PromoPlan <- AnnualOnly
  OpenAt <- EarlyOnly
  Term <- Terms
  MaxTime = 0
  Faults = FALSE
  None = None
SYMMETRY Symmetry
INVARIANTS OneActive
