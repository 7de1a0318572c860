\* A partner whose month is over.
SPECIFICATION Spec
CONSTANTS
  Partners = {p1}
  Requests = {r1}
  Subscriptions = {s1, s2}
  promo = c1
  Promos = {c1}
  MaxRedemptions <- Once
  PromoPlan <- AnnualOnly
  OpenAt <- EarlyOnly
  Term <- Terms
  MaxTime = 2
  Faults = FALSE
  None = None
SYMMETRY Symmetry
PROPERTIES RefusedWhileSubscribed
