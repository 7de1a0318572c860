\* Every list and the home page, one at a time, with up to three entries.
SPECIFICATION Spec
CONSTANTS
  Users = {u1}
  Partners = {p1}
  Requests = {r1, r2}
  Ids = {i1, i2, i3}
  Places = {x1}
  Entries = {e1, e2, e3}
  Lists = {"addresses", "notifications", "ratings", "subscriptions", "bookings", "partners",
           "home"}
  AskedSizes = {0, 1, 5}
  DefaultPageSize = 2
  MaxPageSize = 2
  MaxTime = 2
  MayFail = TRUE
  None = None
SYMMETRY Symmetry
CONSTRAINT Focus
INVARIANTS TypeOK OneStoreAddress NothingSkipped NothingTwice HomeLosesNothing
PROPERTIES GoneForGood
