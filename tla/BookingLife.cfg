\* Two bookings of one slot, every way a booking can end short
\* of completion, and calls that fail half-way. Two requests are enough for a
\* deadlock of accepts. No symmetry, for the sake of liveness.
SPECIFICATION FairSpec
CONSTANTS
  Users = {u1}
  Partners = {p1}
  Slots = {s1}
  Bookings = {b1, b2}
  Codes = {c1}
  Requests = {r1, r2}
  Ops = {"create", "accept", "reject", "update", "cancel", "cancelByPartner"}
  OTPTTL = 1
  MaxTime = 1
  Faults = TRUE
  None = None
INVARIANTS AuditTrail LostToAnother NoticesMatchHistory NeverStuck
PROPERTIES CallsReturn
