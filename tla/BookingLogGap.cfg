\* An accept turns down a competing request.
SPECIFICATION Spec
CONSTANTS
  Users = {u1}
  Partners = {p1}
  Slots = {s1}
  Bookings = {b1, b2}
  Codes = {c1}
  Requests = {r1, r2}
  Ops = {"create", "accept"}
  OTPTTL = 1
  MaxTime = 1
  Faults = FALSE
  None = None
SYMMETRY Symmetry
INVARIANTS LogIsComplete
