\* Three requests and three bookings compete for two slots of one partner.
SPECIFICATION Spec
CONSTANTS
  Users = {u1}
  Partners = {p1}
  Slots = {s1, s2}
  Bookings = {b1, b2, b3}
  Codes = {c1}
  Requests = {r1, r2, r3}
  Ops = {"create", "accept", "update", "cancelByPartner"}
  OTPTTL = 1
  MaxTime = 1
  Faults = FALSE
  None = None
SYMMETRY SlotSymmetry
INVARIANTS SlotExclusive
PROPERTIES ContractSpec
