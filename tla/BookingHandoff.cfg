\* The completion code of one booking, requested by one of two customers: two codes,
\* codes that expire, and calls that fail half-way.
SPECIFICATION Spec
CONSTANTS
  Users = {u1, u2}
  Partners = {p1}
  Slots = {s1}
  Bookings = {b1}
  Codes = {c1, c2}
  Requests = {r1, r2}
  Ops = {"create", "accept", "sendOTP", "verifyOTP", "complete", "cancel",
         "cancelByPartner"}
  OTPTTL = 1
  MaxTime = 4
  Faults = TRUE
  None = None
SYMMETRY CodeSymmetry
INVARIANTS TypeOK HandoffConfirmed
PROPERTIES ContractSpec
