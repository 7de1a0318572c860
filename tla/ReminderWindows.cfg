\* A prompt and a slow scheduler that stop and start, and two failing statements. Midnight is at
\* 8; the slots lie on both sides of it and a day later.
SPECIFICATION Spec
CONSTANTS
  Bookings = {b1}
  Schedulers = {s1, s2}
  Lead = 3
  Interval = 2
  Day = 8
  Slots = {7, 8, 13}
  MaxTime = 9
  MaxErrors = 2
  Slow = {s2}
  Restarts = TRUE
  None = None
SYMMETRY Symmetry
INVARIANTS TypeOK RemindedOnce NeverMissed NeverEarly
PROPERTIES ContractSpec
