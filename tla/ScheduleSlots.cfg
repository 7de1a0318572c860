\* Slots of a minute and a half; hours between minute 0 and 4, so that opening times differ
\* by whole slots (0 and 3) and by parts of one (1). Two updates of the profile at a time
\* before the first booking, then one; a polygon for each of them beside the first.
SPECIFICATION SpecProfileFirst
CONSTANTS
  Requests = {r1, r2}
  Times = {0, 1, 3, 4}
  Polygons = {p1, p2, p3}
  Bookings = {b1, b2}
  Grain = 2
  Duration = 3
  MayFail = TRUE
  None = None
SYMMETRY Symmetry
INVARIANTS TypeOK DisjointOnGrid AreaKeepsVertices SlotsTileHours
