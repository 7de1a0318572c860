\* Two updates of the profile at a time, without bookings.
SPECIFICATION Spec
CONSTANTS
  Requests = {r1, r2}
  Times = {0, 1, 3}
  Polygons = {p1, p2, p3, p4}
  Bookings = {}
  Grain = 2
  Duration = 3
  MayFail = TRUE
  None = None
SYMMETRY Symmetry
INVARIANTS AreaMatchesVertices
