------------------------------ MODULE MCSchedule ------------------------------
(***************************************************************************)
(* Small instances of Schedule for TLC.                                    *)
(***************************************************************************)
EXTENDS Schedule, TLC

Symmetry == Permutations(Requests) \cup Permutations(Bookings)

NotBooked == \A b \in Bookings : step[b] = "idle" /\ slot[b] = NoSlot
Busy == {r \in Requests : pc[r] # "idle"}

\* An update of the hours and the area overlaps no other.
Overlap ==
  \A q, r \in Busy :
    q # r /\ call[r].polygon # None => call[r].start = None /\ call[r].end = None

\* Next, but updates overlap only before the first booking begins. After that, as
\* bookings do not read the area, one update at a time changes the hours, under one of
\* the polygons. A constraint would have TLC look at every step left out.
ProfileFirst ==
  \/ /\ NotBooked
     /\ \E r \in Requests : ProfileNext(r)
     /\ Overlap'
     /\ UNCHANGED bookings
  \/ /\ ~NotBooked
     /\ \E r \in Requests : Busy \subseteq {r} /\ ProfileNext(r) /\ call'[r].polygon = None
     /\ UNCHANGED bookings
  \/ /\ NotBooked => Busy = {} /\ vertices = {area} /\ area = CHOOSE p \in Polygons : TRUE
     /\ \E b \in Bookings : BookingNext(b)

SpecProfileFirst == Init /\ [][ProfileFirst]_vars
=============================================================================
