------------------------------ MODULE MCBooking ------------------------------
(***************************************************************************)
(* Small instances of Booking for TLC.                                     *)
(***************************************************************************)
EXTENDS Booking, TLC

\* Bookings, requests, slots and codes are interchangeable: no
\* definition singles one out. Only for runs without liveness properties.
Symmetry == Permutations(Bookings) \cup Permutations(Requests)
SlotSymmetry == Symmetry \cup Permutations(Slots)
CodeSymmetry == Symmetry \cup Permutations(Codes)
=============================================================================
