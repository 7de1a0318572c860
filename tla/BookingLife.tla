------------------------------ MODULE BookingLife ------------------------------
(***************************************************************************)
(* The life of a single booking as far as its reminder depends on it: it   *)
(* may be moved to another slot until it is accepted and never after that. *)
(*                                                                         *)
(* Module Reminder takes each of its bookings to live like this; each one  *)
(* of module Booking does.                                                 *)
(***************************************************************************)
CONSTANTS Slots

VARIABLES
  status,  \* "pending", "accepted" or "over"
  slot

vars == <<status, slot>>

Init == status = "over"

Request ==
  /\ status = "over" /\ status' = "pending"
  /\ slot' \in Slots

Move ==
  /\ status = "pending" /\ status' = "pending"
  /\ slot' \in Slots

Accept ==
  /\ status = "pending" /\ status' = "accepted"
  /\ UNCHANGED slot

\* Rejected, cancelled or completed.
End ==
  /\ status \in {"pending", "accepted"} /\ status' = "over"
  /\ UNCHANGED slot

Next == Request \/ Move \/ Accept \/ End

Spec == Init /\ [][Next]_vars
=============================================================================
