--------------------------- MODULE BookingContract ---------------------------
(***************************************************************************)
(* What the booking component promises to customers and scrap partners,    *)
(* without transactions, locks or requests: the life of a booking, the     *)
(* partner's slot it competes for, and the completion code that must be    *)
(* confirmed before the pickup counts as completed.                        *)
(*                                                                         *)
(* Module Booking implements this specification.                           *)
(***************************************************************************)
EXTENDS Naturals

CONSTANTS
  Partners,   \* scrap partners
  Slots,      \* bookable <<date, start time>> pairs
  Bookings,   \* booking ids
  Codes,      \* completion codes
  None        \* the null value

VARIABLES
  status,     \* life-cycle state of each booking, "absent" before it exists
  partnerOf,  \* partner a booking was made with
  slotOf,     \* slot it asks for
  code,       \* completion code outstanding for it, None before one is issued
  verified    \* whether that code was confirmed

vars == <<status, partnerOf, slotOf, code, verified>>

Statuses ==
  {"absent", "pending", "accepted", "rejected", "cancelled", "completed"}

SameSlot(b, c) == partnerOf[b] = partnerOf[c] /\ slotOf[b] = slotOf[c]

Init ==
  /\ status = [b \in Bookings |-> "absent"]
  /\ partnerOf = [b \in Bookings |-> None]
  /\ slotOf = [b \in Bookings |-> None]
  /\ code = [b \in Bookings |-> None]
  /\ verified = [b \in Bookings |-> FALSE]

Become(b, to) == status' = [status EXCEPT ![b] = to]

\* A customer asks partner p for slot s.
Request(b, p, s) ==
  /\ status[b] = "absent"
  /\ Become(b, "pending")
  /\ partnerOf' = [partnerOf EXCEPT ![b] = p]
  /\ slotOf' = [slotOf EXCEPT ![b] = s]
  /\ UNCHANGED <<code, verified>>

\* While the request is pending the customer may ask for another slot.
Move(b, s) ==
  /\ status[b] = "pending"
  /\ slotOf' = [slotOf EXCEPT ![b] = s]
  /\ UNCHANGED <<status, partnerOf, code, verified>>

\* The partner accepts b. Its slot must be free of accepted bookings, and only
\* pending requests for the very same slot are turned down with it.
Accept(b, losers) ==
  /\ status[b] = "pending"
  /\ \A c \in Bookings : status[c] = "accepted" => ~SameSlot(b, c)
  /\ \A c \in losers : c # b /\ status[c] = "pending" /\ SameSlot(b, c)
  /\ status' = [c \in Bookings |->
                  IF c = b THEN "accepted"
                  ELSE IF c \in losers THEN "rejected" ELSE status[c]]
  /\ UNCHANGED <<partnerOf, slotOf, code, verified>>

Reject(b) ==
  /\ status[b] = "pending"
  /\ Become(b, "rejected")
  /\ UNCHANGED <<partnerOf, slotOf, code, verified>>

Cancel(b) ==
  /\ status[b] \in {"pending", "accepted"}
  /\ Become(b, "cancelled")
  /\ UNCHANGED <<partnerOf, slotOf, code, verified>>

\* A fresh completion code revokes the confirmation of an earlier one.
IssueCode(b, c) ==
  /\ status[b] = "accepted"
  /\ code' = [code EXCEPT ![b] = c]
  /\ verified' = [verified EXCEPT ![b] = FALSE]
  /\ UNCHANGED <<status, partnerOf, slotOf>>

Verify(b) ==
  /\ status[b] = "accepted"
  /\ code[b] # None
  /\ verified' = [verified EXCEPT ![b] = TRUE]
  /\ UNCHANGED <<status, partnerOf, slotOf, code>>

Complete(b) ==
  /\ status[b] = "accepted"
  /\ verified[b]
  /\ Become(b, "completed")
  /\ UNCHANGED <<partnerOf, slotOf, code, verified>>

Next ==
  \E b \in Bookings :
    \/ \E p \in Partners, s \in Slots : Request(b, p, s)
    \/ \E s \in Slots : Move(b, s)
    \/ \E losers \in SUBSET Bookings : Accept(b, losers)
    \/ Reject(b)
    \/ Cancel(b)
    \/ \E c \in Codes : IssueCode(b, c)
    \/ Verify(b)
    \/ Complete(b)

Spec == Init /\ [][Next]_vars
=============================================================================
