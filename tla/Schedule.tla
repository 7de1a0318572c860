------------------------------- MODULE Schedule -------------------------------
(***************************************************************************)
(* Bookings of a partner whose working hours change. The profile is that   *)
(* of module PartnerProfile and the slots are those of TimeSlots; a        *)
(* booking is that of module Booking with its accepts, which that module   *)
(* takes apart, in one step. All bookings are on one date.                 *)
(*                                                                         *)
(* The number of an ended booking is given to a new one. At most one call  *)
(* at a time creates or moves each booking.                                *)
(***************************************************************************)
EXTENDS PartnerProfile, TimeSlots, FiniteSets

CONSTANTS Bookings

VARIABLES
  status, slot, \* of each booking
  step, draft   \* next statement of its Create or Update call, and the slot asked for

bookings == <<status, slot, step, draft>>
vars == <<pvars, bookings>>

\* A slot also remembers the opening time that it was checked against.
NoSlot == [start |-> 0, end |-> 0, opened |-> 0]

Init ==
  /\ ProfileInit
  /\ status = [b \in Bookings |-> "over"]
  /\ slot = [b \in Bookings |-> NoSlot]
  /\ step = [b \in Bookings |-> "idle"]
  /\ draft = [b \in Bookings |-> NoSlot]

\* The slots a call may ask for: slotIsValid and validateBookingSlot.
Valid ==
  {[start |-> s.start, end |-> s.end, opened |-> hours.start] :
     s \in {s \in Slots(hours.start, hours.end) : s.start < s.end}}

\* SlotAccepted, and the partial unique index.
Accepted(start) ==
  {b \in Bookings : status[b] = "accepted" /\ slot[b].start = start}

Done(b) ==
  /\ step' = [step EXCEPT ![b] = "idle"]
  /\ draft' = [draft EXCEPT ![b] = NoSlot]

\* Create or Update reads the partner and checks the slot.
Ask(b) ==
  /\ step[b] = "idle" /\ status[b] \in {"over", "pending"}
  /\ \E s \in Valid : draft' = [draft EXCEPT ![b] = s]
  /\ step' = [step EXCEPT ![b] = IF status[b] = "over" THEN "check" ELSE "move"]
  /\ UNCHANGED <<pvars, status, slot>>

\* Create looks whether the slot is taken.
Check(b) ==
  /\ step[b] = "check" /\ Accepted(draft[b].start) = {}
  /\ step' = [step EXCEPT ![b] = "insert"]
  /\ UNCHANGED <<pvars, status, slot, draft>>

Insert(b) ==
  /\ step[b] = "insert"
  /\ status' = [status EXCEPT ![b] = "pending"]
  /\ slot' = [slot EXCEPT ![b] = draft[b]]
  /\ Done(b)
  /\ UNCHANGED pvars

\* The transaction of Update.
Move(b) ==
  /\ step[b] = "move"
  /\ status[b] = "pending" /\ Accepted(draft[b].start) = {}
  /\ slot' = [slot EXCEPT ![b] = draft[b]]
  /\ Done(b)
  /\ UNCHANGED <<pvars, status>>

\* A Create or Update call fails: its slot is taken, its booking is not pending
\* any more, or anything else.
Fail(b) ==
  /\ step[b] # "idle"
  /\ Done(b)
  /\ UNCHANGED <<pvars, status, slot>>

\* Nobody looks whether the slot is taken.
FaultyAccept(b) ==
  /\ status[b] = "pending"
  /\ status' = [status EXCEPT ![b] = "accepted"]
  /\ UNCHANGED <<pvars, slot, step, draft>>

\* The transaction of Accept: no other accepted booking begins at that time, and
\* the pending ones that do are rejected.
Accept(b) ==
  /\ status[b] = "pending" /\ Accepted(slot[b].start) = {}
  /\ status' = [c \in Bookings |->
       IF c = b THEN "accepted"
       ELSE IF status[c] = "pending" /\ slot[c].start = slot[b].start THEN "over"
       ELSE status[c]]
  /\ UNCHANGED <<pvars, slot, step, draft>>

\* Reject, Cancel, CancelByPartner or Complete.
End(b) ==
  /\ status[b] \in {"pending", "accepted"}
  /\ status' = [status EXCEPT ![b] = "over"]
  /\ UNCHANGED <<pvars, slot, step, draft>>

BookingNext(b) ==
  \/ Ask(b) \/ Check(b) \/ Insert(b) \/ Move(b) \/ Fail(b)
  \/ Accept(b) \/ End(b)

Next ==
  \/ \E r \in Requests : ProfileNext(r) /\ UNCHANGED bookings
  \/ \E b \in Bookings : BookingNext(b)

Spec == Init /\ [][Next]_vars

-----------------------------------------------------------------------------
\* Properties.

SlotType == [start : Nat, end : Nat, opened : Nat]

\* Every column and local variable holds values of its type.
TypeOK ==
  /\ ProfileTypeOK
  /\ status \in [Bookings -> {"over", "pending", "accepted"}]
  /\ slot \in [Bookings -> SlotType] /\ draft \in [Bookings -> SlotType]
  /\ step \in [Bookings -> {"idle", "check", "insert", "move"}]

\* The slots offered tile the working hours, whatever updates made them; two updates
\* that each were in order may leave hours that end before they start, which have none.
SlotsTileHours == Tiles(hours.start, hours.end)

\* Whether two opening times have the same slots.
SameGrid(s, t) == ((s - t) * Grain) % Duration = 0

\* Two accepted pickups overlap in time only if the opening time moved between
\* their requests by other than whole slots. The index compares start times
\* alone, and slots are cut short at closing time.
DisjointOnGrid ==
  \A a, b \in Bookings :
    /\ a # b /\ status[a] = "accepted" /\ status[b] = "accepted"
    /\ SameGrid(slot[a].opened, slot[b].opened)
    => slot[a].end <= slot[b].start \/ slot[b].end <= slot[a].start
=============================================================================
