--------------------------- MODULE ReminderContract ---------------------------
(***************************************************************************)
(* What the pickup reminders promise, without schedulers, queries and      *)
(* windows: a booking that was accepted is claimed at most once, not       *)
(* before its time, and the reminder is sent at most once, after that. It  *)
(* may come after the booking has ended: nothing looks again.              *)
(*                                                                         *)
(* Module Reminder implements this specification.                          *)
(***************************************************************************)
EXTENDS Integers

CONSTANTS
  Bookings,
  Slots,   \* times of pickups
  Early,   \* the longest time before a pickup at which a reminder makes sense
  None     \* not yet

VARIABLES
  status, slot, \* of each booking
  since,        \* when it was accepted
  sent,         \* when its reminder was claimed
  told,         \* reminders sent of it
  now

vars == <<status, slot, since, sent, told, now>>

Init ==
  /\ status = [b \in Bookings |-> "over"]
  /\ slot = [b \in Bookings |-> 0]
  /\ since = [b \in Bookings |-> None]
  /\ sent = [b \in Bookings |-> None]
  /\ told = [b \in Bookings |-> 0]
  /\ now \in Nat

Request(b, t) ==
  /\ status[b] = "over"
  /\ status' = [status EXCEPT ![b] = "pending"]
  /\ slot' = [slot EXCEPT ![b] = t]
  /\ since' = [since EXCEPT ![b] = None]
  /\ sent' = [sent EXCEPT ![b] = None]
  /\ told' = [told EXCEPT ![b] = 0]
  /\ UNCHANGED now

\* Until it is accepted a booking may be moved.
Move(b, t) ==
  /\ status[b] = "pending"
  /\ slot' = [slot EXCEPT ![b] = t]
  /\ UNCHANGED <<status, since, sent, told, now>>

Accept(b) ==
  /\ status[b] = "pending"
  /\ status' = [status EXCEPT ![b] = "accepted"]
  /\ since' = [since EXCEPT ![b] = now]
  /\ UNCHANGED <<slot, sent, told, now>>

End(b) ==
  /\ status[b] \in {"pending", "accepted"}
  /\ status' = [status EXCEPT ![b] = "over"]
  /\ UNCHANGED <<slot, since, sent, told, now>>

\* Somebody takes it upon himself to remind of b. A booking that was turned down
\* or withdrawn before it was accepted is never reminded of.
Claim(b) ==
  /\ since[b] # None
  /\ sent[b] = None
  /\ slot[b] - Early <= now
  /\ sent' = [sent EXCEPT ![b] = now]
  /\ UNCHANGED <<status, slot, since, told, now>>

Send(b) ==
  /\ sent[b] # None
  /\ told[b] = 0
  /\ told' = [told EXCEPT ![b] = 1]
  /\ UNCHANGED <<status, slot, since, sent, now>>

Minute == now' = now + 1 /\ UNCHANGED <<status, slot, since, sent, told>>

Next ==
  \/ Minute
  \/ \E b \in Bookings :
       \/ \E t \in Slots : Request(b, t) \/ Move(b, t)
       \/ Accept(b) \/ End(b) \/ Claim(b) \/ Send(b)

Spec == Init /\ [][Next]_vars
=============================================================================
