------------------------------- MODULE Reminder -------------------------------
(***************************************************************************)
(* The pickup reminders (src/internal/service/reminder_scheduler.go,       *)
(* ListPickupsDueForReminder and ClaimReminder of                          *)
(* src/internal/repository/booking_repository.go).                         *)
(*                                                                         *)
(* Time is in whole minutes, the grain of slot_start_time and of the       *)
(* window's bounds. Each process that runs the server has one scheduler; a *)
(* step of it is one statement of tick. The life of a booking is that of   *)
(* module BookingLife, which the bookings of module Booking have. The      *)
(* number of an ended booking is given to a new one, so that few numbers   *)
(* stand for any number of bookings.                                       *)
(*                                                                         *)
(* Operators whose name begins with Faulty are plausible bugs that show    *)
(* what the properties tell apart, as in module Booking.                   *)
(***************************************************************************)
EXTENDS Integers, Sequences, FiniteSets

CONSTANTS
  Bookings, Schedulers,
  Lead,       \* leadMinutes
  Interval,   \* poll interval, in whole minutes
  Day,        \* minutes of a day
  Slots,      \* start times of slots, in minutes since the first day began
  MaxTime,    \* bounds the clock
  MaxErrors,  \* bounds the number of queries that fail
  Slow,       \* schedulers whose ticks may take time
  Restarts,   \* whether processes stop and start
  None        \* NULL

ASSUME TimeAssumption ==
  /\ Lead \in Nat \ {0} /\ Interval \in Nat \ {0} /\ Day \in Nat \ {0}
  /\ Slots \subseteq Nat /\ MaxTime \in Nat /\ MaxErrors \in Nat
  /\ Restarts \in BOOLEAN
ASSUME SlowAssumption == Slow \subseteq Schedulers
ASSUME NoneAssumption == None \notin Bookings \cup Nat

VARIABLES
  status, slot,  \* of each booking
  sent,          \* reminder_sent_at of each booking
  since,         \* when each booking was accepted, None before
  told,          \* number of reminders of each booking that were stored
  pc,            \* next statement of each scheduler, or "down"
  windows,       \* windows that the tick of each scheduler has yet to query
  todo,          \* bookings that its last query found and are yet to be claimed
  job,           \* the booking that it has claimed
  due,           \* whether its ticker has fired
  next,          \* when its ticker fires next
  up,            \* when it was last started
  errors, now

rows == <<status, slot, since>>
ticks == <<due, next, up>>
vars == <<rows, sent, told, pc, windows, todo, job, ticks, errors, now>>

Init ==
  /\ status = [b \in Bookings |-> "over"]
  /\ slot = [b \in Bookings |-> 0]
  /\ sent = [b \in Bookings |-> None]
  /\ since = [b \in Bookings |-> None]
  /\ told = [b \in Bookings |-> 0]
  /\ pc = [s \in Schedulers |-> "idle"]
  /\ windows = [s \in Schedulers |-> <<>>]
  /\ todo = [s \in Schedulers |-> {}]
  /\ job = [s \in Schedulers |-> None]
  /\ due = [s \in Schedulers |-> FALSE]
  /\ errors = 0
  /\ now = Interval  \* a window begins at time 0 or later
  /\ next = [s \in Schedulers |-> now + Interval]
  /\ up = [s \in Schedulers |-> now]

-----------------------------------------------------------------------------
\* The life of bookings.

\* A new booking takes a number no scheduler still holds.
Request(b) ==
  /\ status[b] = "over"
  /\ \A s \in Schedulers : b \notin todo[s] /\ job[s] # b
  /\ status' = [status EXCEPT ![b] = "pending"]
  /\ \E t \in Slots : slot' = [slot EXCEPT ![b] = t]
  /\ since' = [since EXCEPT ![b] = None]
  /\ sent' = [sent EXCEPT ![b] = None]
  /\ told' = [told EXCEPT ![b] = 0]
  /\ UNCHANGED <<pc, windows, todo, job, ticks, errors, now>>

\* Update.
Move(b) ==
  /\ status[b] = "pending"
  /\ \E t \in Slots : slot' = [slot EXCEPT ![b] = t]
  /\ UNCHANGED <<status, since, sent, told, pc, windows, todo, job, ticks, errors, now>>

Accept(b) ==
  /\ status[b] = "pending"
  /\ status' = [status EXCEPT ![b] = "accepted"]
  /\ since' = [since EXCEPT ![b] = now]
  /\ UNCHANGED <<slot, sent, told, pc, windows, todo, job, ticks, errors, now>>

\* Reject, Cancel, CancelByPartner or Complete.
End(b) ==
  /\ status[b] \in {"pending", "accepted"}
  /\ status' = [status EXCEPT ![b] = "over"]
  /\ UNCHANGED <<slot, since, sent, told, pc, windows, todo, job, ticks, errors, now>>

-----------------------------------------------------------------------------
\* Windows. A window is a date and two times of that day, as in dateWindow.

Window(date, from, to) == [date |-> date, from |-> from, to |-> to]

\* Only the first day's part of the window.
FaultySplit(from, to) ==
  IF from \div Day = to \div Day
  THEN <<Window(from \div Day, from % Day, to % Day)>>
  ELSE <<Window(from \div Day, from % Day, Day - 1)>>

\* splitByDate.
Split(from, to) ==
  IF from \div Day = to \div Day
  THEN <<Window(from \div Day, from % Day, to % Day)>>
  ELSE <<Window(from \div Day, from % Day, Day - 1),
         Window(to \div Day, 0, to % Day)>>

\* The lead time is subtracted.
FaultyTickWindows(t) == Split(t - Lead - Interval, t - Lead + Interval)

\* What tick queries at time t.
TickWindows(t) == Split(t + Lead - Interval, t + Lead + Interval)

\* The date of the slot is not compared.
FaultyDueIn(w) ==
  {b \in Bookings :
     /\ status[b] = "accepted"
     /\ w.from <= slot[b] % Day /\ slot[b] % Day <= w.to
     /\ sent[b] = None}

\* The status is not compared.
AnyDueIn(w) ==
  {b \in Bookings :
     /\ slot[b] \div Day = w.date
     /\ w.from <= slot[b] % Day /\ slot[b] % Day <= w.to
     /\ sent[b] = None}

\* ListPickupsDueForReminder.
DueIn(w) ==
  {b \in Bookings :
     /\ status[b] = "accepted"
     /\ slot[b] \div Day = w.date
     /\ w.from <= slot[b] % Day /\ slot[b] % Day <= w.to
     /\ sent[b] = None}

-----------------------------------------------------------------------------
\* The schedulers.

Goto(s, label) == pc' = [pc EXCEPT ![s] = label]

\* The select of Run takes the tick from the channel; tick reads the clock.
Fire(s) ==
  /\ pc[s] = "idle" /\ due[s]
  /\ due' = [due EXCEPT ![s] = FALSE]
  /\ windows' = [windows EXCEPT ![s] = TickWindows(now)]
  /\ Goto(s, "list")
  /\ UNCHANGED <<rows, sent, told, todo, job, next, up, errors, now>>

\* The query of the next window.
List(s) ==
  /\ pc[s] = "list" /\ windows[s] # <<>>
  /\ windows' = [windows EXCEPT ![s] = Tail(@)]
  /\ todo' = [todo EXCEPT ![s] = DueIn(Head(windows[s]))]
  /\ Goto(s, "claim")
  /\ UNCHANGED <<rows, sent, told, job, ticks, errors, now>>

\* The query fails: tick goes on with the next window.
ListError(s) ==
  /\ pc[s] = "list" /\ windows[s] # <<>>
  /\ errors < MaxErrors /\ errors' = errors + 1
  /\ windows' = [windows EXCEPT ![s] = Tail(@)]
  /\ UNCHANGED <<rows, sent, told, pc, todo, job, ticks, now>>

TickDone(s) ==
  /\ pc[s] = "list" /\ windows[s] = <<>>
  /\ Goto(s, "idle")
  /\ UNCHANGED <<rows, sent, told, windows, todo, job, ticks, errors, now>>

\* The claim does not look whether the reminder was sent.
FaultyClaim(s) ==
  /\ pc[s] = "claim"
  /\ \E b \in todo[s] :
       /\ todo' = [todo EXCEPT ![s] = @ \ {b}]
       /\ sent' = [sent EXCEPT ![b] = now]
       /\ job' = [job EXCEPT ![s] = b] /\ Goto(s, "notify")
  /\ UNCHANGED <<rows, told, windows, ticks, errors, now>>

\* ClaimReminder: UPDATE ... WHERE id = ? AND reminder_sent_at IS NULL. The
\* scheduler that changes the row sends the reminder.
Claim(s) ==
  /\ pc[s] = "claim"
  /\ \E b \in todo[s] :
       /\ todo' = [todo EXCEPT ![s] = @ \ {b}]
       /\ \/ /\ sent[b] = None
             /\ sent' = [sent EXCEPT ![b] = now]
             /\ job' = [job EXCEPT ![s] = b] /\ Goto(s, "notify")
          \/ sent[b] # None /\ UNCHANGED <<sent, job, pc>>
  /\ UNCHANGED <<rows, told, windows, ticks, errors, now>>

\* The claim fails: tick goes on with the next booking.
ClaimError(s) ==
  /\ pc[s] = "claim"
  /\ errors < MaxErrors /\ errors' = errors + 1
  /\ \E b \in todo[s] : todo' = [todo EXCEPT ![s] = @ \ {b}]
  /\ UNCHANGED <<rows, sent, told, pc, windows, job, ticks, now>>

ClaimsDone(s) ==
  /\ pc[s] = "claim" /\ todo[s] = {}
  /\ Goto(s, "list")
  /\ UNCHANGED <<rows, sent, told, windows, todo, job, ticks, errors, now>>

\* PickupReminder tells the customer and the partner.
Notify(s) ==
  /\ pc[s] = "notify"
  /\ told' = [told EXCEPT ![job[s]] = @ + 1]
  /\ job' = [job EXCEPT ![s] = None]
  /\ Goto(s, "claim")
  /\ UNCHANGED <<rows, sent, windows, todo, ticks, errors, now>>

\* The process stops, wherever its scheduler is: main does not wait for it.
Stop(s) ==
  /\ Restarts /\ pc[s] # "down"
  /\ Goto(s, "down")
  /\ windows' = [windows EXCEPT ![s] = <<>>]
  /\ todo' = [todo EXCEPT ![s] = {}]
  /\ job' = [job EXCEPT ![s] = None]
  /\ due' = [due EXCEPT ![s] = FALSE]
  /\ UNCHANGED <<rows, sent, told, next, up, errors, now>>

Start(s) ==
  /\ pc[s] = "down"
  /\ Goto(s, "idle")
  /\ next' = [next EXCEPT ![s] = now + Interval]
  /\ up' = [up EXCEPT ![s] = now]
  /\ UNCHANGED <<rows, sent, told, windows, todo, job, due, errors, now>>

\* The tickers fire; a ticker whose last tick was not taken drops one.
Minute ==
  /\ now < MaxTime
  /\ \A s \in Schedulers \ Slow : pc[s] \in {"idle", "down"} /\ ~due[s]
  /\ now' = now + 1
  /\ due' = [s \in Schedulers |-> pc[s] # "down" /\ (due[s] \/ next[s] = now')]
  /\ next' = [s \in Schedulers |->
                IF next[s] = now' THEN now' + Interval ELSE next[s]]
  /\ UNCHANGED <<rows, sent, told, pc, windows, todo, job, up, errors>>

Next ==
  \/ Minute
  \/ \E b \in Bookings : Request(b) \/ Move(b) \/ Accept(b) \/ End(b)
  \/ \E s \in Schedulers :
       \/ Fire(s) \/ List(s) \/ ListError(s) \/ TickDone(s)
       \/ Claim(s) \/ ClaimError(s) \/ ClaimsDone(s) \/ Notify(s)
       \/ Stop(s) \/ Start(s)

Spec == Init /\ [][Next]_vars

-----------------------------------------------------------------------------
\* Properties.

Windows == [date : Nat, from : Nat, to : Nat]

\* Every column and local variable holds values of its type.
TypeOK ==
  /\ status \in [Bookings -> {"over", "pending", "accepted"}]
  /\ slot \in [Bookings -> Nat] /\ since \in [Bookings -> Nat \cup {None}]
  /\ sent \in [Bookings -> Nat \cup {None}]
  /\ told \in [Bookings -> Nat]
  /\ pc \in [Schedulers -> {"down", "idle", "list", "claim", "notify"}]
  /\ windows \in [Schedulers -> Seq(Windows)]
  /\ todo \in [Schedulers -> SUBSET Bookings]
  /\ job \in [Schedulers -> Bookings \cup {None}]
  /\ due \in [Schedulers -> BOOLEAN]
  /\ next \in [Schedulers -> Nat] /\ up \in [Schedulers -> Nat]
  /\ errors \in 0..MaxErrors /\ now \in Nat

\* A booking is reminded of at most once, and only after it was claimed, by
\* however many schedulers that list it at the same time, stop and start
\* ("ClaimReminder guarantees it is still only ever sent once").
RemindedOnce ==
  \A b \in Bookings :
    told[b] <= (IF sent[b] = None THEN 0 ELSE 1)

\* A booking accepted before its window opens is claimed before it closes, if
\* some scheduler whose ticks take no time was up all that time and at most one
\* statement of the schedulers has failed so far ("a booking is never missed
\* between ticks").
NeverMissed ==
  \A b \in Bookings :
    LET opens == slot[b] - Lead - Interval IN
    /\ status[b] = "accepted" /\ since[b] <= opens
    /\ \E s \in Schedulers \ Slow : pc[s] # "down" /\ up[s] <= opens
    /\ now > slot[b] - Lead + Interval /\ errors <= 1
    => sent[b] # None

\* A reminder is never claimed before its window opens, whatever the dates of
\* the window and the pickup and however old the scheduler's query is.
NeverEarly ==
  \A b \in Bookings : sent[b] # None => sent[b] >= slot[b] - Lead - Interval

\* The schedulers keep the promises of ReminderContract: whatever they still hold
\* of old queries, they claim only what was accepted, when its time has come and
\* nobody has claimed it, and send once what they have claimed.
Contract == INSTANCE ReminderContract WITH Early <- Lead + Interval
ContractSpec == Contract!Spec
=============================================================================
