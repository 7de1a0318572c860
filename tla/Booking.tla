------------------------------- MODULE Booking -------------------------------
(***************************************************************************)
(* The booking service and repository of the backend                       *)
(* (src/internal/service/booking_service.go and                            *)
(* src/internal/repository/booking_repository.go) over PostgreSQL.         *)
(*                                                                         *)
(* Every API call is a goroutine, here a request slot r \in Requests that  *)
(* serves one call after another. A step is one SQL statement (or the      *)
(* last statement together with COMMIT): between two steps of a request    *)
(* any other request may run. The database runs at READ COMMITTED: a plain *)
(* SELECT reads what is committed and never waits, SELECT ... FOR UPDATE   *)
(* and UPDATE take the row's lock and hold it to the end of the            *)
(* transaction. Writes become visible at the step that commits.            *)
(*                                                                         *)
(* Operators whose name begins with Faulty are not part of the model: each *)
(* is a definition as a plausible bug would make it, kept beside the right *)
(* one to show that the properties below tell them apart.                  *)
(***************************************************************************)
EXTENDS Naturals, Sequences, FiniteSets

CONSTANTS
  Users, Partners, \* customers and scrap partners
  Slots,           \* valid <<slot_date, slot_start_time>> pairs
  Bookings,        \* booking ids (bounds the number of bookings)
  Codes,           \* completion codes the OTP generator can return
  Requests,        \* request slots (bounds the calls in flight)
  Ops,             \* operations the clients call in this instance
  OTPTTL,          \* bookingOTPTTL, in ticks
  MaxTime,         \* bounds the clock
  Faults,          \* whether calls may fail half-way
  None             \* NULL

UserOps == {"create", "update", "cancel"}
PartnerOps ==
  {"accept", "reject", "cancelByPartner", "sendOTP", "verifyOTP", "complete"}
Operations == UserOps \cup PartnerOps

ASSUME OpsAssumption == Ops \subseteq Operations
ASSUME TimeAssumption == OTPTTL \in Nat /\ MaxTime \in Nat
ASSUME FaultsAssumption == Faults \in BOOLEAN
ASSUME NoneAssumption ==
  /\ None \notin Requests \cup Codes \cup Slots
  /\ None \notin Users \cup Partners

VARIABLES
  status,    \* [Bookings -> Statuses], "absent" until the row is inserted
  userOf,    \* user_id
  partnerOf, \* partner_id
  slotOf,    \* slot_date and slot_start_time
  handoff,   \* completion_otp, its expiry, otp_verified_at (0 is NULL)
  log,       \* booking_status_logs rows, oldest first
  notices,   \* how many notifications of each kind were persisted
  lock,      \* request holding the row's lock, or None
  pc,        \* next statement of each request
  call,      \* the call it serves
  cand,      \* rows its competitor UPDATE still has to visit
  losers,    \* rows its competitor UPDATE has set to rejected
  now        \* wall clock

rows == <<status, userOf, partnerOf, slotOf, handoff>>
effects == <<log, notices>>
vars == <<status, userOf, partnerOf, slotOf, handoff, log, notices,
          lock, pc, call, cand, losers, now>>

Statuses ==
  {"absent", "pending", "accepted", "rejected", "cancelled", "completed"}

\* The persisted notification each operation sends when it has committed:
\* "requested" and "cancelled" go to the partner, the others to the customer.
NoticeOf ==
  [create |-> "requested", accept |-> "accepted", reject |-> "rejected",
   cancel |-> "cancelled", cancelByPartner |-> "cancelledByPartner",
   complete |-> "completed"]
Notices == {"requested", "accepted", "rejected", "cancelled",
            "cancelledByPartner", "completed"}

PCs == {"idle", "check", "insert", "load", "count", "mark", "compete",
        "store", "mail", "notify"}

NoCall == [op |-> None, b |-> None, actor |-> None, partner |-> None,
           slot |-> None, code |-> None, at |-> 0]
NoHandoff ==
  [code |-> None, expiry |-> 0, verifiedAt |-> 0, verifiedCode |-> None]

Init ==
  /\ status = [b \in Bookings |-> "absent"]
  /\ userOf = [b \in Bookings |-> None]
  /\ partnerOf = [b \in Bookings |-> None]
  /\ slotOf = [b \in Bookings |-> None]
  /\ handoff = [b \in Bookings |-> NoHandoff]
  /\ log = [b \in Bookings |-> <<>>]
  /\ notices = [b \in Bookings |-> [n \in Notices |-> 0]]
  /\ lock = [b \in Bookings |-> None]
  /\ pc = [r \in Requests |-> "idle"]
  /\ call = [r \in Requests |-> NoCall]
  /\ cand = [r \in Requests |-> {}]
  /\ losers = [r \in Requests |-> {}]
  /\ now = 1

-----------------------------------------------------------------------------
\* Requests and transactions.

Goto(r, label) == pc' = [pc EXCEPT ![r] = label]

\* The handler returns; its transaction, if one is open, is over.
Finish(r) ==
  /\ Goto(r, "idle")
  /\ call' = [call EXCEPT ![r] = NoCall]
  /\ cand' = [cand EXCEPT ![r] = {}]
  /\ losers' = [losers EXCEPT ![r] = {}]

\* COMMIT and ROLLBACK free every row lock of the transaction.
Release(r) ==
  lock' = [b \in Bookings |-> IF lock[b] = r THEN None ELSE lock[b]]

\* A rollback that forgets the locks.
FaultyRollback(r) == Finish(r) /\ UNCHANGED <<rows, effects, lock, now>>

\* An error return: nothing the transaction wrote survives.
Rollback(r) == Finish(r) /\ Release(r) /\ UNCHANGED <<rows, effects, now>>

\* The transaction commits and the service goes on to the step at label.
Commit(r, label) ==
  /\ Release(r)
  /\ Goto(r, label)
  /\ cand' = [cand EXCEPT ![r] = {}]
  /\ losers' = [losers EXCEPT ![r] = {}]
  /\ UNCHANGED <<call, now>>

SameSlot(b, c) == partnerOf[b] = partnerOf[c] /\ slotOf[b] = slotOf[c]

\* SELECT count(*) of accepted bookings of a partner's slot. The statements
\* that leave out the booking itself run while it is pending.
Taken(p, s) ==
  \E c \in Bookings : status[c] = "accepted" /\ partnerOf[c] = p /\ slotOf[c] = s

\* WHERE id = ? AND user_id = ?, or AND partner_id = ?.
Owns(r) ==
  LET c == call[r] IN
  IF c.op \in UserOps THEN userOf[c.b] = c.actor ELSE partnerOf[c.b] = c.actor

\* The same SELECT without FOR UPDATE.
FaultyLoad(r, op, ok, label) ==
  /\ pc[r] = "load" /\ call[r].op = op
  /\ \/ Owns(r) /\ ok /\ Goto(r, label) /\ UNCHANGED <<call, cand, losers>>
     \/ ~(Owns(r) /\ ok) /\ Finish(r)
  /\ UNCHANGED <<rows, effects, lock, now>>

\* SELECT ... FOR UPDATE of the caller's booking, then the check of its state.
\* A row of somebody else is not found and not waited for; a locked row is
\* waited for and its state checked as it is once the lock is granted.
Load(r, op, ok, label) ==
  LET b == call[r].b IN
  /\ pc[r] = "load" /\ call[r].op = op
  /\ \/ /\ Owns(r) /\ lock[b] = None /\ ok
        /\ lock' = [lock EXCEPT ![b] = r]
        /\ Goto(r, label)
        /\ UNCHANGED <<call, cand, losers>>
     \/ /\ ~Owns(r) \/ (lock[b] = None /\ ~ok)
        /\ Finish(r) /\ UNCHANGED lock
  /\ UNCHANGED <<rows, effects, now>>

\* UPDATE ... SET status, INSERT of the status log, COMMIT, then the notification.
Transition(r, to) ==
  LET b == call[r].b IN
  /\ status' = [status EXCEPT ![b] = to]
  /\ log' = [log EXCEPT ![b] = Append(@, to)]
  /\ Commit(r, "notify")
  /\ UNCHANGED <<userOf, partnerOf, slotOf, handoff, notices>>

-----------------------------------------------------------------------------
\* Arrival of calls. A code is generated, and the time read, before the
\* transaction begins.

NewCall(op, b, actor, partner, slot, code, at) ==
  [op |-> op, b |-> b, actor |-> actor, partner |-> partner, slot |-> slot,
   code |-> code, at |-> at]

BeginCreate(r) ==
  /\ pc[r] = "idle" /\ "create" \in Ops
  /\ \E u \in Users, p \in Partners, s \in Slots, b \in Bookings :
       /\ status[b] = "absent" /\ \A q \in Requests : call[q].b # b
       /\ call' = [call EXCEPT ![r] = NewCall("create", b, u, p, s, None, 0)]
  /\ Goto(r, "check")
  /\ UNCHANGED <<rows, effects, lock, cand, losers, now>>

\* The arguments a call comes with; only the code operations read the clock.
Actors(op) == IF op \in UserOps THEN Users ELSE Partners
SlotArgs(op) == IF op = "update" THEN Slots ELSE {None}
CodeArgs(op) == IF op \in {"sendOTP", "verifyOTP"} THEN Codes ELSE {None}
TimeArg(op) == IF op \in {"sendOTP", "verifyOTP"} THEN now ELSE 0

Begin(r) ==
  /\ pc[r] = "idle"
  /\ \E op \in Ops \ {"create"}, b \in Bookings :
       /\ status[b] # "absent"
       /\ \E a \in Actors(op), s \in SlotArgs(op), c \in CodeArgs(op) :
            call' = [call EXCEPT ![r] = NewCall(op, b, a, None, s, c, TimeArg(op))]
  /\ Goto(r, "load")
  /\ UNCHANGED <<rows, effects, lock, cand, losers, now>>

-----------------------------------------------------------------------------
\* Create: the slot is checked before, and outside, the inserting transaction.

CreateCheck(r) ==
  LET c == call[r] IN
  /\ pc[r] = "check"
  /\ \/ Taken(c.partner, c.slot) /\ Finish(r)
     \/ /\ ~Taken(c.partner, c.slot)
        /\ Goto(r, "insert")
        /\ UNCHANGED <<call, cand, losers>>
  /\ UNCHANGED <<rows, effects, lock, now>>

CreateInsert(r) ==
  LET c == call[r] IN
  /\ pc[r] = "insert"
  /\ userOf' = [userOf EXCEPT ![c.b] = c.actor]
  /\ partnerOf' = [partnerOf EXCEPT ![c.b] = c.partner]
  /\ slotOf' = [slotOf EXCEPT ![c.b] = c.slot]
  /\ status' = [status EXCEPT ![c.b] = "pending"]
  /\ log' = [log EXCEPT ![c.b] = Append(@, "pending")]
  /\ Commit(r, "notify")
  /\ UNCHANGED <<handoff, notices>>

-----------------------------------------------------------------------------
\* Accept: lock, count, UPDATE own row, UPDATE competing rows, log, COMMIT.

AcceptLoad(r) ==
  Load(r, "accept", status[call[r].b] = "pending", "count")

AcceptCount(r) ==
  LET b == call[r].b IN
  /\ pc[r] = "count" /\ call[r].op = "accept"
  /\ \/ Taken(partnerOf[b], slotOf[b]) /\ Rollback(r)
     \/ /\ ~Taken(partnerOf[b], slotOf[b])
        /\ Goto(r, "mark")
        /\ UNCHANGED <<rows, effects, lock, call, cand, losers, now>>

\* Other requests whose uncommitted UPDATE has put an entry for the slot of b
\* into the partial unique index idx_bookings_accepted_slot.
Claimants(b) ==
  {q \in Requests : pc[q] = "compete" /\ SameSlot(call[q].b, b)}

\* No unique index: the count before it is all that guards the slot.
FaultyAcceptMark(r) ==
  LET b == call[r].b IN
  /\ pc[r] = "mark"
  /\ cand' = [cand EXCEPT ![r] =
       {c \in Bookings \ {b} : status[c] = "pending" /\ SameSlot(c, b)}]
  /\ Goto(r, "compete")
  /\ UNCHANGED <<rows, effects, lock, call, losers, now>>

\* UPDATE ... SET status = 'accepted'. The index admits one accepted booking
\* per slot: a committed one is a unique violation, an uncommitted one is
\* waited for. The UPDATE of the competitors that follows takes its snapshot
\* (cand) here: what commits in between does not depend on this booking.
AcceptMark(r) ==
  LET b == call[r].b IN
  /\ pc[r] = "mark"
  /\ \/ Taken(partnerOf[b], slotOf[b]) /\ Rollback(r)
     \/ /\ ~Taken(partnerOf[b], slotOf[b])
        /\ Claimants(b) = {}
        /\ cand' = [cand EXCEPT ![r] =
             {c \in Bookings \ {b} : status[c] = "pending" /\ SameSlot(c, b)}]
        /\ Goto(r, "compete")
        /\ UNCHANGED <<rows, effects, lock, call, losers, now>>

\* Rejecting the competitors by the ids read earlier, whatever they are now.
FaultyAcceptCompete(r) ==
  /\ pc[r] = "compete"
  /\ \E c \in cand[r] :
       /\ lock[c] = None
       /\ lock' = [lock EXCEPT ![c] = r]
       /\ cand' = [cand EXCEPT ![r] = @ \ {c}]
       /\ losers' = [losers EXCEPT ![r] = @ \cup {c}]
  /\ UNCHANGED <<rows, effects, pc, call, now>>

\* The competitor UPDATE visits the rows of its snapshot one by one. Each is
\* waited for and locked, and the WHERE clause is evaluated again on the row's
\* latest version; a row that no longer matches stays locked but unchanged.
AcceptCompete(r) ==
  LET b == call[r].b IN
  /\ pc[r] = "compete"
  /\ \E c \in cand[r] :
       /\ lock[c] = None
       /\ lock' = [lock EXCEPT ![c] = r]
       /\ cand' = [cand EXCEPT ![r] = @ \ {c}]
       /\ losers' = IF status[c] = "pending" /\ SameSlot(c, b)
                    THEN [losers EXCEPT ![r] = @ \cup {c}] ELSE losers
  /\ UNCHANGED <<rows, effects, pc, call, now>>

\* Only the accepted booking gets a status log row.
AcceptCommit(r) ==
  LET b == call[r].b IN
  /\ pc[r] = "compete" /\ cand[r] = {}
  /\ status' = [c \in Bookings |->
                  IF c = b THEN "accepted"
                  ELSE IF c \in losers[r] THEN "rejected" ELSE status[c]]
  /\ log' = [log EXCEPT ![b] = Append(@, "accepted")]
  /\ Commit(r, "notify")
  /\ UNCHANGED <<userOf, partnerOf, slotOf, handoff, notices>>

-----------------------------------------------------------------------------
\* Reject, Cancel, CancelByPartner: lock and check, then UPDATE.

RejectLoad(r) ==
  Load(r, "reject", status[call[r].b] = "pending", "store")

RejectStore(r) ==
  pc[r] = "store" /\ call[r].op = "reject" /\ Transition(r, "rejected")

CancelLoad(r) ==
  Load(r, "cancel", status[call[r].b] \in {"pending", "accepted"}, "store")

CancelStore(r) ==
  pc[r] = "store" /\ call[r].op = "cancel" /\ Transition(r, "cancelled")

CancelByPartnerLoad(r) ==
  Load(r, "cancelByPartner", status[call[r].b] = "accepted", "store")

\* A misspelt status.
FaultyCancelByPartnerStore(r) ==
  pc[r] = "store" /\ call[r].op = "cancelByPartner" /\ Transition(r, "canceled")

CancelByPartnerStore(r) ==
  pc[r] = "store" /\ call[r].op = "cancelByPartner" /\ Transition(r, "cancelled")

-----------------------------------------------------------------------------
\* Update: the customer moves a pending booking to another slot; no log row,
\* no notification.

UpdateLoad(r) ==
  Load(r, "update", status[call[r].b] = "pending", "count")

UpdateCount(r) ==
  LET c == call[r] IN
  /\ pc[r] = "count" /\ c.op = "update"
  /\ \/ Taken(partnerOf[c.b], c.slot) /\ Rollback(r)
     \/ /\ ~Taken(partnerOf[c.b], c.slot)
        /\ Goto(r, "store")
        /\ UNCHANGED <<rows, effects, lock, call, cand, losers, now>>

UpdateStore(r) ==
  LET c == call[r] IN
  /\ pc[r] = "store" /\ c.op = "update"
  /\ slotOf' = [slotOf EXCEPT ![c.b] = c.slot]
  /\ Finish(r) /\ Release(r)
  /\ UNCHANGED <<status, userOf, partnerOf, handoff, effects, now>>

-----------------------------------------------------------------------------
\* Completion: SendOTP, VerifyOTP, Complete.

SendOTPLoad(r) ==
  Load(r, "sendOTP", status[call[r].b] = "accepted", "store")

\* A fresh code that leaves the confirmation of the old one standing.
FaultySendOTPStore(r) ==
  LET c == call[r] IN
  /\ pc[r] = "store" /\ c.op = "sendOTP"
  /\ handoff' = [handoff EXCEPT ![c.b] =
       [@ EXCEPT !.code = c.code, !.expiry = c.at + OTPTTL]]
  /\ Commit(r, "mail")
  /\ UNCHANGED <<status, userOf, partnerOf, slotOf, effects>>

SendOTPStore(r) ==
  LET c == call[r] IN
  /\ pc[r] = "store" /\ c.op = "sendOTP"
  /\ handoff' = [handoff EXCEPT ![c.b] =
       [NoHandoff EXCEPT !.code = c.code, !.expiry = c.at + OTPTTL]]
  /\ Commit(r, "mail")
  /\ UNCHANGED <<status, userOf, partnerOf, slotOf, effects>>

\* The mail goes out after the commit, inside the request.
SendOTPMail(r) ==
  /\ pc[r] = "mail"
  /\ Finish(r)
  /\ UNCHANGED <<rows, effects, lock, now>>

VerifyOTPLoad(r) ==
  Load(r, "verifyOTP", status[call[r].b] = "accepted", "store")

\* A booking already verified is a no-op success; a wrong, missing or expired
\* code an error. Neither changes the row.
VerifyOTPStore(r) ==
  LET c == call[r]
      h == handoff[c.b]
      good == /\ h.verifiedAt = 0
              /\ h.code # None /\ h.code = c.code
              /\ h.expiry # 0 /\ c.at <= h.expiry IN
  /\ pc[r] = "store" /\ c.op = "verifyOTP"
  /\ \/ /\ good
        /\ handoff' = [handoff EXCEPT ![c.b] =
             [@ EXCEPT !.verifiedAt = c.at, !.verifiedCode = c.code]]
     \/ ~good /\ UNCHANGED handoff
  /\ Finish(r) /\ Release(r)
  /\ UNCHANGED <<status, userOf, partnerOf, slotOf, effects, now>>

\* Completion without the code.
FaultyCompleteLoad(r) ==
  Load(r, "complete", status[call[r].b] = "accepted", "store")

CompleteLoad(r) ==
  Load(r, "complete", /\ status[call[r].b] = "accepted"
                      /\ handoff[call[r].b].verifiedAt # 0, "store")

CompleteStore(r) ==
  pc[r] = "store" /\ call[r].op = "complete" /\ Transition(r, "completed")

-----------------------------------------------------------------------------
\* After the commit the notification row is inserted by a statement of its own.
CountUp(f, n) == [f EXCEPT ![n] = @ + 1]

Notify(r) ==
  LET c == call[r] IN
  /\ pc[r] = "notify"
  /\ notices' = [notices EXCEPT ![c.b] = CountUp(@, NoticeOf[c.op])]
  /\ Finish(r)
  /\ UNCHANGED <<rows, log, lock, now>>

-----------------------------------------------------------------------------
\* Failures.

\* The UPDATE of a cancellation runs outside the transaction, whose status log row
\* is lost.
HalfCancelled(r) ==
  /\ Faults /\ pc[r] # "idle"
  /\ IF pc[r] = "store" /\ call[r].op = "cancel"
     THEN /\ status' = [status EXCEPT ![call[r].b] = "cancelled"]
          /\ Finish(r) /\ Release(r)
          /\ UNCHANGED <<userOf, partnerOf, slotOf, handoff, effects, now>>
     ELSE Rollback(r)

\* The UPDATE of the competitors runs outside the transaction and outlives it.
HalfAccepted(r) ==
  /\ Faults /\ pc[r] # "idle"
  /\ IF pc[r] = "compete"
     THEN /\ status' = [c \in Bookings |->
                          IF c \in losers[r] THEN "rejected" ELSE status[c]]
          /\ Finish(r) /\ Release(r)
          /\ UNCHANGED <<userOf, partnerOf, slotOf, handoff, effects, now>>
     ELSE Rollback(r)

\* The call ends where it stands: a statement, the mail or the notification
\* fails, the client hangs up (its context is cancelled) or the process dies.
Abandon(r) ==
  Faults /\ pc[r] # "idle" /\ Rollback(r)

\* r cannot proceed before the transaction of q ends.
WaitsFor(r, q) ==
  LET b == call[r].b IN
  \/ pc[r] = "load" /\ Owns(r) /\ lock[b] = q
  \/ pc[r] = "mark" /\ q \in Claimants(b)
  \/ pc[r] = "compete" /\ q # r /\ \E c \in cand[r] : lock[c] = q

Closed(C) == C # {} /\ \A q \in C : \E p \in C : WaitsFor(q, p)

\* r is on a cycle of waiting transactions.
Victim(r) ==
  \E C \in SUBSET Requests :
    r \in C /\ Closed(C) /\ \A D \in SUBSET C : Closed(D) => D = C

\* PostgreSQL aborts one member of a cycle.
DeadlockAbort(r) == Victim(r) /\ Rollback(r)

Tick ==
  /\ now < MaxTime
  /\ now' = now + 1
  /\ UNCHANGED <<rows, effects, lock, pc, call, cand, losers>>

-----------------------------------------------------------------------------
\* The next statement of a call under way.
Progress(r) ==
  \/ CreateCheck(r) \/ CreateInsert(r)
  \/ AcceptLoad(r) \/ AcceptCount(r) \/ AcceptMark(r)
  \/ AcceptCompete(r) \/ AcceptCommit(r)
  \/ RejectLoad(r) \/ RejectStore(r)
  \/ CancelLoad(r) \/ CancelStore(r)
  \/ CancelByPartnerLoad(r) \/ CancelByPartnerStore(r)
  \/ UpdateLoad(r) \/ UpdateCount(r) \/ UpdateStore(r)
  \/ SendOTPLoad(r) \/ SendOTPStore(r) \/ SendOTPMail(r)
  \/ VerifyOTPLoad(r) \/ VerifyOTPStore(r)
  \/ CompleteLoad(r) \/ CompleteStore(r)
  \/ Notify(r)

Next ==
  \/ Tick
  \/ \E r \in Requests :
       BeginCreate(r) \/ Begin(r) \/ Progress(r) \/ Abandon(r) \/ DeadlockAbort(r)

Spec == Init /\ [][Next]_vars

\* PostgreSQL queues the waiters of a lock, so a call that is offered the lock
\* again and again gets it; its deadlock detector runs after deadlock_timeout.
Fairness ==
  \A r \in Requests : SF_vars(Progress(r)) /\ WF_vars(DeadlockAbort(r))

FairSpec == Spec /\ Fairness

-----------------------------------------------------------------------------
\* Properties.

Times == Nat
Calls ==
  [op : Operations, b : Bookings, actor : Users \cup Partners,
   partner : Partners \cup {None}, slot : Slots \cup {None},
   code : Codes \cup {None}, at : Times]
Handoffs ==
  [code : Codes \cup {None}, expiry : Times, verifiedAt : Times,
   verifiedCode : Codes \cup {None}]

\* Every variable holds values of the type of its column or local variable.
TypeOK ==
  /\ status \in [Bookings -> Statuses]
  /\ userOf \in [Bookings -> Users \cup {None}]
  /\ partnerOf \in [Bookings -> Partners \cup {None}]
  /\ slotOf \in [Bookings -> Slots \cup {None}]
  /\ handoff \in [Bookings -> Handoffs]
  /\ log \in [Bookings -> Seq(Statuses)]
  /\ notices \in [Bookings -> [Notices -> Nat]]
  /\ lock \in [Bookings -> Requests \cup {None}]
  /\ pc \in [Requests -> PCs]
  /\ call \in [Requests -> Calls \cup {NoCall}]
  /\ cand \in [Requests -> SUBSET Bookings]
  /\ losers \in [Requests -> SUBSET Bookings]
  /\ now \in Nat

\* No two accepted bookings of a partner share a slot, whatever accepts, slot
\* changes and cancellations race (booking_repository.go Accept and Update,
\* the partial unique index of postgres.go).
SlotExclusive ==
  \A b, c \in Bookings :
    status[b] = "accepted" /\ status[c] = "accepted" /\ SameSlot(b, c) => b = c

\* The moves a booking's recorded history may make.
Lifecycle ==
  {<<"pending", "accepted">>, <<"pending", "rejected">>,
   <<"pending", "cancelled">>, <<"accepted", "cancelled">>,
   <<"accepted", "completed">>}

History(l) ==
  /\ l # <<>> /\ l[1] = "pending"
  /\ \A i \in 1..Len(l) - 1 : <<l[i], l[i + 1]>> \in Lifecycle

\* The status log of a booking tells a possible life that begins with its
\* creation and ends in the state the row is in; the only row allowed to be
\* ahead of its log is one that lost its slot to another booking
\* (insertBookingStatusLog is called under the row's lock).
AuditTrail ==
  \A b \in Bookings :
    LET l == log[b] IN
    IF status[b] = "absent" THEN l = <<>>
    ELSE /\ History(l)
         /\ \/ l[Len(l)] = status[b]
            \/ status[b] = "rejected" /\ l = <<"pending">>

\* Nobody is turned away in silence for nothing: a booking that was rejected
\* without a status log row lost its slot to another one, which its own log says
\* was accepted, although the accept turns the others down row by row before it
\* has committed and may fail (the competitor UPDATE of Accept).
LostToAnother ==
  \A b \in Bookings :
    status[b] = "rejected" /\ log[b] = <<"pending">> =>
      \E c \in Bookings \ {b} :
        SameSlot(b, c) /\ \E i \in DOMAIN log[c] : log[c][i] = "accepted"

\* A confirmation stands for the code that is outstanding now and was given
\* before that code expired, and only confirmed bookings are ever completed
\* (SendOTP clears otp_verified_at, VerifyOTP and Complete check it).
HandoffConfirmed ==
  \A b \in Bookings :
    LET h == handoff[b] IN
    /\ h.verifiedAt # 0 => /\ h.verifiedCode = h.code
                           /\ h.verifiedAt <= h.expiry
    /\ status[b] = "completed" => h.verifiedAt # 0

\* Customers and partners hear of a step in a booking's life at most once and
\* only if it happened, and never of two different endings: of calls racing to
\* end the same booking only one gets to send its notification.
NoticesMatchHistory ==
  \A b \in Bookings :
    LET told == {n \in Notices : notices[b][n] > 0}
        endings == told \ {"requested", "accepted"} IN
    /\ \A n \in Notices : notices[b][n] <= 1
    /\ Cardinality(endings) <= 1
    /\ \A n \in endings :
         status[b] = IF n = "cancelledByPartner" THEN "cancelled" ELSE n
    /\ "accepted" \in told => \E i \in DOMAIN log[b] : log[b][i] = "accepted"

\* Every call comes to an end: row locks, the wait for the unique index and
\* competing accepts that wait for each other never hold a call for ever.
CallsReturn == \A r \in Requests : pc[r] # "idle" ~> pc[r] = "idle"

\* The next statement of r need not wait for another call.
Ready(r) ==
  LET b == call[r].b op == call[r].op IN
  \/ pc[r] \in {"check", "insert", "mail", "notify"}
  \/ pc[r] = "load" /\ op # "create" /\ (~Owns(r) \/ lock[b] = None)
  \/ pc[r] = "count" /\ op \in {"accept", "update"}
  \/ pc[r] = "mark" /\ (Taken(partnerOf[b], slotOf[b]) \/ Claimants(b) = {})
  \/ pc[r] = "compete" /\ (cand[r] = {} \/ \E c \in cand[r] : lock[c] = None)
  \/ pc[r] = "store" /\ op \notin {"create", "accept"}

\* Locks outlive no transaction, and the waits for rows and for the unique index
\* tie no knot that the deadlock detector does not see: among a call and those it
\* waits for, directly or through others, one can go on or is aborted.
NeverStuck ==
  \A C \in SUBSET Requests :
    /\ \E r \in C : pc[r] # "idle"
    /\ \A r \in C, q \in Requests : WaitsFor(r, q) => q \in C
    => \E r \in C : pc[r] # "idle" /\ (Ready(r) \/ Victim(r))

\* The component keeps the promises of BookingContract.
Contract == INSTANCE BookingContract WITH
  code <- [b \in Bookings |-> handoff[b].code],
  verified <- [b \in Bookings |-> handoff[b].verifiedAt # 0]

ContractSpec == Contract!Spec

\* Each booking lives as module Reminder takes it to: Life(b)!Spec.
Life(b) == INSTANCE BookingLife WITH
  status <- IF status[b] \in {"pending", "accepted"} THEN status[b] ELSE "over",
  slot <- slotOf[b]

-----------------------------------------------------------------------------
\* What the comments of the code say and the code does not do.

\* "BookingStatusLog records a single status transition of a Booking, forming
\* an append-only audit trail": the last entry is the booking's status.
LogIsComplete ==
  \A b \in Bookings :
    status[b] # "absent" => log[b] # <<>> /\ log[b][Len(log[b])] = status[b]
=============================================================================
