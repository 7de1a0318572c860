---------------------------- MODULE BookingProofs ----------------------------
(***************************************************************************)
(* Theorems about Booking for every value of its constants.                *)
(***************************************************************************)
EXTENDS Booking, FiniteSetTheorems, TLAPS

-----------------------------------------------------------------------------
\* The inductive invariant.

\* r is inside a transaction that has locked the row of its booking.
InTx(r) == pc[r] \in {"count", "mark", "compete", "store"}

\* The recorded call fits the statement r is at. The id a create call has
\* generated is its own until the row is inserted.
CallOK(r) ==
  pc[r] # "idle" =>
    /\ call[r] \in Calls
    /\ pc[r] \in {"check", "insert"} =>
         /\ call[r].op = "create"
         /\ call[r].actor \in Users
         /\ call[r].partner \in Partners
         /\ call[r].slot \in Slots
         /\ status[call[r].b] = "absent"
         /\ \A q \in Requests :
              q # r /\ pc[q] \in {"check", "insert"} => call[q].b # call[r].b
    /\ pc[r] = "count" => call[r].op \in {"accept", "update"}
    /\ pc[r] \in {"mark", "compete"} => call[r].op = "accept"
    /\ pc[r] = "store" => call[r].op # "create"
    /\ call[r].op = "update" => call[r].slot \in Slots
    /\ call[r].op \in {"sendOTP", "verifyOTP"} => call[r].code \in Codes
    /\ pc[r] = "mail" => call[r].op = "sendOTP"
    /\ pc[r] = "notify" => call[r].op \in Operations \ {"update", "sendOTP", "verifyOTP"}

\* What was checked under the row's lock still holds: nobody else can write
\* the row before the transaction ends.
HeldOK(r) ==
  InTx(r) =>
    LET c == call[r] IN
    /\ lock[c.b] = r
    /\ c.op \in {"accept", "reject", "update"} => status[c.b] = "pending"
    /\ c.op = "cancel" => status[c.b] \in {"pending", "accepted"}
    /\ c.op \in {"cancelByPartner", "sendOTP", "verifyOTP", "complete"} =>
         status[c.b] = "accepted"
    /\ c.op = "complete" => handoff[c.b].verifiedAt # 0

\* Bookings an accept has turned down so far are locked, pending and on its
\* slot; it never visits its own row.
LosersOK(r) ==
  /\ \A c \in losers[r] :
       /\ pc[r] = "compete" /\ lock[c] = r /\ c # call[r].b
       /\ status[c] = "pending" /\ SameSlot(c, call[r].b)
  /\ pc[r] = "compete" => call[r].b \notin cand[r]

\* An accept past the unique index is alone on its slot.
IndexOK(r) ==
  pc[r] = "compete" =>
    /\ ~Taken(partnerOf[call[r].b], slotOf[call[r].b])
    /\ \A q \in Requests :
         q # r /\ pc[q] = "compete" => ~SameSlot(call[q].b, call[r].b)

IInv ==
  /\ TypeOK
  /\ \A r \in Requests : CallOK(r) /\ HeldOK(r) /\ LosersOK(r) /\ IndexOK(r)
  /\ SlotExclusive

-----------------------------------------------------------------------------
\* Steps of one request, by what they do.

\* Statements that leave the rows alone: the lock is taken or the call ends.
LoadStep(r) ==
  \/ AcceptLoad(r) \/ RejectLoad(r) \/ CancelLoad(r) \/ CancelByPartnerLoad(r)
  \/ UpdateLoad(r) \/ SendOTPLoad(r) \/ VerifyOTPLoad(r) \/ CompleteLoad(r)

\* Statements that end the life or the wait of the request's own booking.
TransitionStep(r) ==
  \/ RejectStore(r) \/ CancelStore(r) \/ CancelByPartnerStore(r)
  \/ CompleteStore(r)

Step(r) ==
  BeginCreate(r) \/ Begin(r) \/ Progress(r) \/ Abandon(r) \/ DeadlockAbort(r)

\* The empty database satisfies the invariant.
LEMMA InitIInv == Init => IInv
<1>. SUFFICES ASSUME Init PROVE IInv
  OBVIOUS
<1>1. TypeOK
  BY DEF Init, TypeOK, Statuses, Notices, PCs, NoHandoff, Handoffs, Times
<1>2. \A r \in Requests : CallOK(r) /\ HeldOK(r) /\ LosersOK(r) /\ IndexOK(r)
  BY DEF Init, CallOK, HeldOK, LosersOK, IndexOK, InTx
<1>3. SlotExclusive
  BY DEF Init, SlotExclusive
<1>. QED
  BY <1>1, <1>2, <1>3 DEF IInv

\* The fields of a call under way.
LEMMA CallTypes ==
  ASSUME IInv, NEW r \in Requests, pc[r] # "idle"
  PROVE  /\ call[r] \in Calls
         /\ call[r].op \in Operations /\ call[r].b \in Bookings
         /\ call[r].at \in Nat
         /\ pc[r] = "insert" => /\ call[r].actor \in Users
                                /\ call[r].partner \in Partners
                                /\ call[r].slot \in Slots
         /\ call[r].op = "update" => call[r].slot \in Slots
         /\ call[r].op \in {"sendOTP", "verifyOTP"} => call[r].code \in Codes
         /\ pc[r] = "mail" => call[r].op = "sendOTP"
         /\ pc[r] = "notify" => NoticeOf[call[r].op] \in Notices
<1>1. CallOK(r)
  BY DEF IInv
<1>. QED
  BY <1>1 DEF CallOK, Calls, Times, NoticeOf, Notices, Operations, UserOps, PartnerOps

\* The type invariant in three parts.
RowTypes ==
  /\ status \in [Bookings -> Statuses]
  /\ userOf \in [Bookings -> Users \cup {None}]
  /\ partnerOf \in [Bookings -> Partners \cup {None}]
  /\ slotOf \in [Bookings -> Slots \cup {None}]
  /\ handoff \in [Bookings -> Handoffs]

EffectTypes ==
  /\ log \in [Bookings -> Seq(Statuses)]
  /\ notices \in [Bookings -> [Notices -> Nat]]

ControlTypes ==
  /\ lock \in [Bookings -> Requests \cup {None}]
  /\ pc \in [Requests -> PCs]
  /\ call \in [Requests -> Calls \cup {NoCall}]
  /\ cand \in [Requests -> SUBSET Bookings]
  /\ losers \in [Requests -> SUBSET Bookings]
  /\ now \in Nat

\* The three parts together are the type invariant.
LEMMA TypeParts ==
  /\ TypeOK <=> RowTypes /\ EffectTypes /\ ControlTypes
  /\ TypeOK' <=> RowTypes' /\ EffectTypes' /\ ControlTypes'
BY DEF TypeOK, RowTypes, EffectTypes, ControlTypes

\* Steps that write no booking row.
Reads(r) ==
  \/ BeginCreate(r) \/ Begin(r) \/ CreateCheck(r) \/ LoadStep(r)
  \/ AcceptCount(r) \/ AcceptMark(r) \/ AcceptCompete(r) \/ UpdateCount(r)
  \/ SendOTPMail(r) \/ Notify(r) \/ Abandon(r) \/ DeadlockAbort(r)

\* Steps that write one.
Writes(r) ==
  \/ CreateInsert(r) \/ TransitionStep(r) \/ AcceptCommit(r) \/ UpdateStore(r)
  \/ SendOTPStore(r) \/ VerifyOTPStore(r)

\* Every step of a request reads or writes.
LEMMA StepKinds ==
  ASSUME NEW r \in Requests
  PROVE  Step(r) <=> Reads(r) \/ Writes(r)
BY DEF Step, Progress, Reads, Writes, LoadStep, TransitionStep

\* Statements that only read leave every booking row as it is.
LEMMA ReadsKeepRows ==
  ASSUME NEW r \in Requests, Reads(r)
  PROVE  UNCHANGED <<status, userOf, partnerOf, slotOf, handoff>>
<1>1. CASE LoadStep(r)
  BY <1>1 DEF LoadStep, AcceptLoad, RejectLoad, CancelLoad, CancelByPartnerLoad,
    UpdateLoad, SendOTPLoad, VerifyOTPLoad, CompleteLoad, Load, rows
<1>2. CASE BeginCreate(r) \/ Begin(r) \/ CreateCheck(r) \/ SendOTPMail(r) \/ Notify(r)
  BY <1>2 DEF BeginCreate, Begin, CreateCheck, SendOTPMail, Notify, rows
<1>3. CASE AcceptCount(r) \/ AcceptMark(r) \/ AcceptCompete(r) \/ UpdateCount(r)
           \/ Abandon(r) \/ DeadlockAbort(r)
  BY <1>3 DEF AcceptCount, AcceptMark, AcceptCompete, UpdateCount, Abandon,
    DeadlockAbort, Rollback, rows
<1>. QED
  BY <1>1, <1>2, <1>3 DEF Reads

\* The booking rows keep their types.
LEMMA RowTypesStep ==
  ASSUME IInv, NEW r \in Requests, Step(r)
  PROVE  RowTypes'
<1>0. RowTypes
  BY TypeParts DEF IInv
<1>1. CASE Reads(r)
  BY <1>0, <1>1, ReadsKeepRows DEF RowTypes
<1>2. CASE CreateInsert(r)
  BY <1>0, <1>2, CallTypes DEF CreateInsert, RowTypes, Statuses
<1>3. CASE TransitionStep(r)
  BY <1>0, <1>3 DEF TransitionStep, RejectStore, CancelStore,
    CancelByPartnerStore, CompleteStore, Transition, RowTypes, Statuses
<1>4. CASE AcceptCommit(r)
  BY <1>0, <1>4 DEF AcceptCommit, RowTypes, Statuses
<1>5. CASE UpdateStore(r)
  BY <1>0, <1>5, CallTypes DEF UpdateStore, RowTypes
<1>6. CASE SendOTPStore(r)
  <2>1. call[r].code \in Codes /\ call[r].at + OTPTTL \in Nat
    BY <1>6, CallTypes, TimeAssumption DEF SendOTPStore
  <2>2. [NoHandoff EXCEPT !.code = call[r].code, !.expiry = call[r].at + OTPTTL]
          \in Handoffs
    BY <2>1 DEF NoHandoff, Handoffs, Times
  <2>. QED
    BY <1>0, <1>6, <2>2 DEF SendOTPStore, RowTypes
<1>7. CASE VerifyOTPStore(r)
  <2>1. /\ call[r].b \in Bookings /\ call[r].code \in Codes /\ call[r].at \in Nat
    BY <1>7, CallTypes DEF VerifyOTPStore
  <2>2. handoff[call[r].b] \in Handoffs
    BY <1>0, <2>1 DEF RowTypes
  <2>3. [handoff[call[r].b] EXCEPT !.verifiedAt = call[r].at,
                                   !.verifiedCode = call[r].code] \in Handoffs
    BY <2>1, <2>2 DEF Handoffs, Times
  <2>. QED
    BY <1>0, <1>7, <2>3 DEF VerifyOTPStore, RowTypes
<1>. QED
  BY <1>1, <1>2, <1>3, <1>4, <1>5, <1>6, <1>7, StepKinds DEF Writes

\* A handler that returns leaves its request well-typed.
LEMMA FinishTypes ==
  ASSUME ControlTypes, NEW r \in Requests, Finish(r)
  PROVE  /\ pc' \in [Requests -> PCs]
         /\ call' \in [Requests -> Calls \cup {NoCall}]
         /\ cand' \in [Requests -> SUBSET Bookings]
         /\ losers' \in [Requests -> SUBSET Bookings]
BY DEF ControlTypes, Finish, Goto, PCs

\* COMMIT and ROLLBACK keep the lock table well-typed.
LEMMA ReleaseTypes ==
  ASSUME ControlTypes, NEW r \in Requests, Release(r)
  PROVE  lock' \in [Bookings -> Requests \cup {None}]
BY DEF ControlTypes, Release

\* A commit keeps locks, requests and the clock well-typed.
LEMMA CommitTypes ==
  ASSUME ControlTypes, NEW r \in Requests, NEW label \in PCs, Commit(r, label)
  PROVE  ControlTypes'
<1>1. lock' \in [Bookings -> Requests \cup {None}]
  BY ReleaseTypes DEF Commit
<1>. QED
  BY <1>1 DEF ControlTypes, Commit, Goto

\* So does a rollback.
LEMMA RollbackTypes ==
  ASSUME ControlTypes, NEW r \in Requests, Rollback(r)
  PROVE  ControlTypes'
BY FinishTypes, ReleaseTypes DEF Rollback, ControlTypes

\* Locks, requests and the clock keep their types.
LEMMA ControlTypesStep ==
  ASSUME IInv, NEW r \in Requests, Step(r)
  PROVE  ControlTypes'
<1>0. ControlTypes
  BY TypeParts DEF IInv
<1>1. CASE BeginCreate(r)
  <2>1. call' \in [Requests -> Calls \cup {NoCall}]
    <3>1. PICK u \in Users, p \in Partners, s \in Slots, b \in Bookings :
            call' = [call EXCEPT ![r] = NewCall("create", b, u, p, s, None, 0)]
      BY <1>1 DEF BeginCreate
    <3>2. NewCall("create", b, u, p, s, None, 0) \in Calls
      BY DEF NewCall, Calls, Times, Operations, UserOps
    <3>. QED
      BY <1>0, <3>1, <3>2 DEF ControlTypes
  <2>. QED
    BY <1>0, <1>1, <2>1 DEF BeginCreate, Goto, ControlTypes, PCs
<1>2. CASE Begin(r)
  <2>1. call' \in [Requests -> Calls \cup {NoCall}]
    <3>1. PICK op \in Ops \ {"create"}, b \in Bookings :
            \E a \in Actors(op), s \in SlotArgs(op), c \in CodeArgs(op) :
              call' = [call EXCEPT ![r] = NewCall(op, b, a, None, s, c, TimeArg(op))]
      BY <1>2 DEF Begin
    <3>2. PICK a \in Actors(op), s \in SlotArgs(op), c \in CodeArgs(op) :
            call' = [call EXCEPT ![r] = NewCall(op, b, a, None, s, c, TimeArg(op))]
      BY <3>1
    <3>3. NewCall(op, b, a, None, s, c, TimeArg(op)) \in Calls
      BY <1>0, OpsAssumption
      DEF NewCall, Actors, SlotArgs, CodeArgs, TimeArg, Calls, Times, ControlTypes
    <3>. QED
      BY <1>0, <3>2, <3>3 DEF ControlTypes
  <2>. QED
    BY <1>0, <1>2, <2>1 DEF Begin, Goto, ControlTypes, PCs
<1>3. CASE CreateCheck(r)
  BY <1>0, <1>3, FinishTypes DEF CreateCheck, Goto, ControlTypes, PCs
<1>4. CASE LoadStep(r)
  BY <1>0, <1>4, FinishTypes DEF LoadStep, AcceptLoad, RejectLoad, CancelLoad,
    CancelByPartnerLoad, UpdateLoad, SendOTPLoad, VerifyOTPLoad, CompleteLoad,
    Load, Goto, ControlTypes, PCs
<1>5. CASE CreateInsert(r) \/ TransitionStep(r) \/ AcceptCommit(r) \/ SendOTPStore(r)
  <2>1. \E label \in PCs : Commit(r, label)
    BY <1>5 DEF CreateInsert, TransitionStep, RejectStore, CancelStore, SendOTPStore,
      CancelByPartnerStore, CompleteStore, Transition, AcceptCommit, PCs
  <2>. QED
    BY <1>0, <2>1, CommitTypes
<1>6. CASE AcceptCount(r) \/ UpdateCount(r)
  BY <1>0, <1>6, RollbackTypes DEF AcceptCount, UpdateCount, Goto, ControlTypes, PCs
<1>7. CASE AcceptMark(r)
  BY <1>0, <1>7, RollbackTypes DEF AcceptMark, Goto, ControlTypes, PCs
<1>8. CASE AcceptCompete(r)
  BY <1>0, <1>8 DEF AcceptCompete, ControlTypes
<1>9. CASE UpdateStore(r) \/ VerifyOTPStore(r)
  BY <1>0, <1>9, FinishTypes, ReleaseTypes DEF UpdateStore, VerifyOTPStore, ControlTypes
<1>10. CASE SendOTPMail(r) \/ Notify(r)
  BY <1>0, <1>10, FinishTypes DEF SendOTPMail, Notify, ControlTypes
<1>11. CASE Abandon(r) \/ DeadlockAbort(r)
  BY <1>0, <1>11, RollbackTypes DEF Abandon, DeadlockAbort
<1>. QED
  BY <1>1, <1>2, <1>3, <1>4, <1>5, <1>6, <1>7, <1>8, <1>9, <1>10, <1>11
  DEF Step, Progress, LoadStep, TransitionStep

\* Counting one more keeps a function of counters well-typed.
LEMMA CountUpType ==
  ASSUME NEW S, NEW f \in [S -> Nat], NEW n \in S
  PROVE  CountUp(f, n) \in [S -> Nat]
<1>1. f[n] + 1 \in Nat
  OBVIOUS
<1>. QED
  BY <1>1 DEF CountUp

\* The effects of a step: the log, the notifications and the mail keep their
\* types, and so does everything else.
LEMMA TypeStep ==
  ASSUME IInv, NEW r \in Requests, Step(r)
  PROVE  TypeOK'
<1>1. EffectTypes'
  <2>0. EffectTypes
    BY TypeParts DEF IInv
  <2>10. pc[r] # "idle" => call[r].b \in Bookings
    BY CallTypes
  <2>11. ASSUME NEW to \in Statuses, pc[r] # "idle",
               log' = [log EXCEPT ![call[r].b] = Append(@, to)]
        PROVE  log' \in [Bookings -> Seq(Statuses)]
    <3>1. log[call[r].b] \in Seq(Statuses)
      BY <2>0, <2>10, <2>11 DEF EffectTypes
    <3>2. Append(log[call[r].b], to) \in Seq(Statuses)
      BY <3>1
    <3>. QED
      BY <2>0, <2>11, <3>2 DEF EffectTypes
  <2>1. CASE CreateInsert(r)
    <3>1. log' \in [Bookings -> Seq(Statuses)]
      BY <2>1, <2>11 DEF CreateInsert, Statuses
    <3>. QED
      BY <2>0, <2>1, <3>1 DEF CreateInsert, EffectTypes
  <2>2. CASE TransitionStep(r)
    <3>1. log' \in [Bookings -> Seq(Statuses)]
      BY <2>2, <2>11 DEF TransitionStep, RejectStore, CancelStore,
        CancelByPartnerStore, CompleteStore, Transition, Statuses
    <3>. QED
      BY <2>0, <2>2, <3>1 DEF TransitionStep, RejectStore, CancelStore,
        CancelByPartnerStore, CompleteStore, Transition, EffectTypes
  <2>3. CASE AcceptCommit(r)
    <3>1. log' \in [Bookings -> Seq(Statuses)]
      BY <2>3, <2>11 DEF AcceptCommit, Statuses
    <3>. QED
      BY <2>0, <2>3, <3>1 DEF AcceptCommit, EffectTypes
  <2>4. CASE UpdateStore(r) \/ SendOTPStore(r) \/ VerifyOTPStore(r)
    BY <2>0, <2>4 DEF UpdateStore, SendOTPStore, VerifyOTPStore, effects, EffectTypes
  <2>5. CASE Notify(r)
    <3>1. NoticeOf[call[r].op] \in Notices
      BY <2>5, CallTypes DEF Notify
    <3>2. CountUp(notices[call[r].b], NoticeOf[call[r].op]) \in [Notices -> Nat]
      BY <2>0, <2>5, <2>10, <3>1, CountUpType DEF Notify, EffectTypes
    <3>3. notices' \in [Bookings -> [Notices -> Nat]]
      BY <2>0, <2>5, <3>2 DEF Notify, EffectTypes
    <3>. QED
      BY <2>0, <2>5, <3>3 DEF Notify, EffectTypes
  <2>6. CASE SendOTPMail(r)
    BY <2>0, <2>6 DEF SendOTPMail, effects, EffectTypes
  <2>7. CASE LoadStep(r)
    BY <2>0, <2>7 DEF LoadStep, AcceptLoad, RejectLoad, CancelLoad,
      CancelByPartnerLoad, UpdateLoad, SendOTPLoad, VerifyOTPLoad, CompleteLoad,
      Load, effects, EffectTypes
  <2>8. CASE \/ BeginCreate(r) \/ Begin(r) \/ CreateCheck(r) \/ AcceptCount(r)
             \/ AcceptMark(r) \/ AcceptCompete(r) \/ UpdateCount(r)
             \/ Abandon(r) \/ DeadlockAbort(r)
    BY <2>0, <2>8 DEF BeginCreate, Begin, CreateCheck, AcceptCount, AcceptMark,
      AcceptCompete, UpdateCount, Abandon, DeadlockAbort, Rollback, effects, EffectTypes
  <2>. QED
    BY <2>1, <2>2, <2>3, <2>4, <2>5, <2>6, <2>7, <2>8, StepKinds DEF Reads, Writes
<1>. QED
  BY <1>1, RowTypesStep, ControlTypesStep, TypeParts

-----------------------------------------------------------------------------
\* What a step of q does to the other requests and to rows q has not locked.

\* The program state of another request does not change.
LEMMA OthersKept ==
  ASSUME IInv, NEW q \in Requests, Step(q), NEW r \in Requests, r # q
  PROVE  /\ pc'[r] = pc[r] /\ call'[r] = call[r]
         /\ cand'[r] = cand[r] /\ losers'[r] = losers[r]
<1>0. ControlTypes
  BY TypeParts DEF IInv
<1>1. CASE BeginCreate(q) \/ Begin(q)
  BY <1>0, <1>1 DEF BeginCreate, Begin, Goto, ControlTypes
<1>2. CASE LoadStep(q)
  BY <1>0, <1>2 DEF LoadStep, AcceptLoad, RejectLoad, CancelLoad,
    CancelByPartnerLoad, UpdateLoad, SendOTPLoad, VerifyOTPLoad, CompleteLoad,
    Load, Finish, Goto, ControlTypes
<1>3. CASE TransitionStep(q)
  BY <1>0, <1>3 DEF TransitionStep, RejectStore, CancelStore,
    CancelByPartnerStore, CompleteStore, Transition, Commit, Goto, ControlTypes
<1>4. CASE CreateCheck(q) \/ CreateInsert(q)
  BY <1>0, <1>4 DEF CreateCheck, CreateInsert, Commit, Finish, Goto, ControlTypes
<1>5. CASE AcceptCount(q) \/ AcceptMark(q)
  BY <1>0, <1>5 DEF AcceptCount, AcceptMark, Rollback, Finish, Goto, ControlTypes
<1>6. CASE AcceptCompete(q) \/ AcceptCommit(q)
  BY <1>0, <1>6 DEF AcceptCompete, AcceptCommit, Commit, Goto, ControlTypes
<1>7. CASE UpdateCount(q) \/ UpdateStore(q)
  BY <1>0, <1>7 DEF UpdateCount, UpdateStore, Rollback, Finish, Goto, ControlTypes
<1>8. CASE SendOTPStore(q) \/ SendOTPMail(q) \/ VerifyOTPStore(q) \/ Notify(q)
  BY <1>0, <1>8 DEF SendOTPStore, SendOTPMail, VerifyOTPStore, Notify, Commit,
    Finish, Goto, ControlTypes
<1>9. CASE Abandon(q) \/ DeadlockAbort(q)
  BY <1>0, <1>9 DEF Abandon, DeadlockAbort, Rollback, Finish, Goto, ControlTypes
<1>. QED
  BY <1>1, <1>2, <1>3, <1>4, <1>5, <1>6, <1>7, <1>8, <1>9, StepKinds
  DEF Reads, Writes

\* A lock another request holds stays with it.
LEMMA LocksKept ==
  ASSUME IInv, NEW q \in Requests, Step(q),
         NEW b \in Bookings, lock[b] # None, lock[b] # q
  PROVE  lock'[b] = lock[b]
<1>0. lock \in [Bookings -> Requests \cup {None}]
  BY DEF IInv, TypeOK
<1>1. CASE \/ BeginCreate(q) \/ Begin(q) \/ CreateCheck(q)
           \/ SendOTPMail(q) \/ Notify(q)
  BY <1>1 DEF BeginCreate, Begin, CreateCheck, SendOTPMail, Notify
<1>2. CASE LoadStep(q)
  BY <1>0, <1>2 DEF LoadStep, AcceptLoad, RejectLoad, CancelLoad,
    CancelByPartnerLoad, UpdateLoad, SendOTPLoad, VerifyOTPLoad, CompleteLoad, Load
<1>3. CASE Release(q)
  BY <1>3 DEF Release
<1>4. CASE AcceptCompete(q)
  BY <1>0, <1>4 DEF AcceptCompete
<1>5. CASE AcceptCount(q) \/ AcceptMark(q) \/ UpdateCount(q)
  BY <1>3, <1>5 DEF AcceptCount, AcceptMark, UpdateCount, Rollback
<1>6. CASE Writes(q) \/ Abandon(q) \/ DeadlockAbort(q)
  BY <1>3, <1>6 DEF Writes, CreateInsert, TransitionStep, RejectStore, CancelStore,
    CancelByPartnerStore, CompleteStore, Transition, AcceptCommit, UpdateStore,
    SendOTPStore, VerifyOTPStore, Commit, Abandon, DeadlockAbort, Rollback
<1>. QED
  BY <1>1, <1>2, <1>4, <1>5, <1>6, StepKinds DEF Reads

\* Only rows the request has locked, or the row it inserts, are written.
LEMMA RowsKept ==
  ASSUME IInv, NEW q \in Requests, Step(q), NEW b \in Bookings, lock[b] # q,
         ~(pc[q] = "insert" /\ call[q].b = b)
  PROVE  /\ status'[b] = status[b] /\ partnerOf'[b] = partnerOf[b]
         /\ slotOf'[b] = slotOf[b] /\ handoff'[b] = handoff[b]
<1>0. RowTypes /\ HeldOK(q) /\ LosersOK(q)
  BY TypeParts DEF IInv
<1>1. CASE Reads(q)
  BY <1>1, ReadsKeepRows
<1>2. CASE CreateInsert(q)
  BY <1>0, <1>2 DEF CreateInsert, RowTypes
<1>3. ASSUME InTx(q) PROVE call[q].b # b
  BY <1>0, <1>3 DEF HeldOK
<1>4. CASE TransitionStep(q)
  BY <1>0, <1>3, <1>4 DEF TransitionStep, RejectStore, CancelStore,
    CancelByPartnerStore, CompleteStore, Transition, RowTypes, InTx
<1>5. CASE AcceptCommit(q)
  BY <1>0, <1>3, <1>5 DEF AcceptCommit, RowTypes, InTx, LosersOK
<1>6. CASE UpdateStore(q) \/ SendOTPStore(q) \/ VerifyOTPStore(q)
  BY <1>0, <1>3, <1>6 DEF UpdateStore, SendOTPStore, VerifyOTPStore, RowTypes, InTx
<1>. QED
  BY <1>1, <1>2, <1>4, <1>5, <1>6, StepKinds DEF Writes

\* A row that is not inserted by the step stays absent.
LEMMA AbsentKept ==
  ASSUME IInv, NEW q \in Requests, Step(q), NEW b \in Bookings,
         status[b] = "absent", ~(pc[q] = "insert" /\ call[q].b = b)
  PROVE  status'[b] = "absent"
<1>0. RowTypes /\ HeldOK(q) /\ LosersOK(q)
  BY TypeParts DEF IInv
<1>1. CASE Reads(q)
  BY <1>1, ReadsKeepRows
<1>2. CASE CreateInsert(q)
  BY <1>0, <1>2 DEF CreateInsert, RowTypes
<1>3. CASE TransitionStep(q)
  BY <1>0, <1>3 DEF TransitionStep, RejectStore, CancelStore, HeldOK,
    CancelByPartnerStore, CompleteStore, Transition, RowTypes, InTx
<1>4. CASE AcceptCommit(q)
  <2>1. call[q].b # b
    <3>1. call[q].op = "accept"
      BY <1>4 DEF IInv, CallOK, AcceptCommit
    <3>. QED
      BY <1>0, <1>4, <3>1 DEF AcceptCommit, HeldOK, InTx
  <2>. QED
    BY <1>0, <1>4, <2>1 DEF AcceptCommit, RowTypes, LosersOK
<1>5. CASE UpdateStore(q) \/ SendOTPStore(q) \/ VerifyOTPStore(q)
  BY <1>5 DEF UpdateStore, SendOTPStore, VerifyOTPStore
<1>. QED
  BY <1>1, <1>2, <1>3, <1>4, <1>5, StepKinds DEF Writes

\* A booking is accepted only by its own accept call, past the unique index;
\* accepted bookings keep their partner and slot.
LEMMA Acceptances ==
  ASSUME IInv, NEW q \in Requests, Step(q), NEW b \in Bookings,
         status'[b] = "accepted"
  PROVE  /\ partnerOf'[b] = partnerOf[b] /\ slotOf'[b] = slotOf[b]
         /\ \/ status[b] = "accepted"
            \/ pc[q] = "compete" /\ b = call[q].b
<1>0. RowTypes /\ HeldOK(q)
  BY TypeParts DEF IInv
<1>1. CASE Reads(q)
  BY <1>1, ReadsKeepRows
<1>2. CASE CreateInsert(q)
  BY <1>0, <1>2 DEF CreateInsert, RowTypes
<1>3. CASE TransitionStep(q)
  BY <1>0, <1>3 DEF TransitionStep, RejectStore, CancelStore,
    CancelByPartnerStore, CompleteStore, Transition, RowTypes
<1>4. CASE AcceptCommit(q)
  BY <1>0, <1>4 DEF AcceptCommit, RowTypes
<1>5. CASE UpdateStore(q)
  BY <1>0, <1>5 DEF UpdateStore, RowTypes, HeldOK, InTx
<1>6. CASE SendOTPStore(q) \/ VerifyOTPStore(q)
  BY <1>6 DEF SendOTPStore, VerifyOTPStore
<1>. QED
  BY <1>1, <1>2, <1>3, <1>4, <1>5, <1>6, StepKinds DEF Writes

\* Another request's place in an accept or a create can only be reached in
\* agreement with r.
LEMMA Arrivals ==
  ASSUME IInv, NEW q \in Requests, Step(q)
  PROVE  /\ pc'[q] \in {"check", "insert"} =>
              \/ pc[q] \in {"check", "insert"} /\ call'[q] = call[q]
              \/ /\ status[call'[q].b] = "absent"
                 /\ \A r \in Requests : call[r].b # call'[q].b
         /\ pc'[q] = "compete" =>
              /\ call'[q] = call[q]
              /\ UNCHANGED <<status, partnerOf, slotOf>>
              /\ \/ pc[q] = "compete"
                 \/ /\ pc[q] = "mark" /\ Claimants(call[q].b) = {}
                    /\ ~Taken(partnerOf[call[q].b], slotOf[call[q].b])
<1>0. ControlTypes
  BY TypeParts DEF IInv
<1>1. CASE BeginCreate(q)
  <2>1. PICK u \in Users, p \in Partners, s \in Slots, b \in Bookings :
          /\ status[b] = "absent" /\ \A r \in Requests : call[r].b # b
          /\ call' = [call EXCEPT ![q] = NewCall("create", b, u, p, s, None, 0)]
    BY <1>1 DEF BeginCreate
  <2>2. call'[q].b = b
    BY <1>0, <2>1 DEF NewCall, ControlTypes
  <2>3. pc'[q] = "check"
    BY <1>0, <1>1 DEF BeginCreate, Goto, ControlTypes
  <2>. QED
    BY <2>1, <2>2, <2>3
<1>2. CASE Begin(q) \/ CreateInsert(q) \/ CreateCheck(q)
  BY <1>0, <1>2 DEF Begin, CreateCheck, CreateInsert, Commit, Finish, Goto, ControlTypes
<1>3. CASE LoadStep(q)
  BY <1>0, <1>3 DEF LoadStep, AcceptLoad, RejectLoad, CancelLoad,
    CancelByPartnerLoad, UpdateLoad, SendOTPLoad, VerifyOTPLoad, CompleteLoad,
    Load, Finish, Goto, ControlTypes
<1>4. CASE TransitionStep(q)
  BY <1>0, <1>4 DEF TransitionStep, RejectStore, CancelStore,
    CancelByPartnerStore, CompleteStore, Transition, Commit, Goto, ControlTypes
<1>5. CASE AcceptCount(q) \/ UpdateCount(q) \/ UpdateStore(q)
  BY <1>0, <1>5 DEF AcceptCount, UpdateCount, UpdateStore, Rollback, Finish, Goto, ControlTypes
<1>6. CASE AcceptMark(q)
  BY <1>0, <1>6 DEF AcceptMark, Rollback, Finish, Goto, ControlTypes, rows
<1>7. CASE AcceptCompete(q) \/ AcceptCommit(q)
  BY <1>0, <1>7 DEF AcceptCompete, AcceptCommit, Commit, Goto, ControlTypes, rows
<1>8. CASE SendOTPStore(q) \/ SendOTPMail(q) \/ VerifyOTPStore(q) \/ Notify(q)
  BY <1>0, <1>8 DEF SendOTPStore, SendOTPMail, VerifyOTPStore, Notify, Commit,
    Finish, Goto, ControlTypes
<1>9. CASE Abandon(q) \/ DeadlockAbort(q)
  BY <1>0, <1>9 DEF Abandon, DeadlockAbort, Rollback, Finish, Goto, ControlTypes
<1>. QED
  BY <1>1, <1>2, <1>3, <1>4, <1>5, <1>6, <1>7, <1>8, <1>9, StepKinds
  DEF Reads, Writes

\* A step of q keeps the invariant of every other request.
LEMMA OthersInv ==
  ASSUME IInv, NEW q \in Requests, Step(q), NEW r \in Requests, r # q
  PROVE  CallOK(r)' /\ HeldOK(r)' /\ LosersOK(r)' /\ IndexOK(r)'
<1>0. /\ TypeOK /\ CallOK(r) /\ HeldOK(r) /\ LosersOK(r) /\ IndexOK(r)
      /\ CallOK(q)
  BY DEF IInv
<1>1. /\ pc'[r] = pc[r] /\ call'[r] = call[r]
      /\ cand'[r] = cand[r] /\ losers'[r] = losers[r]
  BY OthersKept
<1>2. ASSUME NEW p \in Requests, p # q, NEW b \in Bookings,
             lock[b] = p, status[b] # "absent"
      PROVE  /\ lock'[b] = p
             /\ status'[b] = status[b] /\ partnerOf'[b] = partnerOf[b]
             /\ slotOf'[b] = slotOf[b] /\ handoff'[b] = handoff[b]
  <2>1. lock[b] # None /\ lock[b] # q
    BY <1>2, NoneAssumption
  <2>2. ~(pc[q] = "insert" /\ call[q].b = b)
    BY <1>0, <1>2 DEF CallOK
  <2>. QED
    BY <1>2, <2>1, <2>2, LocksKept, RowsKept
<1>3. ASSUME NEW p \in Requests, InTx(p)
      PROVE  /\ call[p].b \in Bookings /\ lock[call[p].b] = p
             /\ status[call[p].b] # "absent"
  <2>1. CallOK(p) /\ HeldOK(p)
    BY DEF IInv
  <2>. QED
    BY <1>3, <2>1, CallTypes DEF InTx, HeldOK, CallOK, Operations, UserOps, PartnerOps
<1>4. CallOK(r)'
  <2>1. pc[r] \in {"check", "insert"} =>
          /\ status'[call[r].b] = "absent"
          /\ \A p \in Requests :
               p # r /\ pc'[p] \in {"check", "insert"} => call'[p].b # call[r].b
    <3>. SUFFICES ASSUME pc[r] \in {"check", "insert"}
                  PROVE  /\ status'[call[r].b] = "absent"
                         /\ \A p \in Requests :
                              p # r /\ pc'[p] \in {"check", "insert"}
                                => call'[p].b # call[r].b
      OBVIOUS
    <3>1. /\ call[r].b \in Bookings /\ status[call[r].b] = "absent"
          /\ \A p \in Requests :
               p # r /\ pc[p] \in {"check", "insert"} => call[p].b # call[r].b
      BY <1>0, CallTypes DEF CallOK
    <3>2. status'[call[r].b] = "absent"
      BY <3>1, AbsentKept
    <3>3. ASSUME NEW p \in Requests, p # r, pc'[p] \in {"check", "insert"}
          PROVE  call'[p].b # call[r].b
      <4>1. CASE p = q
        BY <3>1, <3>3, <4>1, Arrivals
      <4>2. CASE p # q
        BY <3>1, <3>3, <4>2, OthersKept
      <4>. QED
        BY <4>1, <4>2
    <3>. QED
      BY <3>2, <3>3
  <2>. QED
    BY <1>0, <1>1, <2>1 DEF CallOK, Calls, Times
<1>5. HeldOK(r)'
  BY <1>0, <1>1, <1>2, <1>3 DEF HeldOK, InTx
<1>6. LosersOK(r)'
  BY <1>0, <1>1, <1>2, <1>3 DEF LosersOK, InTx, SameSlot, TypeOK
<1>7. IndexOK(r)'
  <2>. SUFFICES ASSUME pc[r] = "compete" PROVE IndexOK(r)'
    BY <1>1 DEF IndexOK
  <2>1. /\ call[r].b \in Bookings
        /\ partnerOf'[call[r].b] = partnerOf[call[r].b]
        /\ slotOf'[call[r].b] = slotOf[call[r].b]
    BY <1>2, <1>3 DEF InTx
  <2>2. ASSUME NEW c \in Bookings, status'[c] = "accepted",
               partnerOf'[c] = partnerOf[call[r].b], slotOf'[c] = slotOf[call[r].b]
        PROVE  FALSE
    <3>1. partnerOf[c] = partnerOf[call[r].b] /\ slotOf[c] = slotOf[call[r].b]
      BY <2>2, Acceptances
    <3>2. status[c] # "accepted"
      BY <1>0, <3>1 DEF IndexOK, Taken
    <3>3. pc[q] = "compete" /\ c = call[q].b
      BY <2>2, <3>2, Acceptances
    <3>. QED
      BY <1>0, <3>1, <3>3 DEF IndexOK, SameSlot
  <2>3. ASSUME NEW p \in Requests, p # r, pc'[p] = "compete"
        PROVE  ~SameSlot(call[p].b, call[r].b)' /\ call'[p] = call[p]
    <3>1. CASE p = q
      <4>1. call'[q] = call[q] /\ UNCHANGED <<status, partnerOf, slotOf>>
        BY <2>3, <3>1, Arrivals
      <4>2. ~SameSlot(call[q].b, call[r].b)
        BY <1>0, <2>3, <3>1, Arrivals DEF IndexOK, Claimants, SameSlot
      <4>. QED
        BY <1>1, <3>1, <4>1, <4>2 DEF SameSlot
    <3>2. CASE p # q
      <4>1. pc[p] = "compete" /\ call'[p] = call[p]
        BY <2>3, <3>2, OthersKept
      <4>2. /\ partnerOf'[call[p].b] = partnerOf[call[p].b]
            /\ slotOf'[call[p].b] = slotOf[call[p].b]
        BY <1>2, <1>3, <3>2, <4>1 DEF InTx
      <4>3. ~SameSlot(call[p].b, call[r].b)
        BY <1>0, <2>3, <4>1 DEF IndexOK
      <4>. QED
        BY <1>1, <2>1, <4>1, <4>2, <4>3 DEF SameSlot
    <3>. QED
      BY <3>1, <3>2
  <2>. QED
    BY <1>1, <2>1, <2>2, <2>3 DEF IndexOK, Taken
<1>. QED
  BY <1>4, <1>5, <1>6, <1>7

\* A step of q keeps what its own call and transaction rely on.
LEMMA OwnCallInv ==
  ASSUME IInv, NEW q \in Requests, Step(q)
  PROVE  CallOK(q)' /\ HeldOK(q)' /\ LosersOK(q)'
<1>0. /\ ControlTypes /\ RowTypes /\ TypeOK
      /\ CallOK(q) /\ HeldOK(q) /\ LosersOK(q) /\ IndexOK(q)
  BY TypeParts DEF IInv
<1>1. CASE Finish(q)
  <2>1. pc'[q] = "idle" /\ losers'[q] = {}
    BY <1>0, <1>1 DEF Finish, Goto, ControlTypes
  <2>. QED
    BY <2>1 DEF CallOK, HeldOK, InTx, LosersOK
<1>2. CASE Rollback(q)
  BY <1>1, <1>2 DEF Rollback
<1>3. CASE BeginCreate(q)
  <2>1. PICK u \in Users, p \in Partners, s \in Slots, b \in Bookings :
          /\ status[b] = "absent" /\ \A r \in Requests : call[r].b # b
          /\ call' = [call EXCEPT ![q] = NewCall("create", b, u, p, s, None, 0)]
    BY <1>3 DEF BeginCreate
  <2>2. call'[q] = NewCall("create", b, u, p, s, None, 0)
    BY <1>0, <2>1 DEF ControlTypes
  <2>3. pc'[q] = "check" /\ losers' = losers /\ status' = status
    BY <1>0, <1>3 DEF BeginCreate, Goto, ControlTypes, rows
  <2>4. call'[q] \in Calls
    BY <2>2 DEF NewCall, Calls, Times, Operations, UserOps
  <2>5. \A r \in Requests : r # q => call'[r] = call[r]
    BY OthersKept
  <2>6. /\ call'[q].op = "create" /\ call'[q].b = b /\ call'[q].actor = u
        /\ call'[q].partner = p /\ call'[q].slot = s
    BY <2>2 DEF NewCall
  <2>7. CallOK(q)'
    BY <2>1, <2>3, <2>4, <2>5, <2>6 DEF CallOK
  <2>8. losers'[q] = {}
    BY <1>0, <1>3, <2>3 DEF BeginCreate, LosersOK
  <2>. QED
    BY <2>3, <2>7, <2>8 DEF HeldOK, InTx, LosersOK
<1>4. CASE Begin(q)
  <2>1. PICK op \in Ops \ {"create"}, b \in Bookings :
          \E a \in Actors(op), s \in SlotArgs(op), c \in CodeArgs(op) :
            call' = [call EXCEPT ![q] = NewCall(op, b, a, None, s, c, TimeArg(op))]
    BY <1>4 DEF Begin
  <2>2. PICK a \in Actors(op), s \in SlotArgs(op), c \in CodeArgs(op) :
          call' = [call EXCEPT ![q] = NewCall(op, b, a, None, s, c, TimeArg(op))]
    BY <2>1
  <2>3. call'[q] = NewCall(op, b, a, None, s, c, TimeArg(op))
    BY <1>0, <2>2 DEF ControlTypes
  <2>4. pc'[q] = "load" /\ losers' = losers /\ call'[q] \in Calls
    <3>1. NewCall(op, b, a, None, s, c, TimeArg(op)) \in Calls
      BY <1>0, OpsAssumption
      DEF NewCall, Actors, SlotArgs, CodeArgs, TimeArg, Calls, Times, ControlTypes
    <3>. QED
      BY <1>0, <1>4, <2>3, <3>1 DEF Begin, Goto, ControlTypes
  <2>5. /\ call'[q].op = "update" => call'[q].slot \in Slots
        /\ call'[q].op \in {"sendOTP", "verifyOTP"} => call'[q].code \in Codes
    BY <2>3 DEF NewCall, SlotArgs, CodeArgs
  <2>6. CallOK(q)'
    BY <2>4, <2>5 DEF CallOK
  <2>7. losers'[q] = {}
    BY <1>0, <1>4, <2>4 DEF Begin, LosersOK
  <2>. QED
    BY <2>4, <2>6, <2>7 DEF HeldOK, InTx, LosersOK
<1>5. ASSUME NEW label, pc'[q] = label, call'[q] = call[q], losers'[q] = {},
             label \in {"mail", "notify"}, pc[q] # "idle",
             label = "mail" => call[q].op = "sendOTP",
             label = "notify" =>
               call[q].op \in Operations \ {"update", "sendOTP", "verifyOTP"}
      PROVE  CallOK(q)' /\ HeldOK(q)' /\ LosersOK(q)'
  BY <1>0, <1>5 DEF CallOK, HeldOK, InTx, LosersOK, Calls, Times
<1>6. CASE CreateCheck(q)
  <2>1. CASE Finish(q)
    BY <1>1, <2>1
  <2>2. CASE ~Finish(q)
    <3>1. /\ pc[q] = "check" /\ pc'[q] = "insert" /\ status' = status
          /\ call' = call /\ losers' = losers
          /\ \A r \in Requests : r # q => pc'[r] = pc[r]
      BY <1>0, <1>6, <2>2 DEF CreateCheck, Goto, ControlTypes, rows
    <3>2. CallOK(q)'
      BY <1>0, <3>1 DEF CallOK, Calls, Times
    <3>. QED
      BY <1>0, <3>1, <3>2 DEF HeldOK, InTx, LosersOK
  <2>. QED
    BY <2>1, <2>2
<1>7. CASE CreateInsert(q) \/ TransitionStep(q) \/ AcceptCommit(q) \/ SendOTPStore(q)
  <2>1. PICK label \in {"mail", "notify"} : Commit(q, label)
    BY <1>7 DEF CreateInsert, TransitionStep, RejectStore, CancelStore, SendOTPStore,
      CancelByPartnerStore, CompleteStore, Transition, AcceptCommit
  <2>2. pc'[q] = label /\ call'[q] = call[q] /\ losers'[q] = {}
    BY <1>0, <2>1 DEF Commit, Goto, ControlTypes
  <2>3. pc[q] # "idle"
    BY <1>7 DEF CreateInsert, TransitionStep, RejectStore, CancelStore, SendOTPStore,
      CancelByPartnerStore, CompleteStore, Transition, AcceptCommit
  <2>4. label = "mail" => call[q].op = "sendOTP"
    BY <1>0, <1>7, <2>2 DEF CreateInsert, TransitionStep, RejectStore, CancelStore,
      SendOTPStore, CancelByPartnerStore, CompleteStore, Transition, AcceptCommit,
      Commit, Goto, ControlTypes
  <2>5. label = "notify" =>
          call[q].op \in {"create", "accept", "reject", "cancel",
                          "cancelByPartner", "complete"}
    BY <1>0, <1>7, <2>2 DEF CreateInsert, TransitionStep, RejectStore, CancelStore,
      SendOTPStore, CancelByPartnerStore, CompleteStore, Transition, AcceptCommit,
      Commit, Goto, ControlTypes, CallOK
  <2>. QED
    BY <1>5, <2>2, <2>3, <2>4, <2>5 DEF Operations, UserOps, PartnerOps
<1>8. CASE LoadStep(q)
  <2>1. CASE Finish(q)
    BY <1>1, <2>1
  <2>2. CASE ~Finish(q)
    <3>1. /\ pc[q] = "load" /\ pc'[q] \in {"count", "store"}
          /\ call' = call /\ losers' = losers
          /\ lock' = [lock EXCEPT ![call[q].b] = q]
          /\ UNCHANGED <<status, userOf, partnerOf, slotOf, handoff>>
      BY <1>0, <1>8, <2>2 DEF LoadStep, AcceptLoad, RejectLoad, CancelLoad,
        CancelByPartnerLoad, UpdateLoad, SendOTPLoad, VerifyOTPLoad,
        CompleteLoad, Load, Goto, ControlTypes, rows
    <3>2. /\ pc'[q] = "count" => call[q].op \in {"accept", "update"}
          /\ pc'[q] = "store" => call[q].op \in Operations \ {"create", "accept", "update"}
          /\ call[q].op \in {"accept", "reject", "update"} =>
               status[call[q].b] = "pending"
          /\ call[q].op = "cancel" => status[call[q].b] \in {"pending", "accepted"}
          /\ call[q].op \in {"cancelByPartner", "sendOTP", "verifyOTP", "complete"} =>
               status[call[q].b] = "accepted"
          /\ call[q].op = "complete" => handoff[call[q].b].verifiedAt # 0
      BY <1>0, <1>8, <2>2 DEF LoadStep, AcceptLoad, RejectLoad, CancelLoad,
        CancelByPartnerLoad, UpdateLoad, SendOTPLoad, VerifyOTPLoad,
        CompleteLoad, Load, Goto, ControlTypes, Operations, UserOps, PartnerOps
    <3>3. call[q].b \in Bookings
      BY <3>1, CallTypes
    <3>4. CallOK(q)'
      BY <1>0, <3>1, <3>2 DEF CallOK, Calls, Times
    <3>5. HeldOK(q)'
      BY <1>0, <3>1, <3>2, <3>3 DEF HeldOK, InTx, ControlTypes
    <3>6. losers'[q] = {}
      BY <1>0, <3>1 DEF LosersOK
    <3>. QED
      BY <3>1, <3>4, <3>5, <3>6 DEF LosersOK
  <2>. QED
    BY <2>1, <2>2
<1>9. CASE AcceptCount(q) \/ AcceptMark(q) \/ UpdateCount(q)
  <2>1. CASE Rollback(q)
    BY <1>2, <2>1
  <2>2. CASE ~Rollback(q)
    <3>1. /\ pc[q] \in {"count", "mark"}
          /\ pc'[q] \in {"mark", "compete", "store"}
          /\ pc[q] = "mark" => pc'[q] = "compete" /\ call[q].b \notin cand'[q]
          /\ pc[q] = "count" => /\ call[q].op = "accept" => pc'[q] = "mark"
                                /\ call[q].op = "update" => pc'[q] = "store"
          /\ call' = call /\ losers' = losers /\ lock' = lock
          /\ UNCHANGED rows
      BY <1>0, <1>9, <2>2 DEF AcceptCount, AcceptMark, UpdateCount, Goto, ControlTypes
    <3>2. CallOK(q)'
      BY <1>0, <3>1 DEF CallOK, Calls, Times
    <3>3. HeldOK(q)'
      BY <1>0, <3>1 DEF HeldOK, InTx, rows
    <3>4. losers'[q] = {}
      BY <1>0, <3>1 DEF LosersOK
    <3>5. pc'[q] = "compete" => call[q].b \notin cand'[q]
      BY <1>0, <3>1 DEF CallOK
    <3>6. LosersOK(q)'
      BY <3>1, <3>4, <3>5 DEF LosersOK
    <3>. QED
      BY <3>2, <3>3, <3>6
  <2>. QED
    BY <2>1, <2>2
<1>10. CASE AcceptCompete(q)
  <2>1. PICK c \in cand[q] :
          /\ lock[c] = None
          /\ lock' = [lock EXCEPT ![c] = q]
          /\ cand' = [cand EXCEPT ![q] = @ \ {c}]
          /\ losers' = IF status[c] = "pending" /\ SameSlot(c, call[q].b)
                       THEN [losers EXCEPT ![q] = @ \cup {c}] ELSE losers
    BY <1>10 DEF AcceptCompete
  <2>2. /\ pc[q] = "compete" /\ pc' = pc /\ call' = call
        /\ UNCHANGED <<status, partnerOf, slotOf, handoff>>
    BY <1>10 DEF AcceptCompete, rows
  <2>3. CallOK(q)'
    BY <1>0, <2>2 DEF CallOK, Calls, Times
  <2>4. HeldOK(q)'
    BY <1>0, <2>1, <2>2 DEF HeldOK, InTx, ControlTypes
  <2>5. c \in Bookings /\ c # call[q].b
    BY <1>0, <2>2 DEF LosersOK, ControlTypes
  <2>6. LosersOK(q)'
    BY <1>0, <2>1, <2>2, <2>5 DEF LosersOK, ControlTypes, SameSlot
  <2>. QED
    BY <2>3, <2>4, <2>6
<1>11. CASE \/ UpdateStore(q) \/ VerifyOTPStore(q) \/ SendOTPMail(q) \/ Notify(q)
            \/ Abandon(q) \/ DeadlockAbort(q)
  BY <1>1, <1>2, <1>11 DEF UpdateStore, VerifyOTPStore, SendOTPMail, Notify,
    Abandon, DeadlockAbort
<1>. QED
  BY <1>3, <1>4, <1>6, <1>7, <1>8, <1>9, <1>10, <1>11, StepKinds DEF Reads, Writes

\* A step of q keeps q alone on its slot once it is past the unique index.
LEMMA OwnIndexInv ==
  ASSUME IInv, NEW q \in Requests, Step(q)
  PROVE  IndexOK(q)'
<1>. SUFFICES ASSUME pc'[q] = "compete" PROVE IndexOK(q)'
  BY DEF IndexOK
<1>0. IndexOK(q)
  BY DEF IInv
<1>1. /\ call'[q] = call[q] /\ UNCHANGED <<status, partnerOf, slotOf>>
      /\ \A p \in Requests : p # q /\ pc[p] = "compete"
            => ~SameSlot(call[p].b, call[q].b)
      /\ ~Taken(partnerOf[call[q].b], slotOf[call[q].b])
  BY <1>0, Arrivals DEF IndexOK, Claimants
<1>2. \A p \in Requests : p # q => pc'[p] = pc[p] /\ call'[p] = call[p]
  BY OthersKept
<1>. QED
  BY <1>1, <1>2 DEF IndexOK, SameSlot, Taken

\* A step keeps accepted bookings of a partner on different slots.
LEMMA SlotStep ==
  ASSUME IInv, NEW q \in Requests, Step(q)
  PROVE  SlotExclusive'
<1>. SUFFICES ASSUME NEW b \in Bookings, NEW c \in Bookings,
                     status'[b] = "accepted", status'[c] = "accepted",
                     SameSlot(b, c)'
              PROVE  b = c
  BY DEF SlotExclusive
<1>1. SameSlot(b, c)
  BY Acceptances DEF SameSlot
<1>2. SlotExclusive /\ IndexOK(q)
  BY DEF IInv
<1>. QED
  BY <1>1, <1>2, Acceptances DEF SlotExclusive, SameSlot, IndexOK, Taken

\* The clock touches nothing the invariant speaks of.
LEMMA TickStep ==
  ASSUME IInv, Tick \/ UNCHANGED vars
  PROVE  IInv'
<1>1. /\ UNCHANGED <<status, userOf, partnerOf, slotOf, handoff, log, notices,
                    lock, pc, call, cand, losers>>
      /\ now \in Nat => now' \in Nat
  BY DEF Tick, vars, rows, effects
<1>2. TypeOK'
  BY <1>1 DEF IInv, TypeOK
<1>3. ASSUME NEW r \in Requests
      PROVE  CallOK(r)' /\ HeldOK(r)' /\ LosersOK(r)' /\ IndexOK(r)'
  BY <1>1 DEF IInv, CallOK, Calls, Times, HeldOK, InTx, LosersOK, IndexOK,
    SameSlot, Taken
<1>4. SlotExclusive'
  BY <1>1 DEF IInv, SlotExclusive, SameSlot
<1>. QED
  BY <1>2, <1>3, <1>4 DEF IInv

\* The invariant is inductive.
LEMMA NextIInv ==
  ASSUME IInv, [Next]_vars
  PROVE  IInv'
<1>1. CASE Tick \/ UNCHANGED vars
  BY <1>1, TickStep
<1>2. ASSUME NEW q \in Requests, Step(q)
      PROVE  IInv'
  <2>1. TypeOK' /\ SlotExclusive'
    BY <1>2, TypeStep, SlotStep
  <2>2. ASSUME NEW r \in Requests
        PROVE  CallOK(r)' /\ HeldOK(r)' /\ LosersOK(r)' /\ IndexOK(r)'
    <3>1. CASE r = q
      BY <1>2, <3>1, OwnCallInv, OwnIndexInv
    <3>2. CASE r # q
      BY <1>2, <3>2, OthersInv
    <3>. QED
      BY <3>1, <3>2
  <2>. QED
    BY <2>1, <2>2 DEF IInv
<1>. QED
  BY <1>1, <1>2 DEF Next, Step

\* Whatever calls race, what each transaction relies on stays true.
THEOREM Invariance == Spec => []IInv
<1>1. IInv /\ [Next]_vars => IInv'
  BY NextIInv
<1>. QED
  BY InitIInv, <1>1, PTL DEF Spec

\* Every column and local variable keeps its type.
THEOREM TypeCorrectness == Spec => []TypeOK
<1>1. IInv => TypeOK
  BY DEF IInv
<1>. QED
  BY Invariance, <1>1, PTL

\* No two accepted bookings of a partner ever share a slot, however many
\* bookings, slots and concurrent calls there are.
THEOREM SlotExclusivity == Spec => []SlotExclusive
<1>1. IInv => SlotExclusive
  BY DEF IInv
<1>. QED
  BY Invariance, <1>1, PTL

-----------------------------------------------------------------------------
\* The completion code.

\* A step keeps confirmations and completions in agreement with the code.
LEMMA HandoffStep ==
  ASSUME IInv, HandoffConfirmed, NEW q \in Requests, Step(q)
  PROVE  HandoffConfirmed'
<1>0. RowTypes /\ HeldOK(q) /\ CallOK(q)
  BY TypeParts DEF IInv
<1>1. CASE Reads(q)
  BY <1>1, ReadsKeepRows DEF HandoffConfirmed
<1>2. CASE CreateInsert(q)
  BY <1>0, <1>2 DEF CreateInsert, HandoffConfirmed, RowTypes
<1>3. CASE TransitionStep(q)
  <2>1. PICK to \in {"rejected", "cancelled", "completed"} :
          /\ status' = [status EXCEPT ![call[q].b] = to]
          /\ to = "completed" => pc[q] = "store" /\ call[q].op = "complete"
          /\ handoff' = handoff
    BY <1>3 DEF TransitionStep, RejectStore, CancelStore,
      CancelByPartnerStore, CompleteStore, Transition
  <2>2. to = "completed" => handoff[call[q].b].verifiedAt # 0
    BY <1>0, <2>1 DEF HeldOK, InTx
  <2>. QED
    BY <1>0, <2>1, <2>2 DEF HandoffConfirmed, RowTypes
<1>4. CASE AcceptCommit(q)
  BY <1>0, <1>4 DEF AcceptCommit, HandoffConfirmed, RowTypes
<1>5. CASE UpdateStore(q)
  BY <1>5 DEF UpdateStore, HandoffConfirmed
<1>6. CASE SendOTPStore(q)
  <2>1. status[call[q].b] = "accepted"
    BY <1>0, <1>6 DEF SendOTPStore, HeldOK, InTx
  <2>. QED
    BY <1>0, <1>6, <2>1 DEF SendOTPStore, HandoffConfirmed, RowTypes, NoHandoff
<1>7. CASE VerifyOTPStore(q)
  <2>1. status[call[q].b] = "accepted" /\ status' = status
    BY <1>0, <1>7 DEF VerifyOTPStore, HeldOK, InTx
  <2>2. CASE handoff' = handoff
    BY <2>1, <2>2 DEF HandoffConfirmed
  <2>3. CASE handoff' # handoff
    <3> DEFINE h == handoff[call[q].b]
    <3>1. /\ handoff' = [handoff EXCEPT ![call[q].b] =
                [h EXCEPT !.verifiedAt = call[q].at, !.verifiedCode = call[q].code]]
          /\ h.code = call[q].code /\ call[q].at <= h.expiry
          /\ call[q].b \in Bookings
      BY <1>7, <2>3, CallTypes DEF VerifyOTPStore
    <3>2. h \in Handoffs
      BY <1>0, <3>1 DEF RowTypes
    <3>3. /\ handoff'[call[q].b].code = call[q].code
          /\ handoff'[call[q].b].verifiedCode = call[q].code
          /\ handoff'[call[q].b].verifiedAt <= handoff'[call[q].b].expiry
      BY <1>0, <3>1, <3>2 DEF RowTypes, Handoffs
    <3>4. \A b \in Bookings : b # call[q].b => handoff'[b] = handoff[b]
      BY <1>0, <3>1 DEF RowTypes
    <3>. QED
      BY <2>1, <3>3, <3>4 DEF HandoffConfirmed
  <2>. QED
    BY <2>2, <2>3
<1>. QED
  BY <1>1, <1>2, <1>3, <1>4, <1>5, <1>6, <1>7, StepKinds DEF Writes

\* Only bookings whose outstanding code was confirmed in time are completed.
THEOREM HandoffSafety == Spec => []HandoffConfirmed
<1>1. Init => HandoffConfirmed
  BY DEF Init, HandoffConfirmed, NoHandoff
<1>2. IInv /\ HandoffConfirmed /\ [Next]_vars => HandoffConfirmed'
  <2>. SUFFICES ASSUME IInv, HandoffConfirmed, [Next]_vars PROVE HandoffConfirmed'
    OBVIOUS
  <2>1. CASE Tick \/ UNCHANGED vars
    BY <2>1 DEF Tick, vars, rows, HandoffConfirmed
  <2>2. CASE \E q \in Requests : Step(q)
    BY <2>2, HandoffStep
  <2>. QED
    BY <2>1, <2>2 DEF Next, Step
<1>. QED
  BY Invariance, <1>1, <1>2, PTL DEF Spec

-----------------------------------------------------------------------------
\* The audit trail.

\* A history goes on with any move the life cycle allows.
LEMMA HistoryGrows ==
  ASSUME NEW l \in Seq(Statuses), NEW to \in Statuses,
         History(l), <<l[Len(l)], to>> \in Lifecycle
  PROVE  /\ History(Append(l, to))
         /\ Append(l, to)[Len(Append(l, to))] = to
<1> DEFINE m == Append(l, to)
<1>1. /\ Len(m) = Len(l) + 1 /\ Len(l) \in Nat \ {0}
      /\ m[Len(l) + 1] = to
      /\ \A i \in 1..Len(l) : m[i] = l[i]
  BY DEF History
<1>2. m # <<>> /\ m[1] = "pending"
  BY <1>1 DEF History
<1> HIDE DEF m
<1>3. ASSUME NEW i \in 1..Len(m) - 1
      PROVE  <<m[i], m[i + 1]>> \in Lifecycle
  <2>1. CASE i = Len(l)
    BY <1>1, <2>1
  <2>2. CASE i # Len(l)
    <3>1. i \in 1..Len(l) - 1 /\ m[i] = l[i] /\ m[i + 1] = l[i + 1]
      BY <1>1, <2>2
    <3>. QED
      BY <3>1 DEF History
  <2>. QED
    BY <2>1, <2>2
<1>4. History(m) /\ m[Len(m)] = to
  BY <1>1, <1>2, <1>3 DEF History
<1>. QED
  BY <1>4 DEF m

\* No move leads back to pending: a history that ends there has one entry.
LEMMA HistoryBegins ==
  ASSUME NEW l \in Seq(Statuses), History(l), l[Len(l)] = "pending"
  PROVE  l = <<"pending">>
<1>1. Len(l) \in Nat \ {0}
  BY DEF History
<1>2. Len(l) = 1
  <2>1. PICK n \in Nat : n = Len(l) /\ n # 0
    BY <1>1
  <2>2. CASE n > 1
    <3>1. n - 1 \in 1..n - 1 /\ (n - 1) + 1 = n
      BY <2>2
    <3>2. <<l[n - 1], l[n]>> \in Lifecycle
      BY <2>1, <3>1 DEF History
    <3>. QED
      BY <2>1, <3>2 DEF Lifecycle
  <2>. QED
    BY <2>1, <2>2
<1>. QED
  BY <1>2 DEF History

\* A step keeps every booking's log in agreement with its row.
LEMMA AuditStep ==
  ASSUME IInv, AuditTrail, NEW q \in Requests, Step(q)
  PROVE  AuditTrail'
<1> DEFINE Audit(s, l) ==
             IF s = "absent" THEN l = <<>>
             ELSE /\ History(l)
                  /\ \/ l[Len(l)] = s
                     \/ s = "rejected" /\ l = <<"pending">>
<1>0. /\ RowTypes /\ EffectTypes /\ HeldOK(q) /\ CallOK(q) /\ LosersOK(q)
      /\ \A b \in Bookings : Audit(status[b], log[b])
  BY TypeParts DEF IInv, AuditTrail
<1>1. SUFFICES ASSUME NEW b \in Bookings PROVE Audit(status'[b], log'[b])
  BY DEF AuditTrail
<1>2. log[b] \in Seq(Statuses) /\ status[b] \in Statuses /\ Audit(status[b], log[b])
  BY <1>0 DEF EffectTypes, RowTypes
<1>3. ASSUME NEW to \in {"accepted", "rejected", "cancelled", "completed"},
             <<status[b], to>> \in Lifecycle,
             status'[b] = to, log'[b] = Append(log[b], to)
      PROVE  Audit(status'[b], log'[b])
  <2>1. History(log[b]) /\ log[b][Len(log[b])] = status[b]
    BY <1>2, <1>3 DEF Lifecycle
  <2>2. to \in Statuses
    BY DEF Statuses
  <2>3. History(log'[b]) /\ log'[b][Len(log'[b])] = to
    BY <1>2, <1>3, <2>1, <2>2, HistoryGrows
  <2>. QED
    BY <1>3, <2>3
<1>4. CASE status'[b] = status[b] /\ log'[b] = log[b]
  BY <1>2, <1>4
<1>5. CASE CreateInsert(q)
  <2>1. CASE b = call[q].b
    <3>1. /\ status'[b] = "pending" /\ log'[b] = Append(log[b], "pending")
          /\ status[b] = "absent"
      BY <1>0, <1>5, <2>1 DEF CreateInsert, CallOK, RowTypes, EffectTypes
    <3>2. log[b] = <<>> /\ Append(<<>>, "pending") = <<"pending">>
      BY <1>2, <3>1
    <3>3. log'[b] = <<"pending">>
      BY <3>1, <3>2
    <3>4. /\ History(<<"pending">>)
          /\ <<"pending">>[Len(<<"pending">>)] = "pending"
      BY DEF History
    <3>5. Audit("pending", <<"pending">>)
      BY <3>4
    <3>. QED
      BY <3>1, <3>3, <3>5
  <2>2. CASE b # call[q].b
    BY <1>0, <1>4, <1>5, <2>2 DEF CreateInsert, RowTypes, EffectTypes
  <2>. QED
    BY <2>1, <2>2
<1>6. CASE TransitionStep(q)
  <2>1. PICK to \in {"rejected", "cancelled", "completed"} :
          /\ status' = [status EXCEPT ![call[q].b] = to]
          /\ log' = [log EXCEPT ![call[q].b] = Append(@, to)]
          /\ pc[q] = "store"
          /\ \/ to = "rejected" /\ call[q].op = "reject"
             \/ to = "cancelled" /\ call[q].op \in {"cancel", "cancelByPartner"}
             \/ to = "completed" /\ call[q].op = "complete"
    BY <1>6 DEF TransitionStep, RejectStore, CancelStore,
      CancelByPartnerStore, CompleteStore, Transition
  <2>2. CASE b = call[q].b
    <3>1. <<status[b], to>> \in Lifecycle
      BY <1>0, <2>1, <2>2 DEF HeldOK, InTx, Lifecycle
    <3>2. status'[b] = to /\ log'[b] = Append(log[b], to)
      BY <1>0, <2>1, <2>2 DEF RowTypes, EffectTypes
    <3>. QED
      BY <1>3, <3>1, <3>2
  <2>3. CASE b # call[q].b
    BY <1>0, <1>4, <2>1, <2>3 DEF RowTypes, EffectTypes
  <2>. QED
    BY <2>2, <2>3
<1>7. CASE AcceptCommit(q)
  <2>1. CASE b = call[q].b
    <3>1. <<status[b], "accepted">> \in Lifecycle
      BY <1>0, <1>7, <2>1 DEF AcceptCommit, CallOK, HeldOK, InTx, Lifecycle
    <3>2. status'[b] = "accepted" /\ log'[b] = Append(log[b], "accepted")
      BY <1>0, <1>7, <2>1 DEF AcceptCommit, EffectTypes
    <3>. QED
      BY <1>3, <3>1, <3>2
  <2>2. CASE b # call[q].b /\ b \in losers[q]
    <3>1. status[b] = "pending" /\ status'[b] = "rejected" /\ log'[b] = log[b]
      BY <1>0, <1>7, <2>2 DEF AcceptCommit, LosersOK, EffectTypes
    <3>2. History(log[b]) /\ log[b][Len(log[b])] = "pending"
      BY <1>2, <3>1
    <3>3. log[b] = <<"pending">>
      BY <1>2, <3>2, HistoryBegins
    <3>. QED
      BY <3>1, <3>2, <3>3
  <2>3. CASE b # call[q].b /\ b \notin losers[q]
    BY <1>0, <1>4, <1>7, <2>3 DEF AcceptCommit, EffectTypes
  <2>. QED
    BY <2>1, <2>2, <2>3
<1>8. CASE Reads(q)
  <2>1. log' = log
    BY <1>8 DEF Reads, BeginCreate, Begin, CreateCheck, LoadStep, AcceptLoad,
      RejectLoad, CancelLoad, CancelByPartnerLoad, UpdateLoad, SendOTPLoad,
      VerifyOTPLoad, CompleteLoad, Load, AcceptCount, AcceptMark, AcceptCompete,
      UpdateCount, SendOTPMail, Notify, Abandon, DeadlockAbort, Rollback, effects
  <2>. QED
    BY <1>4, <1>8, <2>1, ReadsKeepRows
<1>9. CASE UpdateStore(q) \/ SendOTPStore(q) \/ VerifyOTPStore(q)
  BY <1>4, <1>9 DEF UpdateStore, SendOTPStore, VerifyOTPStore, effects
<1>. QED
  BY <1>5, <1>6, <1>7, <1>8, <1>9, StepKinds DEF Writes

\* The status log of a booking always tells a possible life that ends in the
\* state its row is in, or the row lost its slot while its log says pending.
THEOREM AuditSafety == Spec => []AuditTrail
<1>1. Init => AuditTrail
  BY DEF Init, AuditTrail
<1>2. IInv /\ AuditTrail /\ [Next]_vars => AuditTrail'
  <2>. SUFFICES ASSUME IInv, AuditTrail, [Next]_vars PROVE AuditTrail'
    OBVIOUS
  <2>1. CASE Tick \/ UNCHANGED vars
    BY <2>1 DEF Tick, vars, rows, effects, AuditTrail
  <2>2. CASE \E q \in Requests : Step(q)
    BY <2>2, AuditStep
  <2>. QED
    BY <2>1, <2>2 DEF Next, Step
<1>. QED
  BY Invariance, <1>1, <1>2, PTL DEF Spec

-----------------------------------------------------------------------------
\* Notifications.

\* r has committed and still has to send the notice n about b.
Owed(r, b, n) ==
  pc[r] = "notify" /\ call[r].b = b /\ NoticeOf[call[r].op] = n

Known(b, n) == notices[b][n] > 0 \/ \E r \in Requests : Owed(r, b, n)

Endings == Notices \ {"requested", "accepted"}
EndingOf(n) == IF n = "cancelledByPartner" THEN "cancelled" ELSE n

\* What a notice speaks of is part of the booking's life.
Happened(b, n) ==
  /\ n = "requested" => status[b] # "absent"
  /\ n = "accepted" => \E i \in DOMAIN log[b] : log[b][i] = "accepted"
  /\ n \in Endings => status[b] = EndingOf(n)

\* A notice is sent once or owed by one request, never both.
SentOnce(b, n) ==
  /\ notices[b][n] <= 1
  /\ \A r \in Requests :
       Owed(r, b, n) => /\ notices[b][n] = 0
                        /\ \A q \in Requests : Owed(q, b, n) => q = r

OneEnding(b) == \A m, n \in Endings : Known(b, m) /\ Known(b, n) => m = n

\* The invariant: what is sent, or about to be, has happened; what has happened
\* does not happen again; and a booking ends once.
NoticesOK ==
  \A b \in Bookings :
    /\ \A n \in Notices : SentOnce(b, n) /\ (Known(b, n) => Happened(b, n))
    /\ OneEnding(b)

\* A booking that has come to an end stays as it is, and none disappears.
LEMMA StatusMoves ==
  ASSUME IInv, NEW q \in Requests, Step(q), NEW b \in Bookings,
         status'[b] # status[b]
  PROVE  status[b] \in {"absent", "pending", "accepted"} /\ status'[b] # "absent"
<1>0. RowTypes /\ HeldOK(q) /\ CallOK(q) /\ LosersOK(q)
  BY TypeParts DEF IInv
<1>1. CASE Reads(q)
  BY <1>1, ReadsKeepRows
<1>2. CASE CreateInsert(q)
  BY <1>0, <1>2 DEF CreateInsert, CallOK, RowTypes
<1>3. CASE TransitionStep(q)
  <2>1. PICK to \in {"rejected", "cancelled", "completed"} :
          /\ status' = [status EXCEPT ![call[q].b] = to]
          /\ pc[q] = "store"
          /\ call[q].op \in {"reject", "cancel", "cancelByPartner", "complete"}
    BY <1>3 DEF TransitionStep, RejectStore, CancelStore,
      CancelByPartnerStore, CompleteStore, Transition
  <2>2. b = call[q].b /\ status'[b] = to
    BY <1>0, <2>1 DEF RowTypes
  <2>3. status[b] \in {"pending", "accepted"}
    BY <1>0, <2>1, <2>2 DEF HeldOK, InTx
  <2>. QED
    BY <2>2, <2>3
<1>4. CASE AcceptCommit(q)
  BY <1>0, <1>4 DEF AcceptCommit, CallOK, HeldOK, InTx, LosersOK, RowTypes
<1>5. CASE UpdateStore(q) \/ SendOTPStore(q) \/ VerifyOTPStore(q)
  BY <1>5 DEF UpdateStore, SendOTPStore, VerifyOTPStore
<1>. QED
  BY <1>1, <1>2, <1>3, <1>4, <1>5, StepKinds DEF Writes

\* The status log is append-only.
LEMMA LogAppends ==
  ASSUME IInv, NEW q \in Requests, Step(q), NEW b \in Bookings
  PROVE  log'[b] = log[b] \/ \E to \in Statuses : log'[b] = Append(log[b], to)
<1>0. EffectTypes
  BY TypeParts DEF IInv
<1>1. ASSUME NEW to \in Statuses,
             log' = [log EXCEPT ![call[q].b] = Append(@, to)]
      PROVE  log'[b] = log[b] \/ log'[b] = Append(log[b], to)
  BY <1>0, <1>1 DEF EffectTypes
<1>2. CASE CreateInsert(q) \/ TransitionStep(q) \/ AcceptCommit(q)
  <2>1. \E to \in Statuses : log' = [log EXCEPT ![call[q].b] = Append(@, to)]
    BY <1>2 DEF CreateInsert, TransitionStep, RejectStore, CancelStore,
      CancelByPartnerStore, CompleteStore, Transition, AcceptCommit, Statuses
  <2>. QED
    BY <1>1, <2>1
<1>3. CASE Reads(q)
  BY <1>3 DEF Reads, BeginCreate, Begin, CreateCheck, LoadStep, AcceptLoad,
    RejectLoad, CancelLoad, CancelByPartnerLoad, UpdateLoad, SendOTPLoad,
    VerifyOTPLoad, CompleteLoad, Load, AcceptCount, AcceptMark, AcceptCompete,
    UpdateCount, SendOTPMail, Notify, Abandon, DeadlockAbort, Rollback, effects
<1>4. CASE UpdateStore(q) \/ SendOTPStore(q) \/ VerifyOTPStore(q)
  BY <1>4 DEF UpdateStore, SendOTPStore, VerifyOTPStore, effects
<1>. QED
  BY <1>2, <1>3, <1>4, StepKinds DEF Writes

\* What has happened to a booking stays true.
LEMMA HappenedKept ==
  ASSUME IInv, NEW q \in Requests, Step(q), NEW b \in Bookings, NEW n \in Notices,
         Happened(b, n)
  PROVE  Happened(b, n)'
<1>1. n = "requested" => status'[b] # "absent"
  BY StatusMoves DEF Happened
<1>2. ASSUME n = "accepted"
      PROVE  \E i \in DOMAIN log'[b] : log'[b][i] = "accepted"
  <2>1. log[b] \in Seq(Statuses)
    BY DEF IInv, TypeOK
  <2>2. PICK i \in DOMAIN log[b] : log[b][i] = "accepted"
    BY <1>2 DEF Happened
  <2>3. CASE log'[b] = log[b]
    BY <2>2, <2>3
  <2>4. ASSUME NEW to \in Statuses, log'[b] = Append(log[b], to)
        PROVE  i \in DOMAIN log'[b] /\ log'[b][i] = "accepted"
    BY <2>1, <2>2, <2>4
  <2>. QED
    BY <2>2, <2>3, <2>4, LogAppends
<1>3. n \in Endings => status'[b] = EndingOf(n)
  BY StatusMoves DEF Happened, Endings, EndingOf, Notices
<1>. QED
  BY <1>1, <1>2, <1>3 DEF Happened

\* A request owes only one notice, and it is of a kind its commit has earned:
\* the step in the booking's life is new, and no ending came before it.
LEMMA NewNotice ==
  ASSUME IInv, AuditTrail, NEW q \in Requests, Step(q), pc'[q] = "notify",
         NEW b \in Bookings, NEW n \in Notices,
         call'[q].b = b, NoticeOf[call'[q].op] = n
  PROVE  /\ ~Happened(b, n) /\ Happened(b, n)'
         /\ n \in Endings => \A m \in Endings : ~Happened(b, m)
         /\ notices' = notices
<1>0. /\ RowTypes /\ EffectTypes /\ ControlTypes
      /\ HeldOK(q) /\ CallOK(q) /\ LosersOK(q)
  BY TypeParts DEF IInv
<1>1. \A m \in Endings : EndingOf(m) \in {"rejected", "cancelled", "completed"}
  BY DEF Endings, EndingOf, Notices
<1>2. log[b] \in Seq(Statuses)
  BY <1>0 DEF EffectTypes
<1>3. CASE CreateInsert(q)
  <2>1. call[q].op = "create" /\ call'[q] = call[q] /\ status[b] = "absent"
    BY <1>0, <1>3 DEF CreateInsert, Commit, CallOK
  <2>2. n = "requested" /\ n \notin Endings
    BY <2>1 DEF NoticeOf, Endings
  <2>3. status'[b] = "pending" /\ notices' = notices
    BY <1>0, <1>3, <2>1 DEF CreateInsert, RowTypes
  <2>. QED
    BY <2>1, <2>2, <2>3 DEF Happened
<1>4. CASE TransitionStep(q)
  <2>1. PICK to \in {"rejected", "cancelled", "completed"} :
          /\ status' = [status EXCEPT ![call[q].b] = to]
          /\ pc[q] = "store" /\ call' = call /\ notices' = notices
          /\ \/ to = "rejected" /\ call[q].op = "reject"
             \/ to = "cancelled" /\ call[q].op \in {"cancel", "cancelByPartner"}
             \/ to = "completed" /\ call[q].op = "complete"
    BY <1>4 DEF TransitionStep, RejectStore, CancelStore,
      CancelByPartnerStore, CompleteStore, Transition, Commit
  <2>2. n \in Endings /\ EndingOf(n) = to
    BY <2>1 DEF NoticeOf, Endings, EndingOf, Notices
  <2>3. status[b] \in {"pending", "accepted"}
    BY <1>0, <2>1 DEF HeldOK, InTx
  <2>4. \A m \in Endings : ~Happened(b, m)
    BY <1>1, <2>3 DEF Happened
  <2>5. status'[b] = to
    BY <1>0, <2>1 DEF RowTypes
  <2>6. Happened(b, n)'
    BY <2>2, <2>5 DEF Happened, Endings
  <2>. QED
    BY <2>1, <2>2, <2>4, <2>6
<1>5. CASE AcceptCommit(q)
  <2>1. /\ call[q].op = "accept" /\ call'[q] = call[q] /\ notices' = notices
        /\ status[b] = "pending"
    BY <1>0, <1>5 DEF AcceptCommit, Commit, CallOK, HeldOK, InTx
  <2>2. n = "accepted" /\ n \notin Endings
    BY <2>1 DEF NoticeOf, Endings
  <2>3. log[b] = <<"pending">>
    <3>1. History(log[b]) /\ log[b][Len(log[b])] = "pending"
      BY <2>1 DEF AuditTrail
    <3>. QED
      BY <1>2, <3>1, HistoryBegins
  <2>4. ~Happened(b, n)
    BY <2>2, <2>3 DEF Happened
  <2>5. log'[b] = Append(log[b], "accepted")
    BY <1>0, <1>5, <2>1 DEF AcceptCommit, EffectTypes
  <2>6. 2 \in DOMAIN log'[b] /\ log'[b][2] = "accepted"
    BY <2>3, <2>5
  <2>7. Happened(b, n)'
    BY <2>2, <2>6 DEF Happened, Endings
  <2>. QED
    BY <2>1, <2>2, <2>4, <2>7
<1>6. CASE Begin(q) \/ BeginCreate(q) \/ CreateCheck(q) \/ LoadStep(q)
  <2>1. pc'[q] # "notify"
    BY <1>0, <1>6 DEF Begin, BeginCreate, CreateCheck, LoadStep, AcceptLoad,
      RejectLoad, CancelLoad, CancelByPartnerLoad, UpdateLoad, SendOTPLoad,
      VerifyOTPLoad, CompleteLoad, Load, Finish, Goto, ControlTypes
  <2>. QED
    BY <2>1
<1>7. CASE AcceptCount(q) \/ AcceptMark(q) \/ AcceptCompete(q) \/ UpdateCount(q)
  <2>1. pc'[q] # "notify"
    BY <1>0, <1>7 DEF AcceptCount, AcceptMark, AcceptCompete, UpdateCount, Rollback,
      Finish, Goto, ControlTypes
  <2>. QED
    BY <2>1
<1>8. CASE UpdateStore(q) \/ SendOTPStore(q) \/ VerifyOTPStore(q)
           \/ SendOTPMail(q) \/ Notify(q) \/ Abandon(q) \/ DeadlockAbort(q)
  <2>1. pc'[q] # "notify"
    BY <1>0, <1>8 DEF UpdateStore, SendOTPStore, VerifyOTPStore, SendOTPMail,
      Notify, Abandon, DeadlockAbort, Rollback, Commit, Finish, Goto, ControlTypes
  <2>. QED
    BY <2>1
<1>. QED
  BY <1>3, <1>4, <1>5, <1>6, <1>7, <1>8, StepKinds DEF Reads, Writes

\* Only Notify writes a notification, the one its request owes; and then
\* the request owes nothing.
LEMMA NoticesWritten ==
  ASSUME IInv, NEW q \in Requests, Step(q)
  PROVE  \/ notices' = notices
         \/ /\ pc[q] = "notify" /\ pc'[q] = "idle"
            /\ call[q].b \in Bookings /\ NoticeOf[call[q].op] \in Notices
            /\ \A b \in Bookings, n \in Notices :
                 notices'[b][n] =
                   IF b = call[q].b /\ n = NoticeOf[call[q].op]
                   THEN notices[b][n] + 1 ELSE notices[b][n]
<1>0. EffectTypes /\ ControlTypes
  BY TypeParts DEF IInv
<1>1. CASE Notify(q)
  <2>1. call[q].b \in Bookings /\ NoticeOf[call[q].op] \in Notices
    BY <1>1, CallTypes DEF Notify
  <2>2. pc[q] = "notify" /\ pc'[q] = "idle"
    BY <1>0, <1>1 DEF Notify, Finish, Goto, ControlTypes
  <2>3. ASSUME NEW b \in Bookings, NEW n \in Notices
        PROVE  notices'[b][n] =
                 IF b = call[q].b /\ n = NoticeOf[call[q].op]
                 THEN notices[b][n] + 1 ELSE notices[b][n]
    BY <1>0, <1>1, <2>1 DEF Notify, CountUp, EffectTypes
  <2>. QED
    BY <2>1, <2>2, <2>3
<1>2. CASE Begin(q) \/ BeginCreate(q) \/ CreateCheck(q) \/ LoadStep(q)
  BY <1>2 DEF Begin, BeginCreate, CreateCheck, LoadStep, AcceptLoad,
    RejectLoad, CancelLoad, CancelByPartnerLoad, UpdateLoad, SendOTPLoad,
    VerifyOTPLoad, CompleteLoad, Load, effects
<1>3. CASE \/ AcceptCount(q) \/ AcceptMark(q) \/ AcceptCompete(q) \/ UpdateCount(q)
           \/ SendOTPMail(q) \/ Abandon(q) \/ DeadlockAbort(q)
  BY <1>3 DEF AcceptCount, AcceptMark, AcceptCompete, UpdateCount, SendOTPMail,
    Abandon, DeadlockAbort, Rollback, effects
<1>4. CASE Writes(q)
  BY <1>4 DEF Writes, CreateInsert, TransitionStep, RejectStore, CancelStore,
    CancelByPartnerStore, CompleteStore, Transition, AcceptCommit, UpdateStore,
    SendOTPStore, VerifyOTPStore, effects
<1>. QED
  BY <1>1, <1>2, <1>3, <1>4, StepKinds DEF Reads

\* A step of a request keeps the invariant: a commit adds a notice nobody has
\* heard of, Notify turns the owed one into a sent one, all else adds nothing.
LEMMA NoticeStep ==
  ASSUME IInv, AuditTrail, NoticesOK, NEW q \in Requests, Step(q)
  PROVE  NoticesOK'
<1>0. notices \in [Bookings -> [Notices -> Nat]]
  BY DEF IInv, TypeOK
<1>1. \A r \in Requests, b \in Bookings, n \in Notices :
        r # q => (Owed(r, b, n)' <=> Owed(r, b, n))
  BY OthersKept DEF Owed
<1>2. SUFFICES ASSUME NEW b \in Bookings
               PROVE  /\ \A n \in Notices :
                           SentOnce(b, n)' /\ (Known(b, n)' => Happened(b, n)')
                      /\ OneEnding(b)'
  BY DEF NoticesOK
<1>3. /\ \A n \in Notices : SentOnce(b, n) /\ (Known(b, n) => Happened(b, n))
      /\ OneEnding(b)
  BY DEF NoticesOK
<1>4. \A n \in Notices : Happened(b, n) => Happened(b, n)'
  BY HappenedKept
<1>5. CASE \E n \in Notices : pc'[q] = "notify" /\ Owed(q, b, n)'
  <2>1. PICK k \in Notices : pc'[q] = "notify" /\ Owed(q, b, k)'
    BY <1>5
  <2>2. /\ ~Happened(b, k) /\ Happened(b, k)'
        /\ k \in Endings => \A m \in Endings : ~Happened(b, m)
        /\ notices' = notices
    BY <2>1, NewNotice DEF Owed
  <2>3. ~Known(b, k) /\ (k \in Endings => \A m \in Endings : ~Known(b, m))
    BY <1>3, <2>2 DEF Endings
  <2>4. \A n \in Notices : n # k => ~Owed(q, b, n)'
    BY <2>1 DEF Owed
  <2>5. \A n \in Notices : n # k /\ Known(b, n)' => Known(b, n)
    BY <1>1, <2>2, <2>4 DEF Known
  <2>6. ASSUME NEW n \in Notices PROVE SentOnce(b, n)'
    <3>1. CASE n = k
      <4>1. notices[b][k] = 0 /\ \A r \in Requests : ~Owed(r, b, k)
        BY <1>0, <2>3 DEF Known
      <4>2. \A r \in Requests : Owed(r, b, k)' => r = q
        BY <1>1, <4>1
      <4>. QED
        BY <2>2, <3>1, <4>1, <4>2 DEF SentOnce
    <3>2. CASE n # k
      <4>1. \A r \in Requests : Owed(r, b, n)' => Owed(r, b, n)
        BY <1>1, <2>4, <3>2
      <4>. QED
        BY <1>3, <2>2, <4>1 DEF SentOnce
    <3>. QED
      BY <3>1, <3>2
  <2>7. \A n \in Notices : Known(b, n)' => Happened(b, n)'
    BY <1>3, <1>4, <2>2, <2>5
  <2>8. OneEnding(b)'
    <3>. SUFFICES ASSUME NEW m \in Endings, NEW n \in Endings,
                         Known(b, m)', Known(b, n)'
                  PROVE  m = n
      BY DEF OneEnding
    <3>1. m \in Notices /\ n \in Notices
      BY DEF Endings
    <3>2. CASE m = k \/ n = k
      BY <2>3, <2>5, <3>1, <3>2
    <3>3. CASE m # k /\ n # k
      BY <1>3, <2>5, <3>1, <3>3 DEF OneEnding
    <3>. QED
      BY <3>2, <3>3
  <2>. QED
    BY <2>6, <2>7, <2>8
<1>6. CASE ~\E n \in Notices : pc'[q] = "notify" /\ Owed(q, b, n)'
  <2>1. \A r \in Requests, n \in Notices : Owed(r, b, n)' => r # q /\ Owed(r, b, n)
    BY <1>1, <1>6 DEF Owed
  <2>2. ASSUME NEW n \in Notices
        PROVE  \/ notices'[b][n] = notices[b][n]
               \/ notices'[b][n] = notices[b][n] + 1 /\ Owed(q, b, n)
    BY NoticesWritten DEF Owed
  <2>3. ASSUME NEW n \in Notices
        PROVE  SentOnce(b, n)' /\ (Known(b, n)' => Known(b, n))
    <3>1. CASE notices'[b][n] = notices[b][n]
      BY <1>3, <2>1, <3>1 DEF SentOnce, Known
    <3>2. CASE notices'[b][n] = notices[b][n] + 1 /\ Owed(q, b, n)
      <4>1. notices[b][n] = 0 /\ \A r \in Requests : Owed(r, b, n) => r = q
        BY <1>3, <3>2 DEF SentOnce
      <4>2. \A r \in Requests : ~Owed(r, b, n)'
        BY <2>1, <4>1
      <4>. QED
        BY <3>2, <4>1, <4>2 DEF SentOnce, Known
    <3>. QED
      BY <2>2, <3>1, <3>2
  <2>4. OneEnding(b)'
    BY <1>3, <2>3 DEF OneEnding, Endings
  <2>. QED
    BY <1>3, <1>4, <2>3, <2>4
<1>. QED
  BY <1>5, <1>6

\* The invariant says what the property says.
LEMMA NoticesTell ==
  ASSUME TypeOK, NoticesOK
  PROVE  NoticesMatchHistory
<1>. SUFFICES ASSUME NEW b \in Bookings
              PROVE  LET told == {n \in Notices : notices[b][n] > 0}
                         endings == told \ {"requested", "accepted"} IN
                     /\ \A n \in Notices : notices[b][n] <= 1
                     /\ Cardinality(endings) <= 1
                     /\ \A n \in endings :
                          status[b] = IF n = "cancelledByPartner" THEN "cancelled" ELSE n
                     /\ "accepted" \in told =>
                          \E i \in DOMAIN log[b] : log[b][i] = "accepted"
  BY DEF NoticesMatchHistory
<1> DEFINE told == {n \in Notices : notices[b][n] > 0}
           endings == told \ {"requested", "accepted"}
<1>1. \A n \in told : n \in Notices /\ Known(b, n) /\ Happened(b, n)
  BY DEF NoticesOK, Known
<1>2. \A n \in Notices : notices[b][n] <= 1
  BY DEF NoticesOK, SentOnce
<1>3. \A n \in endings : n \in Endings
  BY DEF Endings
<1>4. \A m, n \in endings : m = n
  BY <1>1, <1>3 DEF NoticesOK, OneEnding
<1>5. Cardinality(endings) <= 1
  <2> HIDE DEF endings
  <2>1. CASE endings = {}
    BY <2>1, FS_EmptySet
  <2>2. CASE endings # {}
    <3>1. PICK n \in endings : endings = {n}
      BY <1>4, <2>2
    <3>2. Cardinality({n}) = 1
      BY FS_Singleton
    <3>. QED
      BY <3>1, <3>2
  <2>. QED
    BY <2>1, <2>2
<1>6. \A n \in endings : status[b] = EndingOf(n)
  BY <1>1, <1>3 DEF Happened
<1>7. "accepted" \in told => \E i \in DOMAIN log[b] : log[b][i] = "accepted"
  BY <1>1 DEF Happened
<1>. QED
  BY <1>2, <1>5, <1>6, <1>7 DEF EndingOf

\* Customers and partners hear of a step in a booking's life at most once and
\* only if it happened, and never of two endings.
THEOREM NoticeSafety == Spec => []NoticesMatchHistory
<1>1. Init => NoticesOK
  <2>. SUFFICES ASSUME Init, NEW b \in Bookings
                PROVE  /\ \A n \in Notices : SentOnce(b, n) /\ ~Known(b, n)
                       /\ OneEnding(b)
    BY DEF NoticesOK
  <2>1. \A n \in Notices : notices[b][n] = 0 /\ \A r \in Requests : ~Owed(r, b, n)
    BY DEF Init, Owed
  <2>. QED
    BY <2>1 DEF SentOnce, Known, OneEnding, Endings
<1>2. IInv /\ AuditTrail /\ NoticesOK /\ [Next]_vars => NoticesOK'
  <2>. SUFFICES ASSUME IInv, AuditTrail, NoticesOK, [Next]_vars PROVE NoticesOK'
    OBVIOUS
  <2>1. CASE Tick \/ UNCHANGED vars
    BY <2>1 DEF Tick, vars, rows, effects, NoticesOK, SentOnce, OneEnding, Known,
      Owed, Happened
  <2>2. CASE \E q \in Requests : Step(q)
    BY <2>2, NoticeStep
  <2>. QED
    BY <2>1, <2>2 DEF Next, Step
<1>3. IInv /\ NoticesOK => NoticesMatchHistory
  BY NoticesTell DEF IInv
<1>. QED
  BY Invariance, AuditSafety, <1>1, <1>2, <1>3, PTL DEF Spec

-----------------------------------------------------------------------------
\* Bookings turned down without a log row.

Won(b) == \E i \in DOMAIN log[b] : log[b][i] = "accepted"

\* A booking that was ever accepted has its slot for good: only pending ones move.
LEMMA WinnerKept ==
  ASSUME IInv, AuditTrail, NEW q \in Requests, Step(q), NEW c \in Bookings, Won(c)
  PROVE  Won(c)' /\ partnerOf'[c] = partnerOf[c] /\ slotOf'[c] = slotOf[c]
<1>1. Won(c)'
  BY HappenedKept DEF Won, Happened, Notices, Endings
<1>2. /\ log[c] \in Seq(Statuses) /\ RowTypes
      /\ HeldOK(q) /\ CallOK(q)
  BY TypeParts DEF IInv, EffectTypes
<1>3. status[c] \notin {"absent", "pending"}
  <2>1. status[c] # "absent"
    BY DEF AuditTrail, Won
  <2>2. ASSUME status[c] = "pending" PROVE FALSE
    <3>1. log[c] = <<"pending">>
      BY <1>2, <2>1, <2>2, HistoryBegins DEF AuditTrail
    <3>. QED
      BY <3>1 DEF Won
  <2>. QED
    BY <2>1, <2>2
<1>4. CASE Reads(q)
  BY <1>1, <1>4, ReadsKeepRows
<1>5. CASE CreateInsert(q)
  BY <1>1, <1>2, <1>3, <1>5 DEF CreateInsert, CallOK, RowTypes
<1>6. CASE UpdateStore(q)
  BY <1>1, <1>2, <1>3, <1>6 DEF UpdateStore, HeldOK, InTx, RowTypes
<1>7. CASE TransitionStep(q) \/ AcceptCommit(q) \/ SendOTPStore(q) \/ VerifyOTPStore(q)
  BY <1>1, <1>7 DEF TransitionStep, RejectStore, CancelStore, CancelByPartnerStore,
    CompleteStore, Transition, AcceptCommit, SendOTPStore, VerifyOTPStore
<1>. QED
  BY <1>4, <1>5, <1>6, <1>7, StepKinds DEF Writes

\* A step that turns a booking down without a log row is the commit of an accept.
LEMMA LoserStep ==
  ASSUME IInv, AuditTrail, LostToAnother, NEW q \in Requests, Step(q)
  PROVE  LostToAnother'
<1>1. SUFFICES ASSUME NEW b \in Bookings, status'[b] = "rejected", log'[b] = <<"pending">>
               PROVE  \E c \in Bookings \ {b} : SameSlot(b, c)' /\ Won(c)'
  BY DEF LostToAnother, Won
<1>2. /\ log[b] \in Seq(Statuses) /\ RowTypes /\ EffectTypes
      /\ HeldOK(q) /\ CallOK(q) /\ LosersOK(q)
  BY TypeParts DEF IInv, EffectTypes
<1>3. CASE status[b] = "rejected"
  <2>1. History(log[b])
    BY <1>3 DEF AuditTrail
  <2>2. log[b] = <<"pending">>
    <3>1. log[b] # <<>> /\ Len(log[b]) \in Nat \ {0}
      BY <1>2, <2>1 DEF History
    <3>2. ASSUME NEW to \in Statuses, log'[b] = Append(log[b], to) PROVE FALSE
      <4>1. Append(log[b], to) = <<"pending">>
        BY <1>1, <3>2
      <4>2. Len(Append(log[b], to)) = Len(log[b]) + 1 /\ Len(<<"pending">>) = 1
        BY <1>2
      <4>3. Len(log[b]) + 1 = 1
        BY <4>1, <4>2
      <4>. QED
        BY <3>1, <4>3
    <3>. QED
      BY <1>1, <3>2, LogAppends
  <2>3. PICK c \in Bookings \ {b} : SameSlot(b, c) /\ Won(c)
    BY <1>3, <2>2 DEF LostToAnother, Won
  <2>4. partnerOf'[b] = partnerOf[b] /\ slotOf'[b] = slotOf[b]
    <3>1. CASE Reads(q)
      BY <3>1, ReadsKeepRows
    <3>2. CASE CreateInsert(q)
      BY <1>2, <1>3, <3>2 DEF CreateInsert, CallOK, RowTypes
    <3>3. CASE UpdateStore(q)
      BY <1>2, <1>3, <3>3 DEF UpdateStore, HeldOK, InTx, RowTypes
    <3>4. CASE TransitionStep(q) \/ AcceptCommit(q) \/ SendOTPStore(q) \/ VerifyOTPStore(q)
      BY <3>4 DEF TransitionStep, RejectStore, CancelStore, CancelByPartnerStore,
        CompleteStore, Transition, AcceptCommit, SendOTPStore, VerifyOTPStore
    <3>. QED
      BY <3>1, <3>2, <3>3, <3>4, StepKinds DEF Writes
  <2>. QED
    BY <2>3, <2>4, WinnerKept DEF SameSlot
<1>4. CASE status[b] # "rejected" /\ AcceptCommit(q)
  <2>0. PICK c \in Bookings : c = call[q].b
    BY <1>4, CallTypes DEF AcceptCommit
  <2>1. b \in losers[q] /\ b # c
    BY <1>1, <1>2, <1>4, <2>0 DEF AcceptCommit, RowTypes
  <2>2. SameSlot(b, c)'
    BY <1>2, <1>4, <2>0, <2>1 DEF AcceptCommit, LosersOK, SameSlot
  <2>3. Won(c)'
    <3>1. log[c] \in Seq(Statuses) /\ log'[c] = Append(log[c], "accepted")
      BY <1>2, <1>4, <2>0 DEF AcceptCommit, EffectTypes
    <3>2. /\ Len(log[c]) + 1 \in DOMAIN Append(log[c], "accepted")
          /\ Append(log[c], "accepted")[Len(log[c]) + 1] = "accepted"
      BY <3>1
    <3>. QED
      BY <3>1, <3>2 DEF Won
  <2>. QED
    BY <2>1, <2>2, <2>3
<1>5. CASE status[b] # "rejected" /\ TransitionStep(q)
  <2>1. PICK to \in {"rejected", "cancelled", "completed"} :
          /\ status' = [status EXCEPT ![call[q].b] = to]
          /\ log' = [log EXCEPT ![call[q].b] = Append(@, to)]
    BY <1>5 DEF TransitionStep, RejectStore, CancelStore, CancelByPartnerStore,
      CompleteStore, Transition
  <2>2. log'[b] = Append(log[b], "rejected")
    BY <1>1, <1>2, <1>5, <2>1 DEF RowTypes, EffectTypes
  <2>3. Append(log[b], "rejected")[Len(log[b]) + 1] = "rejected"
        /\ Len(Append(log[b], "rejected")) = Len(log[b]) + 1
    BY <1>2
  <2>4. Len(log'[b]) = 1 /\ log'[b][1] = "pending"
    BY <1>1
  <2>. QED
    BY <1>2, <2>2, <2>3, <2>4
<1>6. CASE status[b] # "rejected"
           /\ (Reads(q) \/ UpdateStore(q) \/ SendOTPStore(q) \/ VerifyOTPStore(q))
  BY <1>1, <1>6, ReadsKeepRows DEF UpdateStore, SendOTPStore, VerifyOTPStore
<1>7. CASE status[b] # "rejected" /\ CreateInsert(q)
  BY <1>1, <1>2, <1>7 DEF CreateInsert, RowTypes
<1>. QED
  BY <1>3, <1>4, <1>5, <1>6, <1>7, StepKinds DEF Writes

\* A booking rejected without a log row always lost its slot to one that was accepted.
THEOREM LoserSafety == Spec => []LostToAnother
<1>1. Init => LostToAnother
  BY DEF Init, LostToAnother
<1>2. IInv /\ AuditTrail /\ LostToAnother /\ [Next]_vars => LostToAnother'
  <2>. SUFFICES ASSUME IInv, AuditTrail, LostToAnother, [Next]_vars PROVE LostToAnother'
    OBVIOUS
  <2>1. CASE Tick \/ UNCHANGED vars
    BY <2>1 DEF Tick, vars, rows, effects, LostToAnother, SameSlot
  <2>2. CASE \E q \in Requests : Step(q)
    BY <2>2, LoserStep
  <2>. QED
    BY <2>1, <2>2 DEF Next, Step
<1>. QED
  BY Invariance, AuditSafety, <1>1, <1>2, PTL DEF Spec

-----------------------------------------------------------------------------
\* Nobody waits for ever: locks and waits.

\* The calls under way.
Busy == {r \in Requests : pc[r] # "idle"}

\* A row is locked by an open transaction, which is that of a call on it or of an
\* accept that has visited it.
LockOK(b) ==
  lock[b] # None =>
    /\ InTx(lock[b])
    /\ \/ b = call[lock[b]].b
       \/ pc[lock[b]] = "compete" /\ b \notin cand[lock[b]]

\* The statement at hand is one of the operation.
OpOK(r) ==
  /\ pc[r] = "load" => call[r].op # "create"
  /\ pc[r] = "store" => call[r].op # "accept"

WaitsOK ==
  /\ \A b \in Bookings : LockOK(b)
  /\ \A r \in Requests : OpOK(r)
  /\ IsFiniteSet(Busy)

\* A request takes a lock at its first statement, on its own booking, and one at a
\* time while it turns down competitors; COMMIT and ROLLBACK free them all.
LEMMA LockMoves ==
  ASSUME IInv, NEW q \in Requests, Step(q)
  PROVE  \/ Release(q)
         \/ ~InTx(q) /\ lock' = lock
         \/ /\ ~InTx(q) /\ call'[q] = call[q] /\ pc'[q] \in {"count", "store"}
            /\ lock' = [lock EXCEPT ![call[q].b] = q]
         \/ /\ pc[q] \in {"count", "mark"} /\ call'[q] = call[q]
            /\ pc'[q] \in {"mark", "compete", "store"} /\ lock' = lock
         \/ /\ pc[q] = "compete" /\ pc'[q] = "compete" /\ call'[q] = call[q]
            /\ \E c \in cand[q] : /\ cand'[q] = cand[q] \ {c}
                                  /\ lock' = [lock EXCEPT ![c] = q]
<1>0. ControlTypes
  BY TypeParts DEF IInv
<1>1. CASE \/ BeginCreate(q) \/ Begin(q) \/ CreateCheck(q)
           \/ SendOTPMail(q) \/ Notify(q)
  BY <1>1 DEF BeginCreate, Begin, CreateCheck, SendOTPMail, Notify, InTx
<1>2. CASE LoadStep(q)
  BY <1>0, <1>2 DEF LoadStep, AcceptLoad, RejectLoad, CancelLoad,
    CancelByPartnerLoad, UpdateLoad, SendOTPLoad, VerifyOTPLoad, CompleteLoad, Load,
    Goto, InTx, ControlTypes
<1>3. CASE AcceptCompete(q)
  BY <1>0, <1>3 DEF AcceptCompete, ControlTypes
<1>4. CASE AcceptCount(q) \/ AcceptMark(q) \/ UpdateCount(q)
  BY <1>0, <1>4 DEF AcceptCount, AcceptMark, UpdateCount, Rollback, Goto, ControlTypes
<1>5. CASE Writes(q) \/ Abandon(q) \/ DeadlockAbort(q)
  BY <1>5 DEF Writes, CreateInsert, TransitionStep, RejectStore, CancelStore,
    CancelByPartnerStore, CompleteStore, Transition, AcceptCommit, UpdateStore,
    SendOTPStore, VerifyOTPStore, Commit, Abandon, DeadlockAbort, Rollback
<1>. QED
  BY <1>1, <1>2, <1>3, <1>4, <1>5, StepKinds DEF Reads

\* Locks stay with open transactions.
LEMMA LockStep ==
  ASSUME IInv, IInv', \A b \in Bookings : LockOK(b), NEW q \in Requests, Step(q)
  PROVE  \A b \in Bookings : LockOK(b)'
<1>. SUFFICES ASSUME NEW b \in Bookings, lock'[b] # None PROVE LockOK(b)'
  BY DEF LockOK
<1>0. ControlTypes /\ LockOK(b) /\ q # None
  BY TypeParts, NoneAssumption DEF IInv
<1>1. CASE lock'[b] = q
  <2>1. CASE Release(q)
    BY <1>0, <1>1, <2>1 DEF Release, ControlTypes
  <2>2. CASE ~InTx(q) /\ lock' = lock
    BY <1>0, <1>1, <2>2 DEF LockOK
  <2>3. CASE /\ ~InTx(q) /\ call'[q] = call[q] /\ pc'[q] \in {"count", "store"}
             /\ lock' = [lock EXCEPT ![call[q].b] = q]
    <3>1. b = call[q].b
      BY <1>0, <1>1, <2>3 DEF LockOK, ControlTypes
    <3>. QED
      BY <1>1, <2>3, <3>1 DEF LockOK, InTx
  <2>4. CASE /\ pc[q] \in {"count", "mark"} /\ call'[q] = call[q]
             /\ pc'[q] \in {"mark", "compete", "store"} /\ lock' = lock
    BY <1>0, <1>1, <2>4 DEF LockOK, InTx
  <2>5. CASE /\ pc[q] = "compete" /\ pc'[q] = "compete" /\ call'[q] = call[q]
             /\ \E c \in cand[q] : /\ cand'[q] = cand[q] \ {c}
                                   /\ lock' = [lock EXCEPT ![c] = q]
    BY <1>0, <1>1, <2>5 DEF LockOK, InTx, ControlTypes
  <2>. QED
    BY <2>1, <2>2, <2>3, <2>4, <2>5, LockMoves
<1>2. CASE lock'[b] # q
  <2>1. lock'[b] = lock[b]
    BY <1>0, <1>2, LockMoves DEF Release, ControlTypes
  <2>2. lock[b] \in Requests
    BY <1>0, <2>1 DEF ControlTypes
  <2>. QED
    BY <1>0, <1>2, <2>1, <2>2, OthersKept DEF LockOK, InTx
<1>. QED
  BY <1>1, <1>2

\* A call keeps to the statements of its operation.
LEMMA OpStep ==
  ASSUME IInv, \A r \in Requests : OpOK(r), NEW q \in Requests, Step(q)
  PROVE  \A r \in Requests : OpOK(r)'
<1>. SUFFICES ASSUME NEW r \in Requests PROVE OpOK(r)'
  OBVIOUS
<1>1. CASE r # q
  BY <1>1, OthersKept DEF OpOK
<1>2. CASE r = q
  <2>0. ControlTypes
    BY TypeParts DEF IInv
  <2>1. CASE Begin(q)
    BY <1>2, <2>0, <2>1 DEF Begin, NewCall, Goto, OpOK, ControlTypes
  <2>2. CASE BeginCreate(q) \/ CreateCheck(q) \/ SendOTPMail(q) \/ Notify(q)
    BY <1>2, <2>0, <2>2 DEF BeginCreate, CreateCheck, SendOTPMail, Notify, Finish, Goto,
      OpOK, ControlTypes
  <2>3. CASE LoadStep(q)
    BY <1>2, <2>0, <2>3 DEF LoadStep, AcceptLoad, RejectLoad, CancelLoad,
      CancelByPartnerLoad, UpdateLoad, SendOTPLoad, VerifyOTPLoad, CompleteLoad, Load,
      Finish, Goto, OpOK, ControlTypes
  <2>4. CASE AcceptCount(q) \/ AcceptMark(q) \/ UpdateCount(q)
    BY <1>2, <2>0, <2>4 DEF AcceptCount, AcceptMark, UpdateCount, Rollback, Finish, Goto,
      OpOK, ControlTypes
  <2>5. CASE AcceptCompete(q)
    BY <1>2, <2>5 DEF AcceptCompete, OpOK
  <2>6. CASE Writes(q) \/ Abandon(q) \/ DeadlockAbort(q)
    BY <1>2, <2>0, <2>6 DEF Writes, CreateInsert, TransitionStep, RejectStore,
      CancelStore, CancelByPartnerStore, CompleteStore, Transition, AcceptCommit,
      UpdateStore, SendOTPStore, VerifyOTPStore, Commit, Abandon, DeadlockAbort, Rollback,
      Finish, Goto, OpOK, ControlTypes
  <2>. QED
    BY <2>1, <2>2, <2>3, <2>4, <2>5, <2>6, StepKinds DEF Reads
<1>. QED
  BY <1>1, <1>2

\* Finitely many calls are under way, each step begins at most one.
LEMMA BusyStep ==
  ASSUME IInv, IsFiniteSet(Busy), NEW q \in Requests, Step(q)
  PROVE  IsFiniteSet(Busy)'
<1>1. Busy' \subseteq Busy \cup {q}
  BY OthersKept DEF Busy
<1>2. IsFiniteSet(Busy \cup {q})
  BY FS_AddElement
<1>3. IsFiniteSet(Busy')
  BY <1>1, <1>2, FS_Subset
<1>. QED
  BY <1>3

\* A call that is not ready waits for another one under way.
LEMMA NotReadyWaits ==
  ASSUME IInv, WaitsOK, NEW r \in Requests, pc[r] # "idle", ~Ready(r)
  PROVE  \E q \in Requests : pc[q] # "idle" /\ WaitsFor(r, q)
<1>0. ControlTypes /\ CallOK(r) /\ OpOK(r) /\ HeldOK(r) /\ LosersOK(r)
  BY TypeParts DEF IInv, WaitsOK
<1>1. \A b \in Bookings : lock[b] # None => lock[b] \in Requests /\ pc[lock[b]] # "idle"
  BY <1>0 DEF WaitsOK, LockOK, InTx, ControlTypes
<1>2. pc[r] \in {"load", "mark", "compete"}
  BY <1>0 DEF Ready, ControlTypes, PCs, CallOK, OpOK
<1>3. CASE pc[r] = "load"
  <2>1. Owns(r) /\ lock[call[r].b] # None /\ call[r].b \in Bookings
    BY <1>0, <1>3, CallTypes DEF Ready, OpOK
  <2>. QED
    BY <1>1, <1>3, <2>1 DEF WaitsFor
<1>4. CASE pc[r] = "mark"
  BY <1>4 DEF Ready, WaitsFor, Claimants
<1>5. CASE pc[r] = "compete"
  <2>1. PICK c \in cand[r] : lock[c] # None
    BY <1>5 DEF Ready
  <2>2. c \in Bookings /\ LockOK(c)
    BY <1>0, <2>1 DEF ControlTypes, WaitsOK
  <2>3. lock[c] # r
    BY <1>0, <1>5, <2>1, <2>2 DEF LockOK, LosersOK
  <2>. QED
    BY <1>1, <1>5, <2>1, <2>2, <2>3 DEF WaitsFor
<1>. QED
  BY <1>2, <1>3, <1>4, <1>5

\* Of calls that all wait for each other some are on a cycle.
LEMMA ClosedHasVictim ==
  ASSUME NEW B \in SUBSET Requests, IsFiniteSet(B), Closed(B)
  PROVE  \E r \in B : Victim(r)
<1>. DEFINE T == {C \in SUBSET B : Closed(C)}
            R == StrictSubsetOrdering(B)
            F == FiniteSubsetsOf(B)
<1>1. IsWellFoundedOn(R, F)
  BY FS_StrictSubsetOrderingWellFounded
<1>2. T \subseteq F /\ T # {}
  BY FS_FiniteSubsetsOfFinite
<1>3. \A C, D \in SUBSET B : C \subseteq D /\ C # D => <<C, D>> \in R
  BY DEF StrictSubsetOrdering
<1>4. PICK C \in T : \A D \in T : <<D, C>> \notin R
  <2>. HIDE DEF T, R, F
  <2>. QED
    BY <1>1, <1>2, WFMin
<1>5. Closed(C) /\ C \in SUBSET Requests /\ C \subseteq B
  OBVIOUS
<1>6. \A D \in SUBSET C : Closed(D) => D = C
  <2>. HIDE DEF R
  <2>. QED
    BY <1>3, <1>4
<1>7. PICK r \in C : TRUE
  BY <1>5 DEF Closed
<1>. QED
  BY <1>5, <1>6, <1>7 DEF Victim

\* Among a call and those it waits for one can go on or is aborted.
LEMMA WaitsEnd ==
  ASSUME IInv, WaitsOK
  PROVE  NeverStuck
<1>. SUFFICES ASSUME NEW C \in SUBSET Requests, \E r \in C : pc[r] # "idle",
                     \A r \in C, q \in Requests : WaitsFor(r, q) => q \in C,
                     \A r \in C : pc[r] # "idle" => ~Ready(r)
              PROVE  \E r \in C : pc[r] # "idle" /\ Victim(r)
  BY DEF NeverStuck
<1>. DEFINE B == C \cap Busy
<1>1. IsFiniteSet(B) /\ B \in SUBSET Requests
  BY FS_Subset DEF WaitsOK, Busy
<1>2. Closed(B)
  <2>1. B # {}
    BY DEF Busy
  <2>2. ASSUME NEW q \in B PROVE \E p \in B : WaitsFor(q, p)
    BY <2>2, NotReadyWaits DEF Busy
  <2>. QED
    BY <2>1, <2>2 DEF Closed
<1>3. PICK r \in B : Victim(r)
  <2>. HIDE DEF B
  <2>. QED
    BY <1>1, <1>2, ClosedHasVictim
<1>. QED
  BY <1>3 DEF Busy

\* Locks belong to open transactions, and finitely many are open.
LEMMA WaitInvariance == Spec => []WaitsOK
<1>1. Init => WaitsOK
  <2>. SUFFICES ASSUME Init PROVE WaitsOK
    OBVIOUS
  <2>1. Busy = {}
    BY DEF Init, Busy
  <2>2. IsFiniteSet(Busy)
    BY <2>1, FS_EmptySet
  <2>. QED
    BY <2>2 DEF Init, WaitsOK, LockOK, OpOK
<1>2. IInv /\ IInv' /\ WaitsOK /\ [Next]_vars => WaitsOK'
  <2>. SUFFICES ASSUME IInv, IInv', WaitsOK, [Next]_vars PROVE WaitsOK'
    OBVIOUS
  <2>1. CASE Tick \/ UNCHANGED vars
    BY <2>1 DEF Tick, vars, rows, effects, WaitsOK, LockOK, OpOK, InTx, Busy
  <2>2. CASE \E q \in Requests : Step(q)
    BY <2>2, LockStep, OpStep, BusyStep DEF WaitsOK
  <2>. QED
    BY <2>1, <2>2 DEF Next, Step
<1>. QED
  BY Invariance, <1>1, <1>2, PTL DEF Spec

\* Whatever calls hold locks, wait for each other, fail or are aborted, and however
\* many there are: a call under way can go on, or waits for calls of which one can go
\* on or is aborted by the deadlock detector.
THEOREM WaitSafety == Spec => []NeverStuck
<1>1. IInv /\ WaitsOK => NeverStuck
  BY WaitsEnd
<1>. QED
  BY Invariance, WaitInvariance, <1>1, PTL

-----------------------------------------------------------------------------
\* No call goes on for ever.

\* The bookings stored.
Stored == {b \in Bookings : status[b] # "absent"}

VisitsOK == IsFiniteSet(Stored) /\ \A r \in Requests : IsFiniteSet(cand[r])

\* The statements that may follow each other in a call.
Follows ==
  {<<"check", "insert">>, <<"insert", "notify">>, <<"load", "count">>,
   <<"load", "store">>, <<"count", "mark">>, <<"count", "store">>,
   <<"mark", "compete">>, <<"compete", "notify">>, <<"store", "notify">>,
   <<"store", "mail">>}

\* The call ends, is at a later statement, or has one row fewer to visit.
Advances(r) ==
  \/ pc'[r] = "idle"
  \/ <<pc[r], pc'[r]>> \in Follows
  \/ /\ pc[r] = "compete" /\ pc'[r] = "compete"
     /\ cand'[r] \subseteq cand[r] /\ cand'[r] # cand[r]

\* No statement is run a second time.
LEMMA ProgressAdvances ==
  ASSUME IInv, WaitsOK, NEW r \in Requests, Progress(r)
  PROVE  Advances(r)
<1>0. ControlTypes /\ CallOK(r) /\ OpOK(r)
  BY TypeParts DEF IInv, WaitsOK
<1>1. CASE LoadStep(r)
  BY <1>0, <1>1 DEF LoadStep, AcceptLoad, RejectLoad, CancelLoad, CancelByPartnerLoad,
    UpdateLoad, SendOTPLoad, VerifyOTPLoad, CompleteLoad, Load, Finish, Goto, Advances,
    Follows, ControlTypes
<1>2. CASE CreateCheck(r) \/ CreateInsert(r)
  BY <1>0, <1>2 DEF CreateCheck, CreateInsert, Commit, Finish, Goto, Advances, Follows,
    ControlTypes
<1>3. CASE AcceptCount(r) \/ AcceptMark(r) \/ UpdateCount(r)
  BY <1>0, <1>3 DEF AcceptCount, AcceptMark, UpdateCount, Rollback, Finish, Goto,
    Advances, Follows, ControlTypes
<1>4. CASE AcceptCompete(r)
  BY <1>0, <1>4 DEF AcceptCompete, Advances, ControlTypes
<1>5. CASE AcceptCommit(r) \/ TransitionStep(r) \/ SendOTPStore(r)
  BY <1>0, <1>5 DEF AcceptCommit, TransitionStep, RejectStore, CancelStore,
    CancelByPartnerStore, CompleteStore, Transition, SendOTPStore, Commit, Goto,
    Advances, Follows, ControlTypes
<1>6. CASE UpdateStore(r) \/ VerifyOTPStore(r) \/ SendOTPMail(r) \/ Notify(r)
  BY <1>0, <1>6 DEF UpdateStore, VerifyOTPStore, SendOTPMail, Notify, Finish, Goto,
    Advances, ControlTypes
<1>. QED
  BY <1>1, <1>2, <1>3, <1>4, <1>5, <1>6 DEF Progress, LoadStep, TransitionStep

\* A competitor UPDATE has finitely many rows to visit.
LEMMA VisitStep ==
  ASSUME IInv, VisitsOK, NEW q \in Requests, Step(q)
  PROVE  VisitsOK'
<1>0. ControlTypes /\ RowTypes
  BY TypeParts DEF IInv
<1>1. IsFiniteSet(Stored')
  <2>1. Stored' \subseteq Stored \cup {call[q].b}
    BY AbsentKept DEF Stored
  <2>2. IsFiniteSet(Stored \cup {call[q].b})
    BY FS_AddElement DEF VisitsOK
  <2>. QED
    BY <2>1, <2>2, FS_Subset
<1>2. ASSUME NEW r \in Requests PROVE IsFiniteSet(cand'[r])
  <2>1. CASE r # q
    BY <2>1, OthersKept DEF VisitsOK
  <2>2. CASE r = q
    <3>1. \/ cand'[q] \subseteq cand[q] \/ cand'[q] \subseteq Stored
      <4>1. CASE AcceptMark(q)
        BY <1>0, <4>1 DEF AcceptMark, Rollback, Finish, ControlTypes, Stored
      <4>2. CASE \/ BeginCreate(q) \/ Begin(q) \/ CreateCheck(q)
                 \/ SendOTPMail(q) \/ Notify(q)
        BY <1>0, <4>2 DEF BeginCreate, Begin, CreateCheck, SendOTPMail, Notify, Finish,
          ControlTypes
      <4>3. CASE LoadStep(q)
        BY <1>0, <4>3 DEF LoadStep, AcceptLoad, RejectLoad, CancelLoad,
          CancelByPartnerLoad, UpdateLoad, SendOTPLoad, VerifyOTPLoad, CompleteLoad,
          Load, Finish, ControlTypes
      <4>4. CASE AcceptCount(q) \/ UpdateCount(q) \/ AcceptCompete(q)
        BY <1>0, <4>4 DEF AcceptCount, UpdateCount, AcceptCompete, Rollback, Finish,
          ControlTypes
      <4>5. CASE Writes(q) \/ Abandon(q) \/ DeadlockAbort(q)
        BY <1>0, <4>5 DEF Writes, CreateInsert, TransitionStep, RejectStore, CancelStore,
          CancelByPartnerStore, CompleteStore, Transition, AcceptCommit, UpdateStore,
          SendOTPStore, VerifyOTPStore, Commit, Abandon, DeadlockAbort, Rollback, Finish,
          ControlTypes
      <4>. QED
        BY <4>1, <4>2, <4>3, <4>4, <4>5, StepKinds DEF Reads
    <3>. QED
      BY <2>2, <3>1, FS_Subset DEF VisitsOK
  <2>. QED
    BY <2>1, <2>2
<1>. QED
  BY <1>1, <1>2 DEF VisitsOK

\* A call runs no statement a second time, and the only loop of one, over the rows of
\* the competitors, has finitely many to visit: no call goes on for ever.
THEOREM CallsAdvance ==
  Spec => [][\A r \in Requests : Progress(r) => Advances(r) /\ IsFiniteSet(cand'[r])]_vars
<1>1. Init => VisitsOK
  <2>. SUFFICES ASSUME Init PROVE VisitsOK
    OBVIOUS
  <2>1. Stored = {}
    BY DEF Init, Stored
  <2>. QED
    BY <2>1, FS_EmptySet DEF Init, VisitsOK
<1>2. IInv /\ VisitsOK /\ [Next]_vars => VisitsOK'
  <2>. SUFFICES ASSUME IInv, VisitsOK, [Next]_vars PROVE VisitsOK'
    OBVIOUS
  <2>1. CASE Tick \/ UNCHANGED vars
    BY <2>1 DEF Tick, vars, rows, VisitsOK, Stored
  <2>2. CASE \E q \in Requests : Step(q)
    BY <2>2, VisitStep
  <2>. QED
    BY <2>1, <2>2 DEF Next, Step
<1>3. IInv /\ WaitsOK /\ VisitsOK'
        => [\A r \in Requests : Progress(r) => Advances(r) /\ IsFiniteSet(cand'[r])]_vars
  BY ProgressAdvances DEF VisitsOK
<1>. QED
  BY Invariance, WaitInvariance, <1>1, <1>2, <1>3, PTL DEF Spec

-----------------------------------------------------------------------------
\* Refinement.

\* A statement of a request is one step of the contract, or none.
LEMMA ContractStep ==
  ASSUME IInv, NEW q \in Requests, Step(q)
  PROVE  Contract!Next \/ UNCHANGED Contract!vars
<1>0. RowTypes /\ HeldOK(q) /\ CallOK(q) /\ LosersOK(q) /\ IndexOK(q)
  BY TypeParts DEF IInv
<1> DEFINE b == call[q].b
           code == [c \in Bookings |-> handoff[c].code]
           verified == [c \in Bookings |-> handoff[c].verifiedAt # 0]
<1>1. CASE Reads(q)
  BY <1>1, ReadsKeepRows DEF Contract!vars
<1>2. CASE CreateInsert(q)
  <2>1. Contract!Request(b, call[q].partner, call[q].slot)
    BY <1>0, <1>2 DEF CreateInsert, CallOK, Contract!Request, Contract!Become
  <2>. QED
    BY <1>2, <2>1, CallTypes DEF CreateInsert, Contract!Next
<1>3. CASE RejectStore(q)
  <2>1. Contract!Reject(b)
    BY <1>0, <1>3 DEF RejectStore, Transition, HeldOK, InTx, Contract!Reject,
      Contract!Become
  <2>. QED
    BY <1>3, <2>1, CallTypes DEF RejectStore, Contract!Next
<1>4. CASE CancelStore(q) \/ CancelByPartnerStore(q)
  <2>1. Contract!Cancel(b)
    BY <1>0, <1>4 DEF CancelStore, CancelByPartnerStore, Transition, HeldOK, InTx,
      Contract!Cancel, Contract!Become
  <2>. QED
    BY <1>4, <2>1, CallTypes DEF CancelStore, CancelByPartnerStore, Contract!Next
<1>5. CASE CompleteStore(q)
  <2>1. b \in Bookings
    BY <1>5, CallTypes DEF CompleteStore
  <2>2. Contract!Complete(b)
    BY <1>0, <1>5, <2>1 DEF CompleteStore, Transition, HeldOK, InTx,
      Contract!Complete, Contract!Become
  <2>. QED
    BY <2>1, <2>2 DEF Contract!Next
<1>6. CASE AcceptCommit(q)
  <2>1. b \in Bookings /\ losers[q] \in SUBSET Bookings
    BY <1>6, CallTypes, TypeParts DEF AcceptCommit, IInv, ControlTypes
  <2>2. /\ status[b] = "pending"
        /\ \A c \in Bookings : status[c] = "accepted" => ~Contract!SameSlot(b, c)
        /\ \A c \in losers[q] :
             c # b /\ status[c] = "pending" /\ Contract!SameSlot(b, c)
    BY <1>0, <1>6 DEF AcceptCommit, CallOK, HeldOK, InTx, LosersOK,
      IndexOK, Taken, SameSlot, Contract!SameSlot
  <2>3. Contract!Accept(b, losers[q])
    BY <1>6, <2>2 DEF AcceptCommit, Contract!Accept
  <2>. QED
    BY <2>1, <2>3 DEF Contract!Next
<1>7. CASE UpdateStore(q)
  <2>1. Contract!Move(b, call[q].slot)
    BY <1>0, <1>7 DEF UpdateStore, HeldOK, InTx, Contract!Move
  <2>. QED
    BY <1>7, <2>1, CallTypes DEF UpdateStore, Contract!Next
<1>8. CASE SendOTPStore(q)
  <2>1. b \in Bookings /\ call[q].code \in Codes /\ status[b] = "accepted"
    BY <1>0, <1>8, CallTypes DEF SendOTPStore, HeldOK, InTx
  <2>2. UNCHANGED <<status, partnerOf, slotOf>>
    BY <1>8 DEF SendOTPStore
  <2>3. /\ code' = [code EXCEPT ![b] = call[q].code]
        /\ verified' = [verified EXCEPT ![b] = FALSE]
    BY <1>0, <1>8, <2>1 DEF SendOTPStore, NoHandoff, RowTypes
  <2>4. PICK x \in Bookings, k \in Codes : x = b /\ k = call[q].code
    BY <2>1
  <2>5. Contract!IssueCode(x, k)
    BY <2>1, <2>2, <2>3, <2>4 DEF Contract!IssueCode
  <2>. QED
    BY <2>5 DEF Contract!Next
<1>9. CASE VerifyOTPStore(q)
  <2>1. b \in Bookings /\ status[b] = "accepted"
    BY <1>0, <1>9, CallTypes DEF VerifyOTPStore, HeldOK, InTx
  <2>2. UNCHANGED <<status, partnerOf, slotOf>>
    BY <1>9 DEF VerifyOTPStore
  <2>3. CASE handoff' = handoff
    BY <2>2, <2>3 DEF Contract!vars
  <2>4. CASE handoff' # handoff
    <3>1. /\ handoff' = [handoff EXCEPT ![b] =
               [@ EXCEPT !.verifiedAt = call[q].at, !.verifiedCode = call[q].code]]
          /\ handoff[b].code # None
          /\ handoff[b].verifiedAt = 0
      BY <1>9, <2>4 DEF VerifyOTPStore
    <3>2. handoff[b] \in Handoffs
      BY <1>0, <2>1 DEF RowTypes
    <3>3. handoff'[b].code = handoff[b].code /\ handoff'[b].verifiedAt = call[q].at
      BY <1>0, <2>1, <3>1, <3>2 DEF RowTypes, Handoffs
    <3>4. \A c \in Bookings : c # b => handoff'[c] = handoff[c]
      BY <1>0, <3>1 DEF RowTypes
    <3>5. code' = code
      BY <3>3, <3>4
    <3>6. CASE call[q].at = 0
      <4>1. verified' = verified
        BY <3>1, <3>3, <3>4, <3>6
      <4>. QED
        BY <2>2, <3>5, <4>1 DEF Contract!vars
    <3>7. CASE call[q].at # 0
      <4>1. verified' = [verified EXCEPT ![b] = TRUE]
        BY <3>3, <3>4, <3>7
      <4>2. PICK x \in Bookings : x = b
        BY <2>1
      <4>3. Contract!Verify(x)
        BY <2>1, <2>2, <3>1, <3>5, <4>1, <4>2 DEF Contract!Verify
      <4>. QED
        BY <4>3 DEF Contract!Next
    <3>. QED
      BY <3>6, <3>7
  <2>. QED
    BY <2>3, <2>4
<1>. QED
  BY <1>1, <1>2, <1>3, <1>4, <1>5, <1>6, <1>7, <1>8, <1>9, StepKinds
  DEF Writes, TransitionStep

\* The booking component, with all its transactions and races, keeps the
\* promises BookingContract makes to customers and partners.
THEOREM ContractKept == Spec => ContractSpec
<1>1. Init => Contract!Init
  <2>. SUFFICES ASSUME Init PROVE Contract!Init
    OBVIOUS
  <2>1. \A b \in Bookings : handoff[b].code = None /\ handoff[b].verifiedAt = 0
    BY DEF Init, NoHandoff
  <2>. QED
    BY <2>1 DEF Init, Contract!Init
<1>2. IInv /\ [Next]_vars => [Contract!Next]_(Contract!vars)
  <2>. SUFFICES ASSUME IInv, [Next]_vars
                PROVE  Contract!Next \/ UNCHANGED Contract!vars
    OBVIOUS
  <2>1. CASE Tick \/ UNCHANGED vars
    BY <2>1 DEF Tick, vars, rows, Contract!vars
  <2>2. CASE \E q \in Requests : Step(q)
    BY <2>2, ContractStep
  <2>. QED
    BY <2>1, <2>2 DEF Next, Step
<1>. QED
  BY Invariance, <1>1, <1>2, PTL DEF Spec, ContractSpec, Contract!Spec

-----------------------------------------------------------------------------
\* What the reminders take for granted.

\* A step of the contract is a step in the life of each booking, or none in it: an
\* accept that turns others down is one step in the life of each.
LEMMA LifeStep ==
  ASSUME RowTypes, Contract!Next, NEW b \in Bookings
  PROVE  Life(b)!Next \/ UNCHANGED Life(b)!vars
<1>0. /\ status \in [Bookings -> Statuses]
      /\ slotOf \in [Bookings -> Slots \cup {None}]
  BY DEF RowTypes
<1>. USE <1>0 DEF Life!vars
<1>1. ASSUME NEW c \in Bookings, NEW p \in Partners, NEW s \in Slots,
             Contract!Request(c, p, s)
      PROVE  Life(b)!Request \/ UNCHANGED Life(b)!vars
  <2>1. CASE c = b
    BY <1>1, <2>1 DEF Contract!Request, Contract!Become, Life!Request
  <2>2. CASE c # b
    BY <1>1, <2>2 DEF Contract!Request, Contract!Become
  <2>. QED
    BY <2>1, <2>2
<1>2. ASSUME NEW c \in Bookings, NEW s \in Slots, Contract!Move(c, s)
      PROVE  Life(b)!Move \/ UNCHANGED Life(b)!vars
  <2>1. CASE c = b
    BY <1>2, <2>1 DEF Contract!Move, Life!Move
  <2>2. CASE c # b
    BY <1>2, <2>2 DEF Contract!Move
  <2>. QED
    BY <2>1, <2>2
<1>3. ASSUME NEW c \in Bookings, NEW turned \in SUBSET Bookings,
             Contract!Accept(c, turned)
      PROVE  Life(b)!Accept \/ Life(b)!End \/ UNCHANGED Life(b)!vars
  <2>1. CASE c = b
    BY <1>3, <2>1 DEF Contract!Accept, Life!Accept
  <2>2. CASE c # b /\ b \in turned
    BY <1>3, <2>2 DEF Contract!Accept, Life!End
  <2>3. CASE c # b /\ b \notin turned
    BY <1>3, <2>3 DEF Contract!Accept
  <2>. QED
    BY <2>1, <2>2, <2>3
<1>4. ASSUME NEW c \in Bookings,
             Contract!Reject(c) \/ Contract!Cancel(c) \/ Contract!Complete(c)
      PROVE  Life(b)!End \/ UNCHANGED Life(b)!vars
  <2>1. /\ status[c] \in {"pending", "accepted"} /\ slotOf' = slotOf
        /\ \E to \in {"rejected", "cancelled", "completed"} :
             status' = [status EXCEPT ![c] = to]
    BY <1>4 DEF Contract!Reject, Contract!Cancel, Contract!Complete, Contract!Become
  <2>2. CASE c = b
    BY <2>1, <2>2 DEF Life!End
  <2>3. CASE c # b
    BY <2>1, <2>3
  <2>. QED
    BY <2>2, <2>3
<1>5. ASSUME NEW c \in Bookings,
             Contract!Verify(c) \/ \E k \in Codes : Contract!IssueCode(c, k)
      PROVE  UNCHANGED Life(b)!vars
  BY <1>5 DEF Contract!Verify, Contract!IssueCode
<1>. QED
  BY <1>1, <1>2, <1>3, <1>4, <1>5 DEF Contract!Next, Life!Next

\* Each booking, whatever races and fails, lives as module Reminder takes its bookings
\* to live: once accepted it is never moved and never pending again.
THEOREM LifeKept == ASSUME NEW b \in Bookings PROVE Spec => Life(b)!Spec
<1>1. Init => Life(b)!Init
  BY DEF Init, Life!Init
<1>2. IInv /\ [Next]_vars => [Life(b)!Next]_(Life(b)!vars)
  <2>. SUFFICES ASSUME IInv, [Next]_vars
                PROVE  Life(b)!Next \/ UNCHANGED Life(b)!vars
    OBVIOUS
  <2>1. RowTypes
    BY TypeParts DEF IInv
  <2>2. CASE Tick \/ UNCHANGED vars
    BY <2>2 DEF Tick, vars, rows, Life!vars
  <2>3. ASSUME NEW q \in Requests, Step(q)
        PROVE  Life(b)!Next \/ UNCHANGED Life(b)!vars
    <3>1. CASE Contract!Next
      BY <2>1, <3>1, LifeStep
    <3>2. CASE UNCHANGED Contract!vars
      BY <3>2 DEF Contract!vars, Life!vars
    <3>. QED
      BY <2>3, <3>1, <3>2, ContractStep
  <2>. QED
    BY <2>2, <2>3 DEF Next, Step
<1>. QED
  BY Invariance, <1>1, <1>2, PTL DEF Spec, Life!Spec

=============================================================================
