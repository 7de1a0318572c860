---------------------------- MODULE ReminderProofs ----------------------------
(***************************************************************************)
(* Theorems about Reminder for every value of its constants.               *)
(***************************************************************************)
EXTENDS Reminder, TLAPS

-----------------------------------------------------------------------------
\* The inductive invariant: a scheduler that is about to send holds the only
\* claim to its booking, of which nothing has been sent.

ClaimOK ==
  /\ \A b \in Bookings : told[b] <= (IF sent[b] = None THEN 0 ELSE 1)
  /\ \A s \in Schedulers :
       /\ pc[s] = "notify" => job[s] # None
       /\ job[s] # None => sent[job[s]] # None /\ told[job[s]] = 0
  /\ \A s, t \in Schedulers : job[s] # None /\ job[s] = job[t] => s = t

\* A clock no window of which begins before the first day.
ClockOK == now >= Interval

IInv == TypeOK /\ ClaimOK /\ ClockOK

\* The windows of a tick at t.
LEMMA TickWindowsType ==
  ASSUME NEW t \in Nat, t >= Interval
  PROVE  TickWindows(t) \in Seq(Windows)
<1>. DEFINE from == t + Lead - Interval
            to == t + Lead + Interval
<1>1. from \in Nat /\ to \in Nat /\ Day \in Nat /\ Day > 0
  BY TimeAssumption
<1>2. \A x \in Nat : x \div Day \in Nat /\ x % Day \in Nat
  BY <1>1
<1>3. \A d, f, u \in Nat : Window(d, f, u) \in Windows
  BY DEF Window, Windows
<1>4. Day - 1 \in Nat
  BY <1>1
<1>5. Window(from \div Day, from % Day, to % Day) \in Windows
  BY <1>1, <1>2, <1>3
<1>6. Window(from \div Day, from % Day, Day - 1) \in Windows
  BY <1>1, <1>2, <1>3, <1>4
<1>7. Window(to \div Day, 0, to % Day) \in Windows
  BY <1>1, <1>2, <1>3
<1>. QED
  BY <1>5, <1>6, <1>7 DEF TickWindows, Split

\* The empty table satisfies the invariant.
LEMMA InitIInv == Init => IInv
<1>. SUFFICES ASSUME Init PROVE IInv
  OBVIOUS
<1>1. TypeOK
  BY TimeAssumption DEF Init, TypeOK
<1>2. ClaimOK
  BY DEF Init, ClaimOK
<1>3. ClockOK
  BY TimeAssumption DEF Init, ClockOK
<1>. QED
  BY <1>1, <1>2, <1>3 DEF IInv

-----------------------------------------------------------------------------
\* Types.

\* Every step keeps the types.
LEMMA NextTypeOK == IInv /\ [Next]_vars => TypeOK'
<1>. SUFFICES ASSUME IInv, [Next]_vars PROVE TypeOK'
  OBVIOUS
<1>. USE DEF TypeOK, rows, ticks
<1>0. TypeOK /\ ClaimOK /\ ClockOK
  BY DEF IInv
<1>1. CASE UNCHANGED vars
  BY <1>0, <1>1 DEF vars
<1>2. CASE Minute
  BY <1>0, <1>2, TimeAssumption DEF Minute
<1>3. ASSUME NEW b \in Bookings, Request(b) \/ Move(b) \/ Accept(b) \/ End(b)
      PROVE  TypeOK'
  <2>1. CASE Request(b)
    <3>1. slot' \in [Bookings -> Nat]
      BY <1>0, <2>1, TimeAssumption DEF Request
    <3>2. /\ status' \in [Bookings -> {"over", "pending", "accepted"}]
          /\ sent' \in [Bookings -> Nat \cup {None}] /\ told' \in [Bookings -> Nat]
      BY <1>0, <2>1 DEF Request
    <3>. QED
      BY <1>0, <2>1, <3>1, <3>2 DEF Request
  <2>2. CASE Accept(b)
    BY <1>0, <2>2 DEF Accept
  <2>3. CASE End(b)
    BY <1>0, <2>3 DEF End
  <2>4. CASE Move(b)
    <3>1. slot' \in [Bookings -> Nat]
      BY <1>0, <2>4, TimeAssumption DEF Move
    <3>. QED
      BY <1>0, <2>4, <3>1 DEF Move
  <2>. QED
    BY <1>3, <2>1, <2>2, <2>3, <2>4
<1>4. ASSUME NEW s \in Schedulers, Fire(s)
      PROVE  TypeOK'
  <2>1. TickWindows(now) \in Seq(Windows)
    BY <1>0, TickWindowsType DEF ClockOK
  <2>. HIDE DEF TypeOK
  <2>2. windows' \in [Schedulers -> Seq(Windows)]
    BY <1>0, <1>4, <2>1 DEF Fire, TypeOK
  <2>. QED
    BY <1>0, <1>4, <2>2 DEF Fire, Goto, TypeOK
<1>5. ASSUME NEW s \in Schedulers, List(s) \/ ListError(s)
      PROVE  TypeOK'
  <2>1. windows[s] \in Seq(Windows) /\ windows[s] # <<>>
    BY <1>0, <1>5 DEF List, ListError
  <2>2. Tail(windows[s]) \in Seq(Windows)
    BY <2>1
  <2>3. windows' = [windows EXCEPT ![s] = Tail(windows[s])]
    BY <1>0, <1>5 DEF List, ListError
  <2>4. windows' \in [Schedulers -> Seq(Windows)]
    BY <1>0, <2>2, <2>3
  <2>5. todo' \in [Schedulers -> SUBSET Bookings]
    <3>. DEFINE found == DueIn(Head(windows[s]))
    <3>1. found \subseteq Bookings
      BY DEF DueIn
    <3>2. todo' = todo \/ todo' = [todo EXCEPT ![s] = found]
      BY <1>5 DEF List, ListError
    <3>. HIDE DEF found
    <3>. QED
      BY <1>0, <3>1, <3>2
  <2>6. errors' \in 0..MaxErrors
    BY <1>0, <1>5, TimeAssumption DEF List, ListError
  <2>7. /\ pc' \in [Schedulers -> {"down", "idle", "list", "claim", "notify"}]
        /\ UNCHANGED <<rows, sent, told, job, ticks, now>>
    BY <1>0, <1>5 DEF List, ListError, Goto
  <2>. QED
    BY <1>0, <2>4, <2>5, <2>6, <2>7
<1>6. ASSUME NEW s \in Schedulers, Claim(s) \/ ClaimError(s)
      PROVE  TypeOK'
  <2>1. PICK b \in todo[s] :
          /\ todo' = [todo EXCEPT ![s] = @ \ {b}]
          /\ sent' = sent \/ sent' = [sent EXCEPT ![b] = now]
          /\ job' = job \/ job' = [job EXCEPT ![s] = b]
          /\ pc' = pc \/ pc' = [pc EXCEPT ![s] = "notify"]
    BY <1>6 DEF Claim, ClaimError, Goto
  <2>2. errors' \in 0..MaxErrors
    BY <1>0, <1>6, TimeAssumption DEF Claim, ClaimError
  <2>3. todo' \in [Schedulers -> SUBSET Bookings]
    BY <1>0, <2>1
  <2>4. /\ sent' \in [Bookings -> Nat \cup {None}]
        /\ job' \in [Schedulers -> Bookings \cup {None}]
        /\ pc' \in [Schedulers -> {"down", "idle", "list", "claim", "notify"}]
    <3>1. b \in Bookings
      BY <1>0
    <3>2. sent' \in [Bookings -> Nat \cup {None}]
      <4>. DEFINE Times == Nat \cup {None}
      <4>1. now \in Times /\ sent \in [Bookings -> Times]
        BY <1>0
      <4>. HIDE DEF Times
      <4>2. sent' \in [Bookings -> Times]
        BY <2>1, <3>1, <4>1
      <4>. QED
        BY <4>2 DEF Times
    <3>3. job' \in [Schedulers -> Bookings \cup {None}]
      <4>. DEFINE Jobs == Bookings \cup {None}
      <4>1. b \in Jobs /\ job \in [Schedulers -> Jobs]
        BY <1>0, <3>1
      <4>. HIDE DEF Jobs
      <4>2. job' \in [Schedulers -> Jobs]
        BY <2>1, <4>1
      <4>. QED
        BY <4>2 DEF Jobs
    <3>4. pc' \in [Schedulers -> {"down", "idle", "list", "claim", "notify"}]
      BY <1>0, <2>1
    <3>. QED
      BY <3>2, <3>3, <3>4
  <2>5. UNCHANGED <<rows, told, windows, ticks, now>>
    BY <1>6 DEF Claim, ClaimError
  <2>. QED
    BY <1>0, <2>2, <2>3, <2>4, <2>5
<1>7. ASSUME NEW s \in Schedulers, TickDone(s) \/ ClaimsDone(s) \/ Notify(s)
      PROVE  TypeOK'
  <2>1. CASE TickDone(s) \/ ClaimsDone(s)
    BY <1>0, <2>1 DEF TickDone, ClaimsDone, Goto
  <2>2. CASE Notify(s)
    <3>1. /\ pc' \in [Schedulers -> {"down", "idle", "list", "claim", "notify"}]
          /\ told' \in [Bookings -> Nat] /\ job' \in [Schedulers -> Bookings \cup {None}]
      <4>1. /\ pc[s] = "notify" /\ told' = [told EXCEPT ![job[s]] = @ + 1]
            /\ job' = [job EXCEPT ![s] = None] /\ pc' = [pc EXCEPT ![s] = "claim"]
        BY <2>2 DEF Notify, Goto
      <4>2. job[s] \in Bookings
        BY <1>0, <4>1 DEF ClaimOK
      <4>. QED
        BY <1>0, <4>1, <4>2
    <3>. QED
      BY <1>0, <2>2, <3>1 DEF Notify
  <2>. QED
    BY <1>7, <2>1, <2>2
<1>8. ASSUME NEW s \in Schedulers, Stop(s) \/ Start(s)
      PROVE  TypeOK'
  <2>1. CASE Stop(s)
    <3>1. windows' = [windows EXCEPT ![s] = <<>>] /\ <<>> \in Seq(Windows)
      BY <2>1 DEF Stop
    <3>2. windows' \in [Schedulers -> Seq(Windows)]
      BY <1>0, <3>1
    <3>3. /\ pc' \in [Schedulers -> {"down", "idle", "list", "claim", "notify"}]
          /\ todo' \in [Schedulers -> SUBSET Bookings]
          /\ job' \in [Schedulers -> Bookings \cup {None}]
          /\ due' \in [Schedulers -> BOOLEAN]
      BY <1>0, <2>1 DEF Stop, Goto
    <3>. QED
      BY <1>0, <2>1, <3>2, <3>3 DEF Stop
  <2>2. CASE Start(s)
    BY <1>0, <2>2, TimeAssumption DEF Start, Goto
  <2>. QED
    BY <1>8, <2>1, <2>2
<1>. QED
  BY <1>1, <1>2, <1>3, <1>4, <1>5, <1>6, <1>7, <1>8 DEF Next

-----------------------------------------------------------------------------
\* Claims.

\* Every step keeps claims exclusive: a booking is claimed only while nobody
\* holds it and nothing of it was sent.
LEMMA NextClaimOK == IInv /\ [Next]_vars => ClaimOK'
<1>. SUFFICES ASSUME IInv, [Next]_vars PROVE ClaimOK'
  OBVIOUS
<1>0. TypeOK /\ ClaimOK
  BY DEF IInv
<1>1. CASE UNCHANGED <<sent, told, pc, job>>
  BY <1>0, <1>1 DEF ClaimOK
<1>2. ASSUME NEW b \in Bookings, Request(b)
      PROVE  ClaimOK'
  <2>1. /\ \A s \in Schedulers : job[s] # b
        /\ sent' = [sent EXCEPT ![b] = None] /\ told' = [told EXCEPT ![b] = 0]
        /\ UNCHANGED <<pc, job>>
    BY <1>2 DEF Request
  <2>. QED
    BY <1>0, <2>1 DEF ClaimOK, TypeOK
<1>3. ASSUME NEW s \in Schedulers, UNCHANGED <<sent, told, job>>, pc'[s] # "notify",
             \A t \in Schedulers : t # s => pc'[t] = pc[t]
      PROVE  ClaimOK'
  BY <1>0, <1>3 DEF ClaimOK
<1>4. ASSUME NEW s \in Schedulers, Claim(s)
      PROVE  ClaimOK'
  <2>1. CASE UNCHANGED <<sent, job, pc>>
    BY <1>1, <1>4, <2>1 DEF Claim
  <2>2. CASE ~UNCHANGED <<sent, job, pc>>
    <3>1. PICK b \in todo[s] :
            /\ sent[b] = None /\ sent' = [sent EXCEPT ![b] = now]
            /\ job' = [job EXCEPT ![s] = b] /\ told' = told
            /\ pc' = [pc EXCEPT ![s] = "notify"]
      BY <1>4, <2>2 DEF Claim, Goto
    <3>2. b \in Bookings /\ b # None /\ now # None
      BY <1>0, NoneAssumption DEF TypeOK
    <3>3. told[b] = 0 /\ \A t \in Schedulers : job[t] # b
      BY <1>0, <3>1, <3>2 DEF ClaimOK, TypeOK
    <3>4. \A c \in Bookings : told'[c] <= (IF sent'[c] = None THEN 0 ELSE 1)
      BY <1>0, <3>1, <3>2, <3>3 DEF ClaimOK, TypeOK
    <3>5. \A t \in Schedulers :
            /\ pc'[t] = "notify" => job'[t] # None
            /\ job'[t] # None => sent'[job'[t]] # None /\ told'[job'[t]] = 0
      BY <1>0, <3>1, <3>2, <3>3 DEF ClaimOK, TypeOK
    <3>6. \A t, u \in Schedulers : job'[t] # None /\ job'[t] = job'[u] => t = u
      BY <1>0, <3>1, <3>3 DEF ClaimOK, TypeOK
    <3>. QED
      BY <3>4, <3>5, <3>6 DEF ClaimOK
  <2>. QED
    BY <2>1, <2>2
<1>5. ASSUME NEW s \in Schedulers, Notify(s)
      PROVE  ClaimOK'
  <2>1. /\ pc[s] = "notify" /\ told' = [told EXCEPT ![job[s]] = @ + 1]
        /\ job' = [job EXCEPT ![s] = None] /\ sent' = sent
        /\ pc' = [pc EXCEPT ![s] = "claim"]
    BY <1>5 DEF Notify, Goto
  <2>2. job[s] \in Bookings /\ sent[job[s]] # None /\ told[job[s]] = 0
    BY <1>0, <2>1 DEF ClaimOK, TypeOK
  <2>3. \A t \in Schedulers : job'[t] # None => t # s /\ job'[t] = job[t] /\ job[t] # job[s]
    BY <1>0, <2>1 DEF ClaimOK, TypeOK
  <2>4. \A c \in Bookings : told'[c] <= (IF sent'[c] = None THEN 0 ELSE 1)
    BY <1>0, <2>1, <2>2 DEF ClaimOK, TypeOK
  <2>5. \A t \in Schedulers :
          /\ pc'[t] = "notify" => job'[t] # None
          /\ job'[t] # None => sent'[job'[t]] # None /\ told'[job'[t]] = 0
    BY <1>0, <2>1, <2>2, <2>3 DEF ClaimOK, TypeOK
  <2>6. \A t, u \in Schedulers : job'[t] # None /\ job'[t] = job'[u] => t = u
    BY <1>0, <2>3 DEF ClaimOK
  <2>. QED
    BY <2>4, <2>5, <2>6 DEF ClaimOK
<1>6. ASSUME NEW s \in Schedulers, Stop(s)
      PROVE  ClaimOK'
  <2>1. /\ pc' = [pc EXCEPT ![s] = "down"] /\ job' = [job EXCEPT ![s] = None]
        /\ UNCHANGED <<sent, told>>
    BY <1>6 DEF Stop, Goto
  <2>. QED
    BY <1>0, <2>1 DEF ClaimOK, TypeOK
<1>7. ASSUME NEW s \in Schedulers,
             Fire(s) \/ List(s) \/ TickDone(s) \/ ClaimsDone(s) \/ Start(s)
      PROVE  ClaimOK'
  BY <1>0, <1>3, <1>7 DEF Fire, List, TickDone, ClaimsDone, Start, Goto, TypeOK
<1>8. CASE /\ ~\E b \in Bookings : Request(b)
           /\ ~\E s \in Schedulers :
                \/ Fire(s) \/ List(s) \/ TickDone(s) \/ Claim(s) \/ ClaimsDone(s)
                \/ Notify(s) \/ Stop(s) \/ Start(s)
  BY <1>1, <1>8 DEF Next, vars, Minute, Move, Accept, End, ListError, ClaimError
<1>. QED
  BY <1>2, <1>4, <1>5, <1>6, <1>7, <1>8

\* The invariant is inductive.
LEMMA NextIInv == IInv /\ [Next]_vars => IInv'
<1>. SUFFICES ASSUME IInv, [Next]_vars PROVE IInv'
  OBVIOUS
<1>1. now' = now \/ now' = now + 1
  BY DEF Next, vars, ticks, Minute, Request, Move, Accept, End, Fire, List, ListError,
    TickDone, Claim, ClaimError, ClaimsDone, Notify, Stop, Start
<1>2. ClockOK'
  BY <1>1, TimeAssumption DEF IInv, TypeOK, ClockOK
<1>. QED
  BY <1>2, NextTypeOK, NextClaimOK DEF IInv

-----------------------------------------------------------------------------
\* Every column and local variable keeps its type.
THEOREM TypeCorrectness == Spec => []TypeOK
<1>1. IInv => TypeOK
  BY DEF IInv
<1>. QED
  BY <1>1, InitIInv, NextIInv, PTL DEF Spec

\* However many schedulers run, stop and start, a booking is reminded of at
\* most once.
THEOREM ReminderSafety == Spec => []RemindedOnce
<1>1. IInv => RemindedOnce
  BY DEF IInv, ClaimOK, RemindedOnce
<1>. QED
  BY <1>1, InitIInv, NextIInv, PTL DEF Spec

-----------------------------------------------------------------------------
\* Windows: a date and two times of that day stand for an interval of time.

\* The window w has the time t.
Covers(w, t) ==
  w.date = t \div Day /\ w.from <= t % Day /\ t % Day <= w.to

\* A time is its date and its time of day.
LEMMA DivMod ==
  ASSUME NEW x \in Nat
  PROVE  /\ x \div Day \in Nat /\ x % Day \in 0..(Day - 1)
         /\ x = Day * (x \div Day) + (x % Day)
BY TimeAssumption

\* An earlier date is a day earlier at least.
LEMMA DatesApart ==
  ASSUME NEW d \in Nat, NEW e \in Nat, d < e
  PROVE  Day * d + Day <= Day * e
<1>1. e - d - 1 \in Nat /\ Day \in Nat
  BY TimeAssumption
<1>2. Day * (e - d - 1) >= 0
  BY <1>1
<1>3. Day * e = Day * d + Day + Day * (e - d - 1)
  BY <1>1
<1>. QED
  BY <1>1, <1>2, <1>3

\* Times compare by date, then by time of day.
LEMMA DateOrder ==
  ASSUME NEW x \in Nat, NEW y \in Nat
  PROVE  /\ x \div Day < y \div Day => x < y
         /\ x \div Day = y \div Day => (x <= y <=> x % Day <= y % Day)
         /\ y <= x + Day => y \div Day <= (x \div Day) + 1
<1>. DEFINE d == x \div Day
            e == y \div Day
            m == x % Day
            n == y % Day
<1>1. /\ d \in Nat /\ e \in Nat /\ m \in 0..(Day - 1) /\ n \in 0..(Day - 1)
      /\ x = Day * d + m /\ y = Day * e + n
  BY DivMod
<1>2. Day \in Nat
  BY TimeAssumption
<1>. HIDE DEF d, e, m, n
<1>3. ASSUME d < e PROVE x < y
  <2>1. Day * d + Day <= Day * e
    BY <1>1, <1>3, DatesApart
  <2>. QED
    BY <1>1, <1>2, <2>1
<1>4. ASSUME d = e PROVE x <= y <=> m <= n
  BY <1>1, <1>2, <1>4
<1>5. ASSUME y <= x + Day, d + 1 < e PROVE FALSE
  <2>1. Day * d + Day <= Day * (d + 1) /\ Day * (d + 1) + Day <= Day * e
    BY <1>1, <1>5, DatesApart
  <2>. QED
    BY <1>1, <1>2, <1>5, <2>1
<1>6. y <= x + Day => e <= d + 1
  BY <1>1, <1>5
<1>. QED
  BY <1>3, <1>4, <1>6 DEF d, e, m, n

\* The windows of splitByDate have no time outside the interval they split and,
\* if that is no longer than a day, every time in it.
LEMMA SplitCovers ==
  ASSUME NEW from \in Nat, NEW to \in Nat, from <= to, NEW t \in Nat
  PROVE  /\ \A i \in DOMAIN Split(from, to) :
              Covers(Split(from, to)[i], t) => from <= t /\ t <= to
         /\ from <= t /\ t <= to /\ to - from <= Day
              => \E i \in DOMAIN Split(from, to) : Covers(Split(from, to)[i], t)
<1>. DEFINE fd == from \div Day  fm == from % Day
            td == to \div Day    tm == to % Day
            d == t \div Day      m == t % Day
<1>1. /\ fd \in Nat /\ td \in Nat /\ d \in Nat /\ Day \in Nat
      /\ fm \in 0..(Day - 1) /\ tm \in 0..(Day - 1) /\ m \in 0..(Day - 1)
  BY DivMod, TimeAssumption
<1>2. /\ fd < d => from < t
      /\ fd = d => (from <= t <=> fm <= m)
  BY DateOrder
<1>3. d < fd => t < from
  BY DateOrder
<1>4. /\ d < td => t < to
      /\ d = td => (t <= to <=> m <= tm)
  BY DateOrder
<1>5. td < d => to < t
  BY DateOrder
<1>6. td < fd => to < from
  BY DateOrder
<1>7. to <= from + Day => td <= fd + 1
  BY DateOrder
<1>8. fd <= td
  BY <1>1, <1>6
<1>9. \A w : Covers(w, t) <=> w.date = d /\ w.from <= m /\ m <= w.to
  BY DEF Covers
<1>10. Split(from, to) = IF fd = td THEN <<Window(fd, fm, tm)>>
                         ELSE <<Window(fd, fm, Day - 1), Window(td, 0, tm)>>
  BY DEF Split
<1>. HIDE DEF fd, fm, td, tm, d, m
<1>11. CASE fd = td
  <2>. DEFINE w == Window(fd, fm, tm)
  <2>1. DOMAIN Split(from, to) = {1} /\ Split(from, to)[1] = w
    BY <1>10, <1>11
  <2>2. Covers(w, t) <=> fd = d /\ fm <= m /\ m <= tm
    BY <1>9 DEF Window
  <2>3. Covers(w, t) <=> from <= t /\ t <= to
    BY <1>1, <1>2, <1>3, <1>4, <1>5, <1>11, <2>2
  <2>. HIDE DEF w
  <2>. QED
    BY <2>1, <2>3
<1>12. CASE fd # td
  <2>. DEFINE v == Window(fd, fm, Day - 1)
              w == Window(td, 0, tm)
  <2>1. /\ DOMAIN Split(from, to) = {1, 2}
        /\ Split(from, to)[1] = v /\ Split(from, to)[2] = w
    BY <1>10, <1>12
  <2>2. /\ Covers(v, t) <=> fd = d /\ fm <= m
        /\ Covers(w, t) <=> td = d /\ m <= tm
    BY <1>1, <1>9 DEF Window
  <2>3. Covers(v, t) \/ Covers(w, t) => from <= t /\ t <= to
    BY <1>1, <1>2, <1>4, <1>8, <1>12, <2>2
  <2>4. from <= t /\ t <= to /\ to - from <= Day => Covers(v, t) \/ Covers(w, t)
    <3>. SUFFICES ASSUME from <= t, t <= to, to <= from + Day
                  PROVE  Covers(v, t) \/ Covers(w, t)
      BY TimeAssumption
    <3>1. fd <= d /\ d <= td /\ td <= fd + 1
      BY <1>1, <1>3, <1>5, <1>7
    <3>2. d = fd \/ d = td
      BY <1>1, <3>1
    <3>. QED
      BY <1>2, <1>4, <2>2, <3>2
  <2>. HIDE DEF v, w
  <2>. QED
    BY <2>1, <2>3, <2>4
<1>. QED
  BY <1>11, <1>12

\* A tick at time t looks for the pickups from t + Lead - Interval to
\* t + Lead + Interval. One midnight is all that splitByDate knows of.
LEMMA TickCovers ==
  ASSUME NEW t \in Nat, t >= Interval, NEW x \in Nat
  PROVE  /\ \A i \in DOMAIN TickWindows(t) :
              Covers(TickWindows(t)[i], x) => x - Lead - Interval <= t
         /\ 2 * Interval <= Day /\ x - Lead - Interval <= t /\ t <= x - Lead + Interval
              => \E i \in DOMAIN TickWindows(t) : Covers(TickWindows(t)[i], x)
<1>. DEFINE from == t + Lead - Interval
            to == t + Lead + Interval
<1>1. /\ from \in Nat /\ to \in Nat /\ from <= to /\ to - from = 2 * Interval
      /\ Lead \in Nat /\ Interval \in Nat /\ Day \in Nat
  BY TimeAssumption
<1>2. TickWindows(t) = Split(from, to)
  BY DEF TickWindows
<1>3. /\ from <= x <=> t <= x - Lead + Interval
      /\ x <= to <=> x - Lead - Interval <= t
  BY <1>1
<1>. HIDE DEF from, to
<1>. QED
  BY <1>1, <1>2, <1>3, SplitCovers

\* What is left of the windows after a query.
LEMMA TailWindows ==
  ASSUME NEW w \in Seq(Windows), w # <<>>
  PROVE  /\ \A i \in DOMAIN Tail(w) : \E j \in DOMAIN w : Tail(w)[i] = w[j]
         /\ \A j \in DOMAIN w :
              w[j] = Head(w) \/ \E i \in DOMAIN Tail(w) : w[j] = Tail(w)[i]
<1>1. /\ Len(w) \in Nat \ {0} /\ DOMAIN w = 1..Len(w)
      /\ DOMAIN Tail(w) = 1..(Len(w) - 1) /\ Head(w) = w[1]
  OBVIOUS
<1>2. ASSUME NEW i \in 1..(Len(w) - 1)
      PROVE  i + 1 \in 1..Len(w) /\ Tail(w)[i] = w[i + 1]
  BY <1>1, <1>2
<1>3. ASSUME NEW j \in 1..Len(w), j # 1
      PROVE  j - 1 \in 1..(Len(w) - 1) /\ Tail(w)[j - 1] = w[j]
  BY <1>1, <1>3
<1>. QED
  BY <1>1, <1>2, <1>3

-----------------------------------------------------------------------------
\* Accepted bookings.

\* A booking that a scheduler has in hand, or has had, has been accepted, whatever
\* has become of it since: it can no longer be moved.
AcceptedOK ==
  /\ \A b \in Bookings :
       /\ status[b] = "pending" => since[b] = None
       /\ status[b] = "accepted" => since[b] # None
       /\ sent[b] # None => since[b] # None
  /\ \A s \in Schedulers : \A b \in todo[s] : since[b] # None

\* Every step keeps it so: the number of a booking in hand is not given away.
LEMMA NextAcceptedOK == IInv /\ AcceptedOK /\ [Next]_vars => AcceptedOK'
<1>. SUFFICES ASSUME IInv, AcceptedOK, [Next]_vars PROVE AcceptedOK'
  OBVIOUS
<1>0. TypeOK
  BY DEF IInv
<1>1. CASE UNCHANGED <<status, since, sent, todo>>
  BY <1>1 DEF AcceptedOK
<1>2. ASSUME NEW b \in Bookings, Request(b)
      PROVE  AcceptedOK'
  <2>1. /\ \A s \in Schedulers : b \notin todo[s]
        /\ todo' = todo /\ status'[b] = "pending" /\ since'[b] = None /\ sent'[b] = None
        /\ \A c \in Bookings : c # b => /\ status'[c] = status[c]
                                       /\ since'[c] = since[c] /\ sent'[c] = sent[c]
    BY <1>0, <1>2 DEF Request, TypeOK
  <2>. QED
    BY <1>0, <2>1 DEF AcceptedOK, TypeOK
<1>3. ASSUME NEW b \in Bookings, Accept(b) \/ End(b)
      PROVE  AcceptedOK'
  <2>1. /\ todo' = todo /\ sent' = sent /\ now # None
        /\ \/ since' = since /\ status'[b] = "over"
           \/ since' = [since EXCEPT ![b] = now] /\ status'[b] = "accepted"
        /\ \A c \in Bookings : c # b => status'[c] = status[c]
    BY <1>0, <1>3, NoneAssumption DEF Accept, End, TypeOK
  <2>. QED
    BY <1>0, <2>1 DEF AcceptedOK, TypeOK
<1>4. ASSUME NEW s \in Schedulers, List(s)
      PROVE  AcceptedOK'
  <2>1. /\ todo' = [todo EXCEPT ![s] = DueIn(Head(windows[s]))]
        /\ UNCHANGED <<status, since, sent>>
    BY <1>4 DEF List, rows
  <2>2. \A b \in DueIn(Head(windows[s])) : since[b] # None
    BY DEF DueIn, AcceptedOK
  <2>. QED
    BY <1>0, <2>1, <2>2 DEF AcceptedOK, TypeOK
<1>5. ASSUME NEW s \in Schedulers, Claim(s) \/ ClaimError(s) \/ Stop(s)
      PROVE  AcceptedOK'
  <2>1. /\ UNCHANGED <<status, since>>
        /\ \A q \in Schedulers : todo'[q] \subseteq todo[q]
        /\ \/ sent' = sent
           \/ \E b \in todo[s] : sent' = [sent EXCEPT ![b] = now]
    BY <1>0, <1>5 DEF Claim, ClaimError, Stop, rows, TypeOK
  <2>. QED
    BY <1>0, <2>1 DEF AcceptedOK, TypeOK
<1>6. CASE \/ UNCHANGED vars \/ Minute \/ \E b \in Bookings : Move(b)
           \/ \E s \in Schedulers :
                \/ Fire(s) \/ ListError(s) \/ TickDone(s) \/ ClaimsDone(s)
                \/ Notify(s) \/ Start(s)
  BY <1>1, <1>6 DEF vars, Minute, Move, Fire, ListError, TickDone, ClaimsDone, Notify,
    Start, rows
<1>. QED
  BY <1>2, <1>3, <1>4, <1>5, <1>6 DEF Next

-----------------------------------------------------------------------------
\* Never early: what a scheduler has yet to query or to claim is due already, since
\* it was when its tick began and does not get less due.

FoundOK(s) ==
  /\ \A i \in DOMAIN windows[s], t \in Nat :
       Covers(windows[s][i], t) => t - Lead - Interval <= now
  /\ \A b \in todo[s] : slot[b] - Lead - Interval <= now

EarlyOK == NeverEarly /\ \A s \in Schedulers : FoundOK(s)

\* What the claim and the query of a scheduler leave of the others.
LEMMA OthersFound ==
  ASSUME NEW s \in Schedulers, FoundOK(s),
         windows'[s] = windows[s], todo'[s] \subseteq todo[s], slot' = slot,
         now \in Nat, now' \in Nat, now' >= now, TypeOK
  PROVE  FoundOK(s)'
<1>1. Lead \in Nat /\ Interval \in Nat /\ \A b \in todo[s] : slot[b] \in Nat
  BY TimeAssumption DEF TypeOK
<1>. QED
  BY <1>1 DEF FoundOK

\* Every step keeps it so.
LEMMA NextEarlyOK == IInv /\ AcceptedOK /\ EarlyOK /\ [Next]_vars => EarlyOK'
<1>. SUFFICES ASSUME IInv, AcceptedOK, EarlyOK, [Next]_vars PROVE EarlyOK'
  OBVIOUS
<1>0. TypeOK /\ ClockOK /\ TypeOK'
  BY NextTypeOK DEF IInv
<1>1. Lead \in Nat /\ Interval \in Nat /\ now \in Nat /\ now' \in Nat
  BY <1>0, TimeAssumption DEF TypeOK
<1>2. ASSUME NEW s \in Schedulers, slot' = slot, sent' = sent, now' >= now,
             FoundOK(s)',
             \A q \in Schedulers \ {s} :
               windows'[q] = windows[q] /\ todo'[q] \subseteq todo[q]
      PROVE  EarlyOK'
  BY <1>0, <1>1, <1>2, OthersFound DEF EarlyOK, NeverEarly
<1>3. CASE UNCHANGED <<windows, todo, slot, sent>> /\ now' >= now
  BY <1>0, <1>1, <1>3, OthersFound DEF EarlyOK, NeverEarly
<1>4. ASSUME NEW b \in Bookings, Request(b)
      PROVE  EarlyOK'
  <2>1. /\ \A s \in Schedulers : b \notin todo[s]
        /\ UNCHANGED <<windows, todo, now>> /\ sent' = [sent EXCEPT ![b] = None]
        /\ \A c \in Bookings : c # b => slot'[c] = slot[c]
    BY <1>0, <1>4 DEF Request, TypeOK
  <2>2. NeverEarly'
    BY <1>0, <2>1 DEF EarlyOK, NeverEarly, TypeOK
  <2>3. ASSUME NEW s \in Schedulers PROVE FoundOK(s)'
    <3>1. FoundOK(s) /\ \A c \in todo[s] : c \in Bookings /\ c # b
      BY <1>0, <2>1 DEF EarlyOK, TypeOK
    <3>. QED
      BY <2>1, <3>1 DEF FoundOK
  <2>. QED
    BY <2>2, <2>3 DEF EarlyOK
<1>5. ASSUME NEW s \in Schedulers, Fire(s)
      PROVE  EarlyOK'
  <2>1. /\ windows' = [windows EXCEPT ![s] = TickWindows(now)]
        /\ UNCHANGED <<slot, sent, todo, now>>
    BY <1>5 DEF Fire, rows
  <2>2. windows'[s] = TickWindows(now)
    BY <1>0, <2>1 DEF TypeOK
  <2>3. FoundOK(s)'
    BY <1>0, <1>1, <2>1, <2>2, TickCovers DEF ClockOK, FoundOK, EarlyOK
  <2>. QED
    BY <1>0, <1>1, <1>2, <2>1, <2>3 DEF TypeOK
<1>6. ASSUME NEW s \in Schedulers, List(s) \/ ListError(s)
      PROVE  EarlyOK'
  <2>1. /\ windows[s] # <<>> /\ windows' = [windows EXCEPT ![s] = Tail(@)]
        /\ todo' = todo \/ todo' = [todo EXCEPT ![s] = DueIn(Head(windows[s]))]
        /\ UNCHANGED <<slot, sent, now>>
    BY <1>6 DEF List, ListError, rows
  <2>2. windows'[s] = Tail(windows[s]) /\ windows[s] \in Seq(Windows)
    BY <1>0, <2>1 DEF TypeOK
  <2>3. \A i \in DOMAIN windows'[s], t \in Nat :
          Covers(windows'[s][i], t) => t - Lead - Interval <= now
    <3>. SUFFICES ASSUME NEW i \in DOMAIN Tail(windows[s]), NEW t \in Nat,
                         Covers(Tail(windows[s])[i], t)
                  PROVE  t - Lead - Interval <= now
      BY <2>2
    <3>1. PICK k \in DOMAIN windows[s] : Tail(windows[s])[i] = windows[s][k]
      BY <2>1, <2>2, TailWindows
    <3>. QED
      BY <3>1 DEF EarlyOK, FoundOK
  <2>4. \A b \in todo'[s] : slot[b] - Lead - Interval <= now
    <3>1. CASE todo' = todo
      BY <3>1 DEF EarlyOK, FoundOK
    <3>2. CASE todo' = [todo EXCEPT ![s] = DueIn(Head(windows[s]))]
      <4>. SUFFICES ASSUME NEW b \in DueIn(Head(windows[s]))
                    PROVE  slot[b] - Lead - Interval <= now
        BY <1>0, <3>2 DEF TypeOK
      <4>1. 1 \in DOMAIN windows[s] /\ Head(windows[s]) = windows[s][1]
        BY <2>1, <2>2
      <4>2. slot[b] \in Nat /\ Covers(windows[s][1], slot[b])
        BY <1>0, <4>1 DEF DueIn, Covers, TypeOK
      <4>. QED
        BY <4>1, <4>2 DEF EarlyOK, FoundOK
    <3>. QED
      BY <2>1, <3>1, <3>2
  <2>5. FoundOK(s)'
    BY <2>1, <2>3, <2>4 DEF FoundOK
  <2>. QED
    BY <1>0, <1>1, <1>2, <2>1, <2>5 DEF TypeOK
<1>7. ASSUME NEW s \in Schedulers, Claim(s) \/ ClaimError(s)
      PROVE  EarlyOK'
  <2>1. PICK b \in todo[s] :
          /\ todo' = [todo EXCEPT ![s] = @ \ {b}]
          /\ sent' = sent \/ sent' = [sent EXCEPT ![b] = now]
          /\ UNCHANGED <<windows, slot, now>>
    BY <1>7 DEF Claim, ClaimError, rows
  <2>2. b \in Bookings /\ slot[b] - Lead - Interval <= now
    BY <1>0, <2>1 DEF EarlyOK, FoundOK, TypeOK
  <2>3. NeverEarly'
    BY <1>0, <2>1, <2>2 DEF EarlyOK, NeverEarly, TypeOK
  <2>4. \A q \in Schedulers : windows'[q] = windows[q] /\ todo'[q] \subseteq todo[q]
    BY <1>0, <2>1 DEF TypeOK
  <2>5. \A q \in Schedulers : FoundOK(q)'
    BY <1>0, <1>1, <2>1, <2>4, OthersFound DEF EarlyOK
  <2>. QED
    BY <2>3, <2>5 DEF EarlyOK
<1>8. ASSUME NEW s \in Schedulers, Stop(s)
      PROVE  EarlyOK'
  <2>1. /\ windows' = [windows EXCEPT ![s] = <<>>] /\ todo' = [todo EXCEPT ![s] = {}]
        /\ UNCHANGED <<slot, sent, now>>
    BY <1>8 DEF Stop, rows
  <2>2. windows'[s] = <<>> /\ todo'[s] = {}
    BY <1>0, <2>1 DEF TypeOK
  <2>3. FoundOK(s)'
    BY <2>2 DEF FoundOK
  <2>. QED
    BY <1>0, <1>1, <1>2, <2>1, <2>3 DEF TypeOK
<1>9. ASSUME NEW s \in Schedulers,
             TickDone(s) \/ ClaimsDone(s) \/ Notify(s) \/ Start(s)
      PROVE  EarlyOK'
  BY <1>1, <1>3, <1>9 DEF TickDone, ClaimsDone, Notify, Start, rows
<1>10. CASE UNCHANGED vars \/ Minute \/ \E b \in Bookings : Accept(b) \/ End(b)
  BY <1>1, <1>3, <1>10 DEF vars, Minute, Accept, End, rows
<1>11. ASSUME NEW b \in Bookings, Move(b)
       PROVE  EarlyOK'
  <2>1. /\ \A s \in Schedulers : b \notin todo[s]
        /\ sent[b] = None
    BY <1>11 DEF Move, AcceptedOK
  <2>2. /\ UNCHANGED <<windows, todo, sent, now>>
        /\ \A c \in Bookings : c # b => slot'[c] = slot[c]
    BY <1>0, <1>11 DEF Move, TypeOK
  <2>3. NeverEarly'
    BY <2>1, <2>2 DEF EarlyOK, NeverEarly
  <2>4. ASSUME NEW s \in Schedulers PROVE FoundOK(s)'
    <3>1. FoundOK(s) /\ \A c \in todo[s] : c \in Bookings /\ c # b
      BY <1>0, <2>1 DEF EarlyOK, TypeOK
    <3>. QED
      BY <2>2, <3>1 DEF FoundOK
  <2>. QED
    BY <2>3, <2>4 DEF EarlyOK
<1>. QED
  BY <1>4, <1>5, <1>6, <1>7, <1>8, <1>9, <1>10, <1>11 DEF Next

\* However old a query is, however slow a scheduler and whatever the dates, nobody
\* is reminded before the window opens.
THEOREM EarlySafety == Spec => []NeverEarly
<1>1. Init => EarlyOK
  <2>. SUFFICES ASSUME Init PROVE EarlyOK
    OBVIOUS
  <2>. QED
    BY DEF Init, EarlyOK, NeverEarly, FoundOK
<1>2. EarlyOK => NeverEarly
  BY DEF EarlyOK
<1>3. Init => AcceptedOK
  BY DEF Init, AcceptedOK
<1>. QED
  BY <1>1, <1>2, <1>3, InitIInv, NextIInv, NextAcceptedOK, NextEarlyOK, PTL DEF Spec

-----------------------------------------------------------------------------
\* Never missed.

\* Tickers: when the next tick is due, and what is in hand between ticks. The clock
\* waits for a scheduler whose ticks take no time.
TickOK ==
  \A s \in Schedulers :
    /\ now < next[s] /\ next[s] <= now + Interval
    /\ pc[s] \in {"down", "idle"} => windows[s] = <<>> /\ todo[s] = {}
    /\ pc[s] = "list" => todo[s] = {}
    /\ s \notin Slow /\ (due[s] \/ pc[s] \notin {"down", "idle"})
         => next[s] = now + Interval

\* s has been up since before the window of b opened and has to claim it.
Watched(s, b) ==
  LET opens == slot[b] - Lead - Interval IN
  /\ status[b] = "accepted" /\ since[b] <= opens
  /\ pc[s] # "down" /\ up[s] <= opens /\ sent[b] = None

\* The tick that s is at, or is due, may still claim b.
Pending(s, b) ==
  \/ due[s] \/ b \in todo[s]
  \/ \E i \in DOMAIN windows[s] : Covers(windows[s][i], slot[b])

\* Two ticks of s fall into the window after it has opened. A booking that is
\* unclaimed after n of them was failed by n statements.
LostOK(s, b) ==
  LET x == slot[b] - Lead IN
  Watched(s, b) =>
    /\ next[s] > x => errors >= 1 \/ Pending(s, b)
    /\ next[s] > x + Interval => errors >= 2 \/ (errors >= 1 /\ Pending(s, b))
    /\ next[s] > x + 2 * Interval => errors >= 2

MissedOK == TickOK /\ \A s \in Schedulers \ Slow, b \in Bookings : LostOK(s, b)

\* Every step keeps the tickers in time.
LEMMA NextTickOK == IInv /\ TickOK /\ [Next]_vars => TickOK'
<1>. SUFFICES ASSUME IInv, TickOK, [Next]_vars PROVE TickOK'
  OBVIOUS
<1>0. TypeOK /\ Interval \in Nat \ {0} /\ now \in Nat /\ next \in [Schedulers -> Nat]
  BY TimeAssumption DEF IInv, TypeOK
<1>1. CASE UNCHANGED <<pc, windows, todo, due, next, now>>
  BY <1>1 DEF TickOK
<1>2. CASE Minute
  <2>1. /\ now' = now + 1 /\ UNCHANGED <<pc, windows, todo>>
        /\ \A s \in Schedulers :
             /\ next'[s] = IF next[s] = now' THEN now' + Interval ELSE next[s]
             /\ due'[s] = (pc[s] # "down" /\ (due[s] \/ next[s] = now'))
             /\ s \notin Slow => pc[s] \in {"idle", "down"} /\ ~due[s]
    BY <1>0, <1>2 DEF Minute
  <2>2. ASSUME NEW s \in Schedulers
        PROVE  now' < next'[s] /\ next'[s] <= now' + Interval
    <3>1. next[s] \in Nat /\ now < next[s] /\ next[s] <= now + Interval
      BY <1>0 DEF TickOK
    <3>. QED
      BY <1>0, <2>1, <3>1
  <2>3. ASSUME NEW s \in Schedulers, s \notin Slow,
               due'[s] \/ pc'[s] \notin {"down", "idle"}
        PROVE  next'[s] = now' + Interval
    BY <2>1, <2>3
  <2>. QED
    BY <2>1, <2>2, <2>3 DEF TickOK
<1>3. ASSUME NEW s \in Schedulers, Fire(s)
      PROVE  TickOK'
  BY <1>0, <1>3 DEF Fire, Goto, TickOK, TypeOK
<1>4. ASSUME NEW s \in Schedulers, List(s) \/ ListError(s) \/ TickDone(s)
      PROVE  TickOK'
  BY <1>0, <1>4 DEF List, ListError, TickDone, Goto, TickOK, TypeOK, ticks
<1>5. ASSUME NEW s \in Schedulers, Claim(s) \/ ClaimError(s)
      PROVE  TickOK'
  <2>1. /\ pc[s] = "claim" /\ pc'[s] \in {"claim", "notify"}
        /\ \A q \in Schedulers \ {s} : pc'[q] = pc[q] /\ todo'[q] = todo[q]
        /\ UNCHANGED <<windows, due, next, now>>
    BY <1>0, <1>5 DEF Claim, ClaimError, Goto, TypeOK, ticks
  <2>. QED
    BY <2>1 DEF TickOK
<1>6. ASSUME NEW s \in Schedulers, ClaimsDone(s) \/ Notify(s)
      PROVE  TickOK'
  <2>1. /\ pc[s] \in {"claim", "notify"} /\ pc'[s] \in {"list", "claim"}
        /\ pc'[s] = "list" => todo[s] = {}
        /\ \A q \in Schedulers \ {s} : pc'[q] = pc[q]
        /\ UNCHANGED <<windows, todo, due, next, now>>
    BY <1>0, <1>6 DEF ClaimsDone, Notify, Goto, TypeOK, ticks
  <2>. QED
    BY <2>1 DEF TickOK
<1>7. ASSUME NEW s \in Schedulers, Stop(s) \/ Start(s)
      PROVE  TickOK'
  <2>1. CASE Stop(s)
    <3>1. /\ pc'[s] = "down" /\ windows'[s] = <<>> /\ todo'[s] = {} /\ due'[s] = FALSE
          /\ UNCHANGED <<next, now>>
          /\ \A q \in Schedulers \ {s} :
               pc'[q] = pc[q] /\ windows'[q] = windows[q] /\ todo'[q] = todo[q]
               /\ due'[q] = due[q]
      BY <1>0, <2>1 DEF Stop, Goto, TypeOK
    <3>. QED
      BY <3>1 DEF TickOK
  <2>2. CASE Start(s)
    <3>1. /\ pc[s] = "down" /\ pc'[s] = "idle" /\ next'[s] = now + Interval
          /\ UNCHANGED <<windows, todo, due, now>>
          /\ \A q \in Schedulers \ {s} : pc'[q] = pc[q] /\ next'[q] = next[q]
      BY <1>0, <2>2 DEF Start, Goto, TypeOK
    <3>. QED
      BY <1>0, <3>1 DEF TickOK
  <2>. QED
    BY <1>7, <2>1, <2>2
<1>8. CASE \/ UNCHANGED vars
           \/ \E b \in Bookings : Request(b) \/ Move(b) \/ Accept(b) \/ End(b)
  BY <1>1, <1>8 DEF vars, Request, Move, Accept, End, ticks
<1>. QED
  BY <1>2, <1>3, <1>4, <1>5, <1>6, <1>7, <1>8 DEF Next

\* A minute passes: a tick that falls due may claim b, the one before it has failed
\* to.
LEMMA MinuteLost ==
  ASSUME IInv, TickOK, Minute, NEW s \in Schedulers \ Slow, NEW b \in Bookings,
         LostOK(s, b)
  PROVE  LostOK(s, b)'
<1>0. /\ TypeOK /\ Interval \in Nat \ {0} /\ Lead \in Nat /\ now \in Nat
      /\ next[s] \in Nat /\ slot[b] \in Nat /\ errors \in Nat
  BY TimeAssumption DEF IInv, TypeOK
<1>1. /\ pc[s] \in {"idle", "down"} /\ ~due[s] /\ now' = now + 1
      /\ next'[s] = IF next[s] = now' THEN now' + Interval ELSE next[s]
      /\ due'[s] = (pc[s] # "down" /\ (due[s] \/ next[s] = now'))
      /\ UNCHANGED <<rows, pc, windows, todo, sent, up, errors>>
  BY <1>0 DEF Minute
<1>2. ~Pending(s, b)
  <2>1. windows[s] = <<>> /\ todo[s] = {}
    BY <1>1 DEF TickOK
  <2>. QED
    BY <1>1, <2>1 DEF Pending
<1>3. Watched(s, b)' <=> Watched(s, b)
  BY <1>1 DEF Watched, rows
<1>4. due'[s] => Pending(s, b)'
  BY DEF Pending
<1>5. slot' = slot /\ errors' = errors
  BY <1>1 DEF rows
<1>. SUFFICES ASSUME Watched(s, b)
              PROVE  LET x == slot[b] - Lead IN
                     /\ next'[s] > x => errors >= 1 \/ Pending(s, b)'
                     /\ next'[s] > x + Interval
                          => errors >= 2 \/ (errors >= 1 /\ Pending(s, b)')
                     /\ next'[s] > x + 2 * Interval => errors >= 2
  BY <1>3, <1>5 DEF LostOK
<1>6. LET x == slot[b] - Lead IN
      /\ next[s] > x => errors >= 1
      /\ next[s] > x + Interval => errors >= 2
  BY <1>2 DEF LostOK
<1>7. pc[s] # "down"
  BY DEF Watched
<1>8. CASE next[s] = now'
  <2>1. due'[s]
    BY <1>1, <1>7, <1>8
  <2>2. Pending(s, b)'
    BY <1>4, <2>1
  <2>3. next'[s] = next[s] + Interval
    BY <1>1, <1>8
  <2>. QED
    BY <1>0, <1>6, <2>2, <2>3
<1>9. CASE next[s] # now'
  BY <1>0, <1>1, <1>6, <1>9
<1>. QED
  BY <1>8, <1>9

\* The tick begins: if it is one of those in the window, its queries have b.
LEMMA FireLost ==
  ASSUME IInv, TickOK, NEW s \in Schedulers \ Slow, NEW b \in Bookings,
         2 * Interval <= Day, Fire(s), LostOK(s, b)
  PROVE  LostOK(s, b)'
<1>0. /\ TypeOK /\ ClockOK /\ Interval \in Nat \ {0} /\ Lead \in Nat /\ now \in Nat
      /\ next[s] \in Nat /\ slot[b] \in Nat /\ errors \in Nat
  BY TimeAssumption DEF IInv, TypeOK
<1>1. /\ due[s] /\ pc[s] = "idle" /\ pc'[s] = "list"
      /\ windows'[s] = TickWindows(now)
      /\ UNCHANGED <<rows, sent, next, up, errors>>
  BY <1>0 DEF Fire, Goto, TypeOK
<1>2. next[s] = now + Interval
  BY <1>1 DEF TickOK
<1>3. Watched(s, b)' <=> Watched(s, b)
  BY <1>1 DEF Watched, rows
<1>4. ASSUME slot[b] - Lead - Interval <= now, now <= slot[b] - Lead + Interval
      PROVE  Pending(s, b)'
  BY <1>0, <1>1, <1>4, TickCovers DEF ClockOK, Pending, rows
<1>. QED
  BY <1>0, <1>1, <1>2, <1>3, <1>4 DEF LostOK, rows

\* A step that keeps b in hand, or counts an error, loses nothing.
LEMMA KeepsLost ==
  ASSUME NEW s \in Schedulers, NEW b \in Bookings, LostOK(s, b), TypeOK,
         UNCHANGED <<slot, next>>, Watched(s, b)' => Watched(s, b),
         \/ errors' = errors /\ (Pending(s, b) /\ Watched(s, b)' => Pending(s, b)')
         \/ errors' = errors + 1
  PROVE  LostOK(s, b)'
<1>1. errors \in Nat
  BY TimeAssumption DEF TypeOK
<1>. QED
  BY <1>1 DEF LostOK

\* Every step keeps the account of missed ticks.
LEMMA NextMissedOK ==
  ASSUME 2 * Interval <= Day
  PROVE  IInv /\ MissedOK /\ [Next]_vars => MissedOK'
<1>. SUFFICES ASSUME IInv, MissedOK, [Next]_vars,
                     NEW s \in Schedulers \ Slow, NEW b \in Bookings
              PROVE  LostOK(s, b)'
  BY NextTickOK DEF MissedOK
<1>0. TypeOK /\ TickOK /\ LostOK(s, b) /\ Interval \in Nat \ {0} /\ Lead \in Nat
  BY TimeAssumption DEF IInv, MissedOK
<1>1. CASE Minute
  BY <1>0, <1>1, MinuteLost
<1>2. CASE Fire(s)
  BY <1>0, <1>2, FireLost
<1>3. CASE List(s)
  <2>1. /\ pc[s] = "list" /\ pc'[s] = "claim" /\ windows[s] # <<>>
        /\ windows'[s] = Tail(windows[s])
        /\ todo'[s] = DueIn(Head(windows[s]))
        /\ UNCHANGED <<rows, sent, ticks, errors>>
    BY <1>0, <1>3 DEF List, Goto, TypeOK
  <2>2. Watched(s, b)' => Watched(s, b)
    BY <2>1 DEF Watched, rows, ticks
  <2>3. ASSUME Pending(s, b), Watched(s, b)' PROVE Pending(s, b)'
    <3>1. CASE due[s]
      BY <2>1, <3>1 DEF Pending, ticks
    <3>2. CASE b \in todo[s]
      BY <1>0, <2>1, <3>2 DEF TickOK
    <3>3. CASE \E i \in DOMAIN windows[s] : Covers(windows[s][i], slot[b])
      <4>1. PICK i \in DOMAIN windows[s] : Covers(windows[s][i], slot[b])
        BY <3>3
      <4>2. windows[s] \in Seq(Windows)
        BY <1>0 DEF TypeOK
      <4>3. CASE windows[s][i] = Head(windows[s])
        <5>1. b \in DueIn(Head(windows[s]))
          BY <2>2, <2>3, <4>1, <4>3 DEF DueIn, Covers, Watched
        <5>. QED
          BY <2>1, <5>1 DEF Pending
      <4>4. CASE \E k \in DOMAIN Tail(windows[s]) : windows[s][i] = Tail(windows[s])[k]
        BY <2>1, <4>1, <4>4 DEF Pending, rows
      <4>. QED
        BY <2>1, <4>2, <4>3, <4>4, TailWindows
    <3>. QED
      BY <2>3, <3>1, <3>2, <3>3 DEF Pending
  <2>. QED
    BY <1>0, <2>1, <2>2, <2>3, KeepsLost DEF rows, ticks
<1>4. CASE ListError(s) \/ ClaimError(s)
  <2>1. errors' = errors + 1 /\ UNCHANGED <<rows, sent, pc, ticks>>
    BY <1>4 DEF ListError, ClaimError
  <2>2. Watched(s, b)' => Watched(s, b)
    BY <2>1 DEF Watched, rows, ticks
  <2>. QED
    BY <1>0, <2>1, <2>2, KeepsLost DEF rows, ticks
<1>5. CASE Claim(s)
  <2>1. PICK c \in todo[s] :
          /\ todo' = [todo EXCEPT ![s] = @ \ {c}]
          /\ \/ sent' = [sent EXCEPT ![c] = now] /\ pc'[s] = "notify"
             \/ sent[c] # None /\ UNCHANGED <<sent, pc>>
          /\ pc[s] = "claim" /\ UNCHANGED <<rows, windows, ticks, errors>>
    BY <1>0, <1>5 DEF Claim, Goto, TypeOK
  <2>2. c \in Bookings /\ now # None
    BY <1>0, <2>1, NoneAssumption DEF TypeOK
  <2>3. Watched(s, b)' => Watched(s, b) /\ c # b
    BY <1>0, <2>1, <2>2 DEF Watched, rows, ticks, TypeOK
  <2>4. Pending(s, b) /\ c # b => Pending(s, b)'
    BY <1>0, <2>1 DEF Pending, rows, ticks, TypeOK
  <2>. QED
    BY <1>0, <2>1, <2>3, <2>4, KeepsLost DEF rows, ticks
<1>6. CASE TickDone(s) \/ ClaimsDone(s) \/ Notify(s)
  <2>1. /\ pc[s] # "down" /\ UNCHANGED <<rows, sent, windows, todo, ticks, errors>>
    BY <1>6 DEF TickDone, ClaimsDone, Notify
  <2>2. (Watched(s, b)' => Watched(s, b)) /\ (Pending(s, b)' <=> Pending(s, b))
    BY <2>1 DEF Watched, Pending, rows, ticks
  <2>. QED
    BY <1>0, <2>1, <2>2, KeepsLost DEF rows, ticks
<1>7. CASE Stop(s)
  <2>1. pc'[s] = "down"
    BY <1>0, <1>7 DEF Stop, Goto, TypeOK
  <2>. QED
    BY <2>1 DEF LostOK, Watched
<1>8. CASE Start(s)
  <2>1. /\ next'[s] = now + Interval /\ up'[s] = now /\ UNCHANGED <<rows, errors>>
        /\ now \in Nat /\ slot[b] \in Nat
    BY <1>0, <1>8 DEF Start, TypeOK
  <2>2. Watched(s, b)' => ~(next'[s] > slot'[b] - Lead)
    BY <1>0, <2>1 DEF Watched, rows
  <2>. QED
    BY <1>0, <2>1, <2>2 DEF LostOK, rows
<1>9. ASSUME NEW c \in Bookings, Request(c) \/ Move(c) \/ Accept(c) \/ End(c)
      PROVE  LostOK(s, b)'
  <2>0. /\ \A d \in Bookings \ {c} : /\ status'[d] = status[d] /\ slot'[d] = slot[d]
                                     /\ since'[d] = since[d] /\ sent'[d] = sent[d]
        /\ UNCHANGED <<pc, windows, todo, ticks, errors, now>>
    BY <1>0, <1>9 DEF Request, Move, Accept, End, TypeOK
  <2>1. CASE c # b
    <3>1. /\ Watched(s, b)' <=> Watched(s, b)
          /\ Pending(s, b)' <=> Pending(s, b)
      BY <2>0, <2>1 DEF Watched, Pending, ticks
    <3>. QED
      BY <2>0, <2>1, <3>1, <1>0 DEF LostOK, ticks
  <2>2. CASE c = b /\ status'[b] # "accepted"
    BY <2>2 DEF LostOK, Watched
  <2>3. CASE c = b /\ status'[b] = "accepted"
    <3>1. since'[b] = now /\ now \in Nat /\ slot[b] \in Nat /\ slot' = slot
      BY <1>0, <1>9, <2>3 DEF Request, Move, Accept, End, TypeOK
    <3>2. next[s] <= now + Interval /\ next[s] \in Nat
      BY <1>0 DEF TickOK, TypeOK
    <3>3. Watched(s, b)' => ~(next'[s] > slot'[b] - Lead)
      BY <1>0, <2>0, <3>1, <3>2 DEF Watched, ticks
    <3>. QED
      BY <1>0, <2>0, <3>1, <3>2, <3>3 DEF LostOK, ticks
  <2>. QED
    BY <2>1, <2>2, <2>3
<1>10. ASSUME NEW q \in Schedulers, q # s,
              \/ Fire(q) \/ List(q) \/ ListError(q) \/ TickDone(q) \/ Claim(q)
              \/ ClaimError(q) \/ ClaimsDone(q) \/ Notify(q) \/ Stop(q) \/ Start(q)
       PROVE  LostOK(s, b)'
  <2>1. /\ pc'[s] = pc[s] /\ windows'[s] = windows[s] /\ todo'[s] = todo[s]
        /\ due'[s] = due[s] /\ next'[s] = next[s] /\ up'[s] = up[s]
        /\ UNCHANGED rows /\ errors' \in {errors, errors + 1}
    BY <1>0, <1>10 DEF Fire, List, ListError, TickDone, Claim, ClaimError,
      ClaimsDone, Notify, Stop, Start, Goto, TypeOK, ticks
  <2>2. sent'[b] = None => sent[b] = None
    <3>1. CASE sent' = sent
      BY <3>1
    <3>2. CASE sent' # sent
      <4>1. PICK c \in todo[q] : sent' = [sent EXCEPT ![c] = now]
        BY <1>10, <3>2 DEF Fire, List, ListError, TickDone, Claim, ClaimError,
          ClaimsDone, Notify, Stop, Start
      <4>2. now # None
        BY <1>0, NoneAssumption DEF TypeOK
      <4>. QED
        BY <1>0, <4>1, <4>2 DEF TypeOK
    <3>. QED
      BY <3>1, <3>2
  <2>3. /\ Watched(s, b)' => Watched(s, b)
        /\ Pending(s, b)' <=> Pending(s, b)
    BY <2>1, <2>2 DEF Watched, Pending, rows
  <2>4. errors \in Nat /\ slot[b] \in Nat /\ next[s] \in Nat
    BY <1>0, TimeAssumption DEF TypeOK
  <2>. QED
    BY <1>0, <2>1, <2>3, <2>4 DEF LostOK, rows
<1>11. CASE UNCHANGED vars
  <2>1. /\ Watched(s, b)' <=> Watched(s, b)
        /\ Pending(s, b)' <=> Pending(s, b)
    BY <1>11 DEF vars, rows, ticks, Watched, Pending
  <2>. QED
    BY <1>0, <1>11, <2>1 DEF vars, rows, ticks, LostOK
<1>. QED
  BY <1>1, <1>2, <1>3, <1>4, <1>5, <1>6, <1>7, <1>8, <1>9, <1>10, <1>11 DEF Next

\* With windows of at most a day, a booking is never missed between the ticks of a
\* scheduler that is up and prompt, be there one failing statement.
THEOREM MissSafety ==
  ASSUME 2 * Interval <= Day
  PROVE  Spec => []NeverMissed
<1>1. Init => MissedOK
  <2>. SUFFICES ASSUME Init PROVE MissedOK
    OBVIOUS
  <2>1. TickOK
    BY TimeAssumption DEF Init, TickOK
  <2>2. \A s \in Schedulers \ Slow, b \in Bookings : LostOK(s, b)
    BY DEF Init, LostOK, Watched
  <2>. QED
    BY <2>1, <2>2 DEF MissedOK
<1>2. IInv /\ MissedOK => NeverMissed
  <2>. SUFFICES ASSUME IInv, MissedOK, NEW b \in Bookings, NEW s \in Schedulers \ Slow,
                       status[b] = "accepted", since[b] <= slot[b] - Lead - Interval,
                       pc[s] # "down", up[s] <= slot[b] - Lead - Interval,
                       now > slot[b] - Lead + Interval, errors <= 1, sent[b] = None
                PROVE  FALSE
    BY DEF NeverMissed
  <2>1. /\ now \in Nat /\ slot[b] \in Nat /\ next[s] \in Nat /\ errors \in Nat
        /\ Lead \in Nat /\ Interval \in Nat \ {0}
    BY TimeAssumption DEF IInv, TypeOK
  <2>2. Watched(s, b) /\ LostOK(s, b) /\ TickOK
    BY DEF Watched, MissedOK
  <2>3. next[s] > slot[b] - Lead + Interval
    BY <2>1, <2>2 DEF TickOK
  <2>4. errors >= 1 /\ Pending(s, b)
    BY <2>1, <2>2, <2>3 DEF LostOK
  <2>5. next[s] = now + Interval
    BY <2>2, <2>4 DEF Pending, TickOK
  <2>6. next[s] > slot[b] - Lead + 2 * Interval
    BY <2>1, <2>5
  <2>. QED
    BY <2>1, <2>2, <2>6 DEF LostOK
<1>3. IInv /\ MissedOK /\ [Next]_vars => MissedOK'
  BY NextMissedOK
<1>. QED
  BY <1>1, <1>2, <1>3, InitIInv, NextIInv, PTL DEF Spec

-----------------------------------------------------------------------------
\* What the reminders promise.

\* The claim of a scheduler is a claim of the contract, or finds one made.
LEMMA ClaimStep ==
  ASSUME IInv, EarlyOK, AcceptedOK, NEW s \in Schedulers, Claim(s)
  PROVE  \/ \E b \in Bookings : Contract!Claim(b)
         \/ UNCHANGED Contract!vars
<1>1. PICK b \in todo[s] :
        \/ sent[b] = None /\ sent' = [sent EXCEPT ![b] = now]
        \/ UNCHANGED sent
  BY DEF Claim
<1>2. UNCHANGED <<rows, told, now>>
  BY DEF Claim
<1>3. CASE UNCHANGED sent
  BY <1>2, <1>3 DEF rows, Contract!vars
<1>4. CASE sent[b] = None /\ sent' = [sent EXCEPT ![b] = now]
  <2>1. b \in Bookings /\ slot[b] \in Nat
    BY <1>1 DEF IInv, TypeOK
  <2>2. since[b] # None /\ slot[b] - Lead - Interval <= now
    BY <1>1 DEF AcceptedOK, EarlyOK, FoundOK
  <2>3. slot[b] - (Lead + Interval) <= now
    BY <2>1, <2>2, TimeAssumption DEF IInv, TypeOK
  <2>4. Contract!Claim(b)
    BY <1>2, <1>4, <2>2, <2>3 DEF rows, Contract!Claim
  <2>. QED
    BY <2>1, <2>4
<1>. QED
  BY <1>1, <1>3, <1>4

\* What a scheduler that has claimed a booking sends is its first reminder.
LEMMA SendStep ==
  ASSUME IInv, NEW s \in Schedulers, Notify(s)
  PROVE  \E b \in Bookings : Contract!Send(b)
<1>. DEFINE b == job[s]
<1>1. b \in Bookings /\ sent[b] # None /\ told[b] = 0
  BY DEF IInv, TypeOK, ClaimOK, Notify
<1>2. told' = [told EXCEPT ![b] = 1] /\ UNCHANGED <<rows, sent, now>>
  BY <1>1 DEF Notify
<1>3. Contract!Send(b)
  BY <1>1, <1>2 DEF rows, Contract!Send
<1>. QED
  BY <1>1, <1>3

\* Any number of schedulers that stop, start and fail, with lists as old as may be,
\* remind as ReminderContract says.
THEOREM ContractKept == Spec => ContractSpec
<1>1. Init => Contract!Init /\ EarlyOK /\ AcceptedOK
  BY TimeAssumption DEF Init, Contract!Init, EarlyOK, NeverEarly, FoundOK, AcceptedOK
<1>2. IInv /\ EarlyOK /\ AcceptedOK /\ [Next]_vars => [Contract!Next]_(Contract!vars)
  <2>. SUFFICES ASSUME IInv, EarlyOK, AcceptedOK, [Next]_vars
                PROVE  Contract!Next \/ UNCHANGED Contract!vars
    OBVIOUS
  <2>1. CASE Minute
    BY <2>1 DEF Minute, rows, Contract!Minute, Contract!Next
  <2>2. ASSUME NEW b \in Bookings, Request(b)
        PROVE  Contract!Next
    BY <2>2 DEF Request, Contract!Request, Contract!Next
  <2>3. ASSUME NEW b \in Bookings, Move(b) \/ Accept(b)
        PROVE  Contract!Next
    BY <2>3 DEF Move, Accept, Contract!Move, Contract!Accept, Contract!Next
  <2>4. ASSUME NEW b \in Bookings, End(b)
        PROVE  Contract!Next
    BY <2>4 DEF End, Contract!End, Contract!Next
  <2>5. ASSUME NEW s \in Schedulers, Claim(s)
        PROVE  Contract!Next \/ UNCHANGED Contract!vars
    BY <2>5, ClaimStep DEF Contract!Next
  <2>6. ASSUME NEW s \in Schedulers, Notify(s)
        PROVE  Contract!Next
    BY <2>6, SendStep DEF Contract!Next
  <2>7. CASE \/ UNCHANGED vars
             \/ \E s \in Schedulers :
                  \/ Fire(s) \/ List(s) \/ ListError(s) \/ TickDone(s)
                  \/ ClaimError(s) \/ ClaimsDone(s) \/ Stop(s) \/ Start(s)
    BY <2>7 DEF vars, rows, Fire, List, ListError, TickDone, ClaimError, ClaimsDone,
      Stop, Start, Contract!vars
  <2>. QED
    BY <2>1, <2>2, <2>3, <2>4, <2>5, <2>6, <2>7 DEF Next
<1>. QED
  BY <1>1, <1>2, InitIInv, NextIInv, NextEarlyOK, NextAcceptedOK, PTL
    DEF Spec, ContractSpec, Contract!Spec

-----------------------------------------------------------------------------
\* The life of bookings.

Life(b) == INSTANCE BookingLife WITH status <- status[b], slot <- slot[b]

\* Only b changes; a new booking has not been accepted, claimed or told of, and when
\* it is accepted the time is noted.
Noted(b) ==
  /\ \E x, t : /\ status' = [status EXCEPT ![b] = x]
               /\ slot' = [slot EXCEPT ![b] = t]
  /\ IF status[b] = "over"
     THEN /\ since' = [since EXCEPT ![b] = None] /\ sent' = [sent EXCEPT ![b] = None]
          /\ told' = [told EXCEPT ![b] = 0]
     ELSE /\ since' = IF status'[b] = "accepted" THEN [since EXCEPT ![b] = now] ELSE since
          /\ UNCHANGED <<sent, told>>
  /\ UNCHANGED <<pc, windows, todo, job, ticks, errors, now>>

\* Reminder leaves out no step in the life of a booking, and makes up none: what
\* LifeKept of BookingProofs says bookings do is what this model lets them do, but that
\* a number in the hands of a scheduler is not given to a new booking.
THEOREM LifeAssumed ==
  ASSUME TypeOK, NEW b \in Bookings
  PROVE  /\ Request(b) \/ Move(b) \/ Accept(b) \/ End(b) => Life(b)!Next
         /\ /\ Life(b)!Next /\ Noted(b)
            /\ status[b] = "over" => \A s \in Schedulers : b \notin todo[s] /\ job[s] # b
            => Request(b) \/ Move(b) \/ Accept(b) \/ End(b)
<1>0. /\ status \in [Bookings -> {"over", "pending", "accepted"}]
      /\ slot \in [Bookings -> Nat]
  BY DEF TypeOK
<1>1. ASSUME Request(b) \/ Move(b) \/ Accept(b) \/ End(b)
      PROVE  Life(b)!Next
  <2>1. Request(b) => Life(b)!Request
    BY <1>0 DEF Request, Life!Request
  <2>2. Move(b) => Life(b)!Move
    BY <1>0 DEF Move, Life!Move
  <2>3. Accept(b) => Life(b)!Accept
    BY <1>0 DEF Accept, Life!Accept
  <2>4. End(b) => Life(b)!End
    BY <1>0 DEF End, Life!End
  <2>. QED
    BY <1>1, <2>1, <2>2, <2>3, <2>4 DEF Life!Next
<1>2. ASSUME Life(b)!Next, Noted(b),
             status[b] = "over" => \A s \in Schedulers : b \notin todo[s] /\ job[s] # b
      PROVE  Request(b) \/ Move(b) \/ Accept(b) \/ End(b)
  <2>1. PICK x, t : /\ status' = [status EXCEPT ![b] = x]
                    /\ slot' = [slot EXCEPT ![b] = t]
    BY <1>2 DEF Noted
  <2>2. status'[b] = x /\ slot'[b] = t
    BY <1>0, <2>1
  <2>3. t = slot[b] => slot' = slot
    BY <1>0, <2>1
  <2>4. x = status[b] => status' = status
    BY <1>0, <2>1
  <2>5. CASE Life(b)!Request
    BY <1>2, <2>1, <2>2, <2>5 DEF Life!Request, Noted, Request
  <2>6. CASE Life(b)!Move
    BY <1>2, <2>1, <2>2, <2>4, <2>6 DEF Life!Move, Noted, Move
  <2>7. CASE Life(b)!Accept
    BY <1>2, <2>1, <2>2, <2>3, <2>7 DEF Life!Accept, Noted, Accept
  <2>8. CASE Life(b)!End
    BY <1>2, <2>1, <2>2, <2>3, <2>8 DEF Life!End, Noted, End
  <2>. QED
    BY <1>2, <2>5, <2>6, <2>7, <2>8 DEF Life!Next
<1>. QED
  BY <1>1, <1>2
=============================================================================
