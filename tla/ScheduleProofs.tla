---------------------------- MODULE ScheduleProofs ----------------------------
(***************************************************************************)
(* Theorems about Schedule for every value of its constants.               *)
(***************************************************************************)
EXTENDS Schedule, SequenceTheorems, WellFoundedInduction, TLAPS

-----------------------------------------------------------------------------
\* Slots.

\* Dropping what is below the minute keeps the order of ticks.
LEMMA FormatType == \A t \in Nat : Format(t) \in Nat
BY DurationAssumption DEF Format

LEMMA FormatMonotone ==
  ASSUME NEW s \in Nat, NEW t \in Nat, s <= t
  PROVE  Format(s) <= Format(t)
BY DurationAssumption DEF Format

\* A slot begins at a tick of the grid of its opening time and is no longer than
\* the duration.
OnGrid(s) ==
  \E k \in Nat :
    /\ s.start = Format(s.opened * Grain + k * Duration)
    /\ s.end <= Format(s.opened * Grain + k * Duration + Duration)

LEMMA SlotsOnGrid ==
  ASSUME NEW start \in Nat, NEW end \in Nat, NEW s \in Slots(start, end)
  PROVE  /\ s.start \in Nat /\ s.end \in Nat
         /\ \E k \in Nat :
              /\ s.start = Format(start * Grain + k * Duration)
              /\ s.end <= Format(start * Grain + k * Duration + Duration)
<1>. DEFINE last == end * Grain
            first == start * Grain
<1>1. last \in Nat /\ first \in Nat /\ Duration \in Nat
  BY DurationAssumption
<1>2. PICK k \in 0..(last - first) :
        first + k * Duration < last /\ s = TimeSlot(first + k * Duration, last)
  BY DEF Slots
<1>3. k \in Nat /\ k * Duration \in Nat
  BY <1>1, <1>2
<1>. DEFINE cur == first + k * Duration
            next == cur + Duration
            stop == IF next > last THEN last ELSE next
<1>4. cur \in Nat /\ next \in Nat /\ stop \in Nat /\ stop <= next
  BY <1>1, <1>3
<1>5. s.start = Format(cur) /\ s.end = Format(stop)
  BY <1>2 DEF TimeSlot
<1>6. Format(stop) <= Format(next) /\ Format(cur) \in Nat /\ Format(stop) \in Nat
  BY <1>4, FormatMonotone, FormatType
<1>. QED
  BY <1>3, <1>5, <1>6

\* What leaves no remainder is a multiple.
LEMMA Multiple ==
  ASSUME NEW n \in Int, NEW d \in Nat, d > 0, n % d = 0
  PROVE  \E m \in Int : n = m * d
<1>1. n \div d \in Int /\ n = d * (n \div d) + (n % d)
  OBVIOUS
<1>2. n = (n \div d) * d
  BY <1>1
<1>. QED
  BY <1>1, <1>2

\* Slots of one grid that begin at different times do not overlap.
LEMMA GridDisjoint ==
  ASSUME NEW s \in SlotType, NEW t \in SlotType, OnGrid(s), OnGrid(t),
         SameGrid(s.opened, t.opened), s.start # t.start
  PROVE  s.end <= t.start \/ t.end <= s.start
<1>1. s.opened \in Nat /\ t.opened \in Nat /\ Grain \in Nat /\ Duration \in Nat /\ Duration > 0
      /\ s.end \in Nat /\ t.end \in Nat
  BY DurationAssumption DEF SlotType
<1>2. PICK i \in Nat :
        /\ s.start = Format(s.opened * Grain + i * Duration)
        /\ s.end <= Format(s.opened * Grain + i * Duration + Duration)
  BY DEF OnGrid
<1>3. PICK j \in Nat :
        /\ t.start = Format(t.opened * Grain + j * Duration)
        /\ t.end <= Format(t.opened * Grain + j * Duration + Duration)
  BY DEF OnGrid
<1>. DEFINE x == s.opened * Grain + i * Duration
            y == t.opened * Grain + j * Duration
            shift == (s.opened - t.opened) * Grain
<1>4. PICK m \in Int : shift = m * Duration
  <2>1. shift \in Int /\ shift % Duration = 0
    BY <1>1 DEF SameGrid
  <2>. HIDE DEF shift
  <2>. QED
    BY <1>1, <2>1, Multiple
<1>5. x \in Nat /\ y \in Nat /\ x - y = (m + i - j) * Duration
  <2>1. s.opened * Grain \in Nat /\ t.opened * Grain \in Nat
        /\ s.opened * Grain - t.opened * Grain = m * Duration
    BY <1>1, <1>4
  <2>2. i * Duration \in Nat /\ j * Duration \in Nat /\ m * Duration \in Int
    BY <1>1
  <2>3. (m + i - j) * Duration = m * Duration + i * Duration - j * Duration
    BY <1>1
  <2>. QED
    BY <2>1, <2>2, <2>3
<1>6. CASE m + i - j >= 1
  <2>1. (m + i - j) * Duration >= Duration
    BY <1>1, <1>6
  <2>2. y + Duration <= x /\ y + Duration \in Nat
    BY <1>1, <1>5, <2>1
  <2>3. Format(y + Duration) <= Format(x)
    BY <1>5, <2>2, FormatMonotone
  <2>. QED
    BY <1>1, <1>2, <1>3, <1>5, <2>2, <2>3, FormatType
<1>7. CASE m + i - j <= -1
  <2>1. (m + i - j) * Duration <= -Duration
    BY <1>1, <1>7
  <2>2. x + Duration <= y /\ x + Duration \in Nat
    BY <1>1, <1>5, <2>1
  <2>3. Format(x + Duration) <= Format(y)
    BY <1>5, <2>2, FormatMonotone
  <2>. QED
    BY <1>1, <1>2, <1>3, <1>5, <2>2, <2>3, FormatType
<1>8. CASE m + i - j = 0
  <2>1. (m + i - j) * Duration = 0
    BY <1>1, <1>8
  <2>. HIDE DEF x, y
  <2>2. x = y
    BY <1>5, <2>1
  <2>. QED
    BY <1>2, <1>3, <2>2 DEF x, y
<1>. QED
  BY <1>6, <1>7, <1>8

-----------------------------------------------------------------------------
\* The inductive invariant: every slot that was stored or asked for is on a grid,
\* accepted bookings begin at different times, the area belongs to committed
\* vertices, and a call that replaces it has a polygon.

SlotsOK == \A b \in Bookings : OnGrid(slot[b]) /\ OnGrid(draft[b])

AcceptedOK ==
  \A a, b \in Bookings :
    a # b /\ status[a] = "accepted" /\ status[b] = "accepted"
    => slot[a].start # slot[b].start

CallsOK ==
  \A r \in Requests : pc[r] \notin {"idle", "hours"} => call[r].polygon # None

ProfileInv == ProfileTypeOK /\ CallsOK /\ AreaKeepsVertices

IInv == TypeOK /\ SlotsOK /\ AcceptedOK /\ ProfileInv

LEMMA NoSlotOnGrid == NoSlot \in SlotType /\ OnGrid(NoSlot)
<1>1. NoSlot \in SlotType
  BY DEF NoSlot, SlotType
<1>2. 0 * Grain + 0 * Duration = 0 /\ Format(0) = 0 /\ Format(0 + Duration) \in Nat
  BY DurationAssumption, FormatType DEF Format
<1>. QED
  BY <1>1, <1>2 DEF NoSlot, OnGrid

\* A slot that may be asked for is on the grid of the hours.
LEMMA ValidOnGrid ==
  ASSUME ProfileTypeOK, NEW s \in Valid
  PROVE  s \in SlotType /\ OnGrid(s)
<1>1. hours.start \in Nat /\ hours.end \in Nat
  BY TimesAssumption DEF ProfileTypeOK
<1>2. PICK t \in Slots(hours.start, hours.end) :
        s = [start |-> t.start, end |-> t.end, opened |-> hours.start]
  BY DEF Valid
<1>. QED
  BY <1>1, <1>2, SlotsOnGrid DEF OnGrid, SlotType

\* The empty table satisfies the invariant.
LEMMA InitIInv == Init => IInv
<1>. SUFFICES ASSUME Init PROVE IInv
  OBVIOUS
<1>1. ProfileInv
  BY DEF Init, ProfileInit, ProfileTypeOK, Calls, NoCall, CallsOK, AreaKeepsVertices, ProfileInv
<1>2. TypeOK
  BY <1>1, NoSlotOnGrid DEF Init, TypeOK, ProfileInv
<1>3. SlotsOK /\ AcceptedOK
  BY NoSlotOnGrid DEF Init, SlotsOK, AcceptedOK
<1>. QED
  BY <1>1, <1>2, <1>3 DEF IInv

-----------------------------------------------------------------------------
\* The profile.

\* Every step of the profile keeps its part of the invariant.
LEMMA ProfileStep ==
  ASSUME ProfileInv, NEW r \in Requests, ProfileNext(r)
  PROVE  ProfileInv'
<1>1. \/ UpdateProfile(r) \/ StoreHours(r) \/ ScanVertices(r) \/ DeleteVertices(r)
      \/ InsertVertices(r) \/ DeriveArea(r) \/ Abandon(r)
  BY DEF ProfileNext
<1>. DEFINE Labels == {"idle", "hours", "scan", "delete", "insert", "derive"}
<1>2. /\ call[r] \in Calls /\ NoCall \in Calls
      /\ pc \in [Requests -> Labels] /\ call \in [Requests -> Calls]
      /\ pc[r] \notin {"idle", "hours"} => call[r].polygon \in Polygons
  BY DEF ProfileInv, CallsOK, ProfileTypeOK, Calls, NoCall
<1>3. ASSUME NEW row \in Calls, NEW l \in Labels,
             call' = [call EXCEPT ![r] = row], pc' = [pc EXCEPT ![r] = l],
             l \notin {"idle", "hours"} => row.polygon # None
      PROVE  /\ call' \in [Requests -> Calls] /\ pc' \in [Requests -> Labels]
             /\ CallsOK'
  BY <1>2, <1>3 DEF ProfileInv, CallsOK
<1>4. CASE UpdateProfile(r)
  <2>1. PICK start \in Times \cup {None}, end \in Times \cup {None},
             polygon \in Polygons \cup {None} :
          LET s == IfChanged(start, hours.start)
              e == IfChanged(end, hours.end)
              changed == s # None \/ e # None
          IN /\ changed \/ polygon # None
             /\ call' = [call EXCEPT ![r] =
                  [NoCall EXCEPT !.start = s, !.end = e, !.polygon = polygon]]
             /\ pc' = [pc EXCEPT ![r] = IF changed THEN "hours" ELSE "scan"]
    BY <1>4 DEF UpdateProfile, Goto
  <2>. DEFINE s == IfChanged(start, hours.start)
              e == IfChanged(end, hours.end)
              row == [NoCall EXCEPT !.start = s, !.end = e, !.polygon = polygon]
              l == IF s # None \/ e # None THEN "hours" ELSE "scan"
  <2>2. s \in Times \cup {None} /\ e \in Times \cup {None}
    BY DEF IfChanged
  <2>3. row \in Calls /\ row.polygon = polygon
    BY <2>2 DEF Calls, NoCall
  <2>4. l \in Labels /\ (l \notin {"idle", "hours"} => polygon # None)
    BY <2>1
  <2>5. call' = [call EXCEPT ![r] = row] /\ pc' = [pc EXCEPT ![r] = l]
    BY <2>1
  <2>. HIDE DEF row, l
  <2>6. /\ call' \in [Requests -> Calls] /\ pc' \in [Requests -> Labels]
        /\ CallsOK'
    BY <1>3, <2>3, <2>4, <2>5
  <2>. QED
    BY <1>4, <2>6 DEF UpdateProfile, partner, ProfileInv, ProfileTypeOK, AreaKeepsVertices
<1>5. CASE StoreHours(r)
  <2>1. hours' \in [start : Times, end : Times]
    BY <1>2, <1>5 DEF StoreHours, ValueOr, ProfileInv, ProfileTypeOK, Calls
  <2>2. /\ call' \in [Requests -> Calls] /\ pc' \in [Requests -> Labels]
        /\ CallsOK'
    <3>1. CASE call[r].polygon = None
      BY <1>2, <1>3, <1>5, <3>1 DEF StoreHours, Return, Goto
    <3>2. CASE call[r].polygon # None
      <4>1. call' = [call EXCEPT ![r] = call[r]] /\ pc' = [pc EXCEPT ![r] = "scan"]
        BY <1>2, <1>5, <3>2 DEF StoreHours, Goto
      <4>. QED
        BY <1>2, <1>3, <3>2, <4>1
    <3>. QED
      BY <3>1, <3>2
  <2>. QED
    BY <1>5, <2>1, <2>2 DEF StoreHours, ProfileInv, ProfileTypeOK, AreaKeepsVertices
<1>6. CASE ScanVertices(r)
  <2>. DEFINE row == [call[r] EXCEPT !.doomed = vertices]
  <2>1. row \in Calls /\ row.polygon # None
    BY <1>2, <1>6, TimesAssumption DEF ScanVertices, ProfileInv, ProfileTypeOK, Calls
  <2>2. call' = [call EXCEPT ![r] = row] /\ pc' = [pc EXCEPT ![r] = "delete"]
    BY <1>2, <1>6 DEF ScanVertices, Goto
  <2>. HIDE DEF row
  <2>. QED
    BY <1>3, <1>6, <2>1, <2>2
    DEF ScanVertices, partner, ProfileInv, ProfileTypeOK, AreaKeepsVertices
<1>7. CASE DeleteVertices(r)
  <2>. DEFINE row == [call[r] EXCEPT !.deleted = call[r].doomed \cap vertices, !.doomed = {}]
  <2>1. row \in Calls /\ row.polygon # None
    BY <1>2, <1>7, TimesAssumption DEF DeleteVertices, ProfileInv, ProfileTypeOK, Calls
  <2>2. call' = [call EXCEPT ![r] = row] /\ pc' = [pc EXCEPT ![r] = "insert"]
    BY <1>2, <1>7 DEF DeleteVertices, Goto
  <2>. HIDE DEF row
  <2>. QED
    BY <1>3, <1>7, <2>1, <2>2
    DEF DeleteVertices, partner, ProfileInv, ProfileTypeOK, AreaKeepsVertices
<1>8. CASE InsertVertices(r)
  <2>1. call' = [call EXCEPT ![r] = call[r]] /\ pc' = [pc EXCEPT ![r] = "derive"]
        /\ call[r].polygon # None
    BY <1>2, <1>8, TimesAssumption DEF InsertVertices, Goto
  <2>. QED
    BY <1>2, <1>3, <1>8, <2>1
    DEF InsertVertices, partner, ProfileInv, ProfileTypeOK, AreaKeepsVertices
<1>9. CASE DeriveArea(r)
  <2>1. area' \in Polygons /\ area' \in vertices' /\ vertices' \subseteq Polygons
    BY <1>2, <1>9 DEF DeriveArea, ProfileInv, ProfileTypeOK
  <2>2. /\ call' \in [Requests -> Calls] /\ pc' \in [Requests -> Labels]
        /\ CallsOK'
    BY <1>2, <1>3, <1>9 DEF DeriveArea, Return, Goto
  <2>. QED
    BY <1>9, <2>1, <2>2 DEF DeriveArea, ProfileInv, ProfileTypeOK, AreaKeepsVertices
<1>10. CASE Abandon(r)
  <2>1. /\ call' \in [Requests -> Calls] /\ pc' \in [Requests -> Labels]
        /\ CallsOK'
    BY <1>2, <1>3, <1>10 DEF Abandon, Return, Goto
  <2>. QED
    BY <1>10, <2>1 DEF Abandon, partner, ProfileInv, ProfileTypeOK, AreaKeepsVertices
<1>. QED
  BY <1>1, <1>4, <1>5, <1>6, <1>7, <1>8, <1>9, <1>10

-----------------------------------------------------------------------------
\* Bookings.

\* Every step of a booking keeps the types.
LEMMA BookingTypeOK ==
  ASSUME IInv, NEW b \in Bookings,
         \/ Ask(b) \/ Check(b) \/ Insert(b) \/ Move(b) \/ Fail(b) \/ Accept(b) \/ End(b)
  PROVE  TypeOK' /\ SlotsOK' /\ ProfileInv'
<1>. DEFINE Statuses == {"over", "pending", "accepted"}
            Steps == {"idle", "check", "insert", "move"}
<1>1. /\ ProfileInv /\ SlotsOK
      /\ status \in [Bookings -> Statuses] /\ step \in [Bookings -> Steps]
      /\ slot \in [Bookings -> SlotType] /\ draft \in [Bookings -> SlotType]
  BY DEF IInv, TypeOK
<1>2. UNCHANGED pvars
  BY DEF Ask, Check, Insert, Move, Fail, Accept, End
<1>3. ProfileInv' /\ ProfileTypeOK'
  BY <1>1, <1>2 DEF ProfileInv, ProfileTypeOK, CallsOK, AreaKeepsVertices, pvars, partner
<1>4. status' \in [Bookings -> Statuses]
  BY <1>1 DEF Ask, Check, Insert, Move, Fail, Accept, End
<1>5. step' \in [Bookings -> Steps]
  BY <1>1 DEF Ask, Check, Insert, Move, Fail, Accept, End, Done
<1>6. \E s \in SlotType : OnGrid(s) /\ (draft' = draft \/ draft' = [draft EXCEPT ![b] = s])
  <2>1. CASE Ask(b)
    BY <1>1, <2>1, ValidOnGrid DEF Ask, ProfileInv
  <2>2. CASE ~Ask(b)
    BY <2>2, NoSlotOnGrid DEF Check, Insert, Move, Fail, Accept, End, Done
  <2>. QED
    BY <2>1, <2>2
<1>7. slot' = slot \/ slot' = [slot EXCEPT ![b] = draft[b]]
  BY DEF Ask, Check, Insert, Move, Fail, Accept, End
<1>8. slot' \in [Bookings -> SlotType] /\ draft' \in [Bookings -> SlotType]
  BY <1>1, <1>6, <1>7
<1>9. SlotsOK'
  <2>1. \A c \in Bookings : OnGrid(slot'[c]) /\ OnGrid(draft'[c])
    BY <1>1, <1>6, <1>7 DEF SlotsOK
  <2>. QED
    BY <2>1 DEF SlotsOK, OnGrid
<1>. QED
  BY <1>3, <1>4, <1>5, <1>8, <1>9 DEF TypeOK

\* Every step of a booking keeps the times of accepted bookings apart.
LEMMA BookingAcceptedOK ==
  ASSUME IInv, NEW b \in Bookings,
         \/ Ask(b) \/ Check(b) \/ Insert(b) \/ Move(b) \/ Fail(b) \/ Accept(b) \/ End(b)
  PROVE  AcceptedOK'
<1>1. /\ AcceptedOK /\ status \in [Bookings -> {"over", "pending", "accepted"}]
      /\ slot \in [Bookings -> SlotType]
  BY DEF IInv, TypeOK
<1>2. CASE Accept(b)
  <2>1. slot' = slot /\ status'[b] = "accepted"
        /\ \A c \in Bookings \ {b} : status'[c] = "accepted" => status[c] = "accepted"
    BY <1>1, <1>2 DEF Accept
  <2>2. \A c \in Bookings : status[c] = "accepted" => slot[c].start # slot[b].start
    BY <1>2 DEF Accept, Accepted
  <2>. QED
    BY <1>1, <2>1, <2>2 DEF AcceptedOK
<1>3. CASE Insert(b) \/ Move(b)
  <2>1. /\ status'[b] = "pending" /\ \A c \in Bookings \ {b} : status'[c] = status[c]
        /\ \A c \in Bookings \ {b} : slot'[c] = slot[c]
    BY <1>1, <1>3 DEF Insert, Move
  <2>. QED
    BY <1>1, <2>1 DEF AcceptedOK
<1>4. CASE Ask(b) \/ Check(b) \/ Fail(b) \/ End(b)
  <2>1. slot' = slot /\ \A c \in Bookings : status'[c] = "accepted" => status[c] = "accepted"
    BY <1>1, <1>4 DEF Ask, Check, Fail, End
  <2>. QED
    BY <1>1, <2>1 DEF AcceptedOK
<1>. QED
  BY <1>2, <1>3, <1>4

\* The invariant is inductive.
LEMMA NextIInv == IInv /\ [Next]_vars => IInv'
<1>. SUFFICES ASSUME IInv, [Next]_vars PROVE IInv'
  OBVIOUS
<1>1. CASE UNCHANGED vars
  BY <1>1 DEF IInv, TypeOK, SlotsOK, OnGrid, AcceptedOK, ProfileInv, ProfileTypeOK, CallsOK,
    AreaKeepsVertices, vars, pvars, partner, bookings
<1>2. CASE \E r \in Requests : ProfileNext(r) /\ UNCHANGED bookings
  <2>1. ProfileInv'
    BY <1>2, ProfileStep DEF IInv
  <2>2. TypeOK'
    BY <1>2, <2>1 DEF IInv, TypeOK, ProfileInv, bookings
  <2>3. SlotsOK' /\ AcceptedOK'
    BY <1>2 DEF IInv, SlotsOK, OnGrid, AcceptedOK, bookings
  <2>. QED
    BY <2>1, <2>2, <2>3 DEF IInv
<1>3. CASE \E b \in Bookings : BookingNext(b)
  BY <1>3, BookingTypeOK, BookingAcceptedOK DEF IInv, BookingNext
<1>. QED
  BY <1>1, <1>2, <1>3 DEF Next

-----------------------------------------------------------------------------
\* The loop that lists the slots. What a loop computes is shown for every input by the
\* input closest to its end on which it would compute something else.

\* A set of numbers that is not empty has a least one.
LEMMA Least ==
  ASSUME NEW T \in SUBSET Nat, T # {}
  PROVE  \E m \in T : \A n \in T : m <= n
<1>. DEFINE R == OpToRel(<, Nat)
<1>1. IsWellFoundedOn(R, Nat)
  BY NatLessThanWellFounded
<1>2. \A n, m \in Nat : n < m => <<n, m>> \in R
  BY DEF OpToRel
<1>. HIDE DEF R
<1>3. PICK m \in T : \A n \in T : <<n, m>> \notin R
  BY <1>1, WFMin
<1>4. \A n \in T : ~(n < m)
  BY <1>2, <1>3
<1>. QED
  BY <1>4

\* How many slots begin at tick cur or later of a window that ends at last.
Count(cur, last) == (last - cur + Duration - 1) \div Duration

\* A product of whole numbers grows with its factors.
LEMMA Product ==
  ASSUME NEW i \in Int, NEW j \in Int, NEW d \in Nat, i <= j
  PROVE  i * d <= j * d
OBVIOUS

LEMMA CountBounds ==
  ASSUME NEW cur \in Nat, NEW last \in Nat, cur < last
  PROVE  /\ Count(cur, last) \in Nat \ {0}
         /\ cur + (Count(cur, last) - 1) * Duration < last
         /\ last <= cur + Count(cur, last) * Duration
<1>. DEFINE x == last - cur + Duration - 1
            q == x \div Duration
            r == x % Duration
<1>1. Duration \in Nat \ {0} /\ x \in Nat /\ Duration <= x
  BY DurationAssumption
<1>2. q \in Int /\ r \in 0..(Duration - 1) /\ x = Duration * q + r
  BY <1>1
<1>3. q \in Nat \ {0}
  <2>1. SUFFICES ASSUME q <= 0 PROVE FALSE
    BY <1>2
  <2>2. q * Duration <= 0 * Duration
    BY <1>1, <1>2, <2>1, Product
  <2>. HIDE DEF q, r
  <2>. QED
    BY <1>1, <1>2, <2>2
<1>4. Count(cur, last) = q
  BY DEF Count
<1>5. (q - 1) * Duration = q * Duration - Duration /\ Duration * q = q * Duration
  BY <1>1, <1>2
<1>6. q * Duration \in Int
  BY <1>1, <1>2
<1>. HIDE DEF q, r
<1>. QED
  BY <1>1, <1>2, <1>3, <1>4, <1>5, <1>6

\* There is one such number.
LEMMA CountUnique ==
  ASSUME NEW cur \in Nat, NEW last \in Nat, cur < last, NEW n \in Int,
         cur + (n - 1) * Duration < last, last <= cur + n * Duration
  PROVE  n = Count(cur, last)
<1>. DEFINE m == Count(cur, last)
<1>1. /\ m \in Nat /\ cur + (m - 1) * Duration < last /\ last <= cur + m * Duration
      /\ Duration \in Nat \ {0}
  BY CountBounds, DurationAssumption
<1>. HIDE DEF m
<1>2. ASSUME n < m PROVE FALSE
  <2>1. n * Duration <= (m - 1) * Duration
    BY <1>1, <1>2, Product
  <2>2. n * Duration \in Int /\ (m - 1) * Duration \in Int
    BY <1>1
  <2>. QED
    BY <1>1, <2>1, <2>2
<1>3. ASSUME m < n PROVE FALSE
  <2>1. m * Duration <= (n - 1) * Duration
    BY <1>1, <1>3, Product
  <2>2. m * Duration \in Int /\ (n - 1) * Duration \in Int
    BY <1>1
  <2>. QED
    BY <1>1, <2>1, <2>2
<1>4. n = m
  BY <1>1, <1>2, <1>3
<1>. QED
  BY <1>4 DEF m

\* What the loop adds from tick cur on.
SlotsFrom(cur, last) ==
  [i \in 1..(IF cur < last THEN Count(cur, last) ELSE 0) |->
     TimeSlot(cur + (i - 1) * Duration, last)]

\* A slot, and what the loop adds after it.
LEMMA LoopStep ==
  ASSUME NEW cur \in Nat, NEW last \in Nat, cur < last
  PROVE  SlotsFrom(cur, last)
           = <<TimeSlot(cur, last)>> \o SlotsFrom(cur + Duration, last)
<1>. DEFINE next == cur + Duration
            n == Count(cur, last)
            k == IF next < last THEN Count(next, last) ELSE 0
            s == SlotsFrom(cur, last)
            t == SlotsFrom(next, last)
            All == {TimeSlot(c, last) : c \in Int}
<1>1. Duration \in Nat \ {0} /\ next \in Nat
  BY DurationAssumption
<1>2. n \in Nat \ {0} /\ cur + (n - 1) * Duration < last /\ last <= cur + n * Duration
  BY CountBounds
<1>3. k \in Nat /\ n = k + 1
  <2>1. CASE next < last
    <3>1. k = Count(next, last)
      BY <2>1
    <3>2. k \in Nat /\ next + (k - 1) * Duration < last /\ last <= next + k * Duration
      BY <1>1, <2>1, <3>1, CountBounds
    <3>. HIDE DEF k, n
    <3>3. k * Duration \in Int /\ (k - 1) * Duration = k * Duration - Duration
          /\ (k + 1) * Duration = k * Duration + Duration
      BY <1>1, <3>2
    <3>4. cur + ((k + 1) - 1) * Duration < last /\ last <= cur + (k + 1) * Duration
      BY <1>1, <3>2, <3>3
    <3>5. k + 1 = Count(cur, last)
      <4>. DEFINE j == k + 1
      <4>1. j \in Int /\ cur + (j - 1) * Duration < last /\ last <= cur + j * Duration
        BY <3>2, <3>4
      <4>. HIDE DEF j
      <4>2. j = Count(cur, last)
        BY <4>1, CountUnique
      <4>. QED
        BY <4>2 DEF j
    <3>. QED
      BY <3>2, <3>5 DEF n
  <2>2. CASE ~(next < last)
    <3>1. cur + (1 - 1) * Duration < last /\ last <= cur + 1 * Duration
      BY <1>1, <2>2
    <3>2. 1 = Count(cur, last)
      BY <3>1, CountUnique
    <3>. QED
      BY <2>2, <3>2
  <2>. QED
    BY <2>1, <2>2
<1>4. s = [i \in 1..n |-> TimeSlot(cur + (i - 1) * Duration, last)]
  BY DEF SlotsFrom
<1>5. t = [i \in 1..k |-> TimeSlot(next + (i - 1) * Duration, last)]
  BY DEF SlotsFrom
<1>. HIDE DEF n, k, s, t
<1>6. \A i \in Int : (i - 1) * Duration \in Int
  BY <1>1
<1>. DEFINE u == <<TimeSlot(cur, last)>>
<1>7. s \in Seq(All) /\ Len(s) = n
  <2>1. \A i \in 1..n : TimeSlot(cur + (i - 1) * Duration, last) \in All
    BY <1>6
  <2>. HIDE DEF All
  <2>. QED
    BY <1>2, <1>4, <2>1
<1>8. t \in Seq(All) /\ Len(t) = k
  <2>1. \A i \in 1..k : TimeSlot(next + (i - 1) * Duration, last) \in All
    BY <1>1, <1>6
  <2>. HIDE DEF All
  <2>. QED
    BY <1>3, <1>5, <2>1
<1>9. u \in Seq(All) /\ Len(u) = 1 /\ u[1] = TimeSlot(cur, last)
  <2>1. TimeSlot(cur, last) \in All
    OBVIOUS
  <2>. HIDE DEF All
  <2>. QED
    BY <2>1
<1>. HIDE DEF All, u
<1>10. /\ u \o t \in Seq(All) /\ Len(u \o t) = 1 + k
       /\ \A i \in 1..(1 + k) : (u \o t)[i] = IF i <= 1 THEN u[i] ELSE t[i - 1]
  <2>1. /\ u \o t \in Seq(All) /\ Len(u \o t) = Len(u) + Len(t)
        /\ \A i \in 1..(Len(u) + Len(t)) :
             (u \o t)[i] = IF i <= Len(u) THEN u[i] ELSE t[i - Len(u)]
    BY <1>8, <1>9, ConcatProperties
  <2>. QED
    BY <1>8, <1>9, <2>1
<1>11. \A i \in 1..n : s[i] = (u \o t)[i]
  <2>1. TAKE i \in 1..n
  <2>2. s[i] = TimeSlot(cur + (i - 1) * Duration, last)
    BY <1>4
  <2>3. CASE i = 1
    <3>1. cur + (1 - 1) * Duration = cur
      BY <1>1
    <3>. QED
      BY <1>3, <1>9, <1>10, <2>2, <2>3, <3>1
  <2>4. CASE i > 1
    <3>1. i - 1 \in 1..k /\ i \in 1..(1 + k) /\ ~(i <= 1)
      BY <1>2, <1>3, <2>4
    <3>2. (u \o t)[i] = t[i - 1]
      BY <1>10, <3>1
    <3>3. t[i - 1] = TimeSlot(next + ((i - 1) - 1) * Duration, last)
      BY <1>5, <3>1
    <3>4. next + ((i - 1) - 1) * Duration = cur + (i - 1) * Duration
      BY <1>1, <1>2
    <3>. QED
      BY <2>2, <3>2, <3>3, <3>4
  <2>5. i = 1 \/ i > 1
    BY <1>2
  <2>. QED
    BY <2>3, <2>4, <2>5
<1>12. s = u \o t
  BY <1>3, <1>7, <1>10, <1>11, SeqEqual
<1>. QED
  BY <1>12 DEF s, t, u

\* The recursive function of buildTimeSlots.
Loop(f, last) ==
  f = [cur \in Nat |->
         IF cur < last THEN <<TimeSlot(cur, last)>> \o f[cur + Duration] ELSE <<>>]

LEMMA LoopExists ==
  ASSUME NEW last \in Nat
  PROVE  Loop([cur \in Nat |-> SlotsFrom(cur, last)], last)
<1>. DEFINE g == [cur \in Nat |-> SlotsFrom(cur, last)]
<1>1. SUFFICES ASSUME NEW cur \in Nat
      PROVE SlotsFrom(cur, last)
              = IF cur < last THEN <<TimeSlot(cur, last)>> \o g[cur + Duration] ELSE <<>>
  BY DEF Loop
<1>2. cur + Duration \in Nat
  BY DurationAssumption
<1>3. CASE cur < last
  BY <1>2, <1>3, LoopStep
<1>4. CASE ~(cur < last)
  <2>1. SlotsFrom(cur, last) = [i \in 1..0 |-> TimeSlot(cur + (i - 1) * Duration, last)]
    BY <1>4 DEF SlotsFrom
  <2>2. 1..0 = {}
    OBVIOUS
  <2>. QED
    BY <1>4, <2>1, <2>2
<1>. QED
  BY <1>3, <1>4

\* There is one such function: where two of them last differ, the steps after
\* agree.
LEMMA LoopUnique ==
  ASSUME NEW last \in Nat, NEW f, NEW g, Loop(f, last), Loop(g, last)
  PROVE  \A cur \in Nat : f[cur] = g[cur]
<1>1. SUFFICES ASSUME NEW c \in Nat, f[c] # g[c] PROVE FALSE
  OBVIOUS
<1>2. \A cur \in Nat :
        /\ cur < last => /\ f[cur] = <<TimeSlot(cur, last)>> \o f[cur + Duration]
                         /\ g[cur] = <<TimeSlot(cur, last)>> \o g[cur + Duration]
        /\ ~(cur < last) => f[cur] = <<>> /\ g[cur] = <<>>
  BY DEF Loop
<1>. DEFINE Left == {last - cur : cur \in {d \in Nat : d < last /\ f[d] # g[d]}}
<1>3. Left \in SUBSET Nat /\ Left # {}
  <2>1. c < last
    BY <1>1, <1>2
  <2>. QED
    BY <1>1, <2>1
<1>4. PICK m \in Left : \A n \in Left : m <= n
  <2>. HIDE DEF Left
  <2>. QED
    BY <1>3, Least
<1>5. PICK cur \in Nat : cur < last /\ f[cur] # g[cur] /\ m = last - cur
  OBVIOUS
<1>6. cur + Duration \in Nat /\ last - (cur + Duration) < m
  BY <1>5, DurationAssumption
<1>7. f[cur + Duration] = g[cur + Duration]
  <2>1. CASE cur + Duration < last
    <3>1. last - (cur + Duration) \notin Left
      <4>. HIDE DEF Left
      <4>. QED
        BY <1>3, <1>4, <1>5, <1>6
    <3>. QED
      BY <1>6, <2>1, <3>1
  <2>. QED
    BY <1>2, <1>6, <2>1
<1>. QED
  BY <1>2, <1>5, <1>7

\* The loop in closed form.
LEMMA BuildsSlots ==
  ASSUME NEW start \in Nat, NEW end \in Nat
  PROVE  BuildTimeSlots(start, end)
           = IF end > start THEN SlotsFrom(start * Grain, end * Grain) ELSE <<>>
<1>. DEFINE last == end * Grain
            from == CHOOSE f : Loop(f, last)
            g == [cur \in Nat |-> SlotsFrom(cur, last)]
<1>1. last \in Nat /\ start * Grain \in Nat
  BY DurationAssumption
<1>2. Loop(g, last)
  BY <1>1, LoopExists
<1>3. Loop(from, last)
  <2>. HIDE DEF g, last
  <2>. QED
    BY <1>2
<1>4. from[start * Grain] = g[start * Grain]
  <2>. HIDE DEF from, g, last
  <2>. QED
    BY <1>1, <1>2, <1>3, LoopUnique
<1>5. BuildTimeSlots(start, end)
        = IF end > start THEN from[start * Grain] ELSE <<>>
  BY DEF BuildTimeSlots, Loop
<1>. QED
  BY <1>1, <1>4, <1>5

\* The slots of a window tile it.
LEMMA SlotsTile ==
  ASSUME NEW start \in Nat, NEW end \in Nat
  PROVE  Tiles(start, end)
<1>. DEFINE first == start * Grain
            last == end * Grain
            s == BuildTimeSlots(start, end)
            n == Len(s)
            At(i) == first + (i - 1) * Duration
            m == Count(first, last)
<1>1. /\ first \in Nat /\ last \in Nat /\ Duration \in Nat \ {0} /\ Grain \in Nat \ {0}
      /\ start < end <=> first < last
  <2>1. Grain \in Nat \ {0} /\ Duration \in Nat \ {0} /\ first \in Nat /\ last \in Nat
    BY DurationAssumption
  <2>2. start < end => (start + 1) * Grain <= last
    BY <2>1, Product
  <2>3. (start + 1) * Grain = first + Grain
    BY <2>1
  <2>4. end <= start => last <= first
    BY <2>1, Product
  <2>. HIDE DEF first, last
  <2>. QED
    BY <2>1, <2>2, <2>3, <2>4
<1>2. Format(first) = start /\ Format(last) = end
  BY <1>1 DEF Format
<1>3. CASE ~(start < end)
  <2>1. s = <<>> /\ n = 0
    BY <1>3, BuildsSlots
  <2>2. Slots(start, end) = {}
    <3>1. SUFFICES ASSUME NEW k \in 0..(last - first), first + k * Duration < last
          PROVE FALSE
      BY DEF Slots
    <3>2. k * Duration \in Nat
      BY <1>1
    <3>. HIDE DEF first, last
    <3>. QED
      BY <1>1, <1>3, <3>1, <3>2
  <2>. HIDE DEF s
  <2>. QED
    BY <1>3, <2>1, <2>2 DEF Tiles, s
<1>4. CASE start < end
  <2>1. /\ m \in Nat \ {0} /\ first + (m - 1) * Duration < last
        /\ last <= first + m * Duration
    BY <1>1, <1>4, CountBounds
  <2>2. s = [i \in 1..m |-> TimeSlot(At(i), last)]
    BY <1>1, <1>4, BuildsSlots DEF SlotsFrom
  <2>3. n = m
    <3>. HIDE DEF m
    <3>. QED
      BY <2>1, <2>2
  <2>4. \A i \in 1..m : s[i] = TimeSlot(At(i), last)
    <3>. HIDE DEF m
    <3>. QED
      BY <2>2
  <2>. HIDE DEF m, s, first, last
  <2>5. \A i \in Int : (i - 1) * Duration \in Int /\ i * Duration = (i - 1) * Duration + Duration
    BY <1>1
  <2>6. \A i \in Nat : first + i * Duration < last <=> i <= m - 1
    <3>1. TAKE i \in Nat
    <3>2. i <= m - 1 => i * Duration <= (m - 1) * Duration
      BY <1>1, <2>1, Product
    <3>3. m <= i => m * Duration <= i * Duration
      BY <1>1, <2>1, Product
    <3>4. /\ i * Duration \in Int /\ m * Duration \in Int /\ (m - 1) * Duration \in Int
      BY <1>1, <2>1
    <3>. QED
      BY <1>1, <2>1, <3>2, <3>3, <3>4
  <2>7. {s[i] : i \in 1..m} = Slots(start, end)
    <3>1. Slots(start, end)
            = {TimeSlot(cur, last) :
                 cur \in {t \in {first + k * Duration : k \in 0..(last - first)} : t < last}}
      BY DEF Slots, first, last
    <3>2. ASSUME NEW i \in 1..m PROVE s[i] \in Slots(start, end)
      <4>1. i - 1 \in Nat /\ i - 1 <= m - 1
        BY <2>1
      <4>2. first + (i - 1) * Duration < last
        BY <2>6, <4>1
      <4>3. (i - 1) * 1 <= (i - 1) * Duration
        BY <1>1, <4>1
      <4>4. i - 1 \in 0..(last - first)
        BY <1>1, <2>5, <4>1, <4>2, <4>3
      <4>. QED
        BY <2>4, <3>1, <4>2, <4>4
    <3>3. ASSUME NEW k \in 0..(last - first), first + k * Duration < last
          PROVE  TimeSlot(first + k * Duration, last) \in {s[i] : i \in 1..m}
      <4>1. k \in Nat /\ k <= m - 1
        BY <1>1, <2>6, <3>3
      <4>2. k + 1 \in 1..m /\ (k + 1) - 1 = k
        BY <2>1, <4>1
      <4>3. s[k + 1] = TimeSlot(first + k * Duration, last)
        BY <2>4, <4>2
      <4>. QED
        BY <4>2, <4>3
    <3>. QED
      BY <3>1, <3>2, <3>3
  <2>8. s[1].start = start
    <3>1. 1 \in 1..m /\ At(1) = first
      BY <1>1, <2>1
    <3>2. s[1] = TimeSlot(first, last)
      BY <2>4, <3>1
    <3>. QED
      BY <1>2, <3>2 DEF TimeSlot
  <2>9. s[m].end = end
    <3>1. s[m] = TimeSlot(At(m), last) /\ m \in Int
      BY <2>1, <2>4
    <3>2. At(m) + Duration = first + m * Duration /\ At(m) + Duration \in Int
      BY <1>1, <2>5, <3>1
    <3>3. (IF At(m) + Duration > last THEN last ELSE At(m) + Duration) = last
      BY <1>1, <2>1, <3>2
    <3>. QED
      BY <1>2, <3>1, <3>3 DEF TimeSlot
  <2>10. \A i \in 1..(m - 1) : s[i].end = s[i + 1].start
    <3>1. TAKE i \in 1..(m - 1)
    <3>2. i \in 1..m /\ i + 1 \in 1..m /\ i \in Nat /\ i <= m - 1
      BY <2>1
    <3>3. s[i] = TimeSlot(At(i), last) /\ s[i + 1] = TimeSlot(At(i + 1), last)
      BY <2>4, <3>2
    <3>4. At(i + 1) = first + i * Duration /\ At(i) + Duration = first + i * Duration
          /\ first + i * Duration \in Int
      BY <1>1, <2>5, <3>2
    <3>5. first + i * Duration < last
      BY <2>6, <3>2
    <3>6. (IF At(i) + Duration > last THEN last ELSE At(i) + Duration) = At(i + 1)
      BY <1>1, <3>4, <3>5
    <3>. QED
      BY <3>3, <3>6 DEF TimeSlot
  <2>11. /\ {s[i] : i \in 1..n} = Slots(start, end)
         /\ start < end <=> n > 0
         /\ n > 0 => s[1].start = start /\ s[n].end = end
         /\ \A i \in 1..(n - 1) : s[i].end = s[i + 1].start
    BY <1>4, <2>1, <2>3, <2>7, <2>8, <2>9, <2>10
  <2>. QED
    BY <2>11 DEF Tiles, s
<1>. QED
  BY <1>3, <1>4

-----------------------------------------------------------------------------
\* Every column and local variable keeps its type.
THEOREM TypeCorrectness == Spec => []TypeOK
<1>1. IInv => TypeOK
  BY DEF IInv
<1>. QED
  BY <1>1, InitIInv, NextIInv, PTL DEF Spec

\* The area that searches use is always that of a polygon the profile shows.
THEOREM AreaSafety == Spec => []AreaKeepsVertices
<1>1. IInv => AreaKeepsVertices
  BY DEF IInv, ProfileInv
<1>. QED
  BY <1>1, InitIInv, NextIInv, PTL DEF Spec

\* Accepted pickups overlap only across opening times that differ by other than
\* whole slots, for every slot duration and any working hours.
THEOREM ScheduleSafety == Spec => []DisjointOnGrid
<1>1. IInv => DisjointOnGrid
  <2>. SUFFICES ASSUME IInv, NEW a \in Bookings, NEW b \in Bookings,
                       a # b, status[a] = "accepted", status[b] = "accepted",
                       SameGrid(slot[a].opened, slot[b].opened)
                PROVE  slot[a].end <= slot[b].start \/ slot[b].end <= slot[a].start
    BY DEF DisjointOnGrid
  <2>1. slot[a] \in SlotType /\ slot[b] \in SlotType /\ slot[a].start # slot[b].start
        /\ OnGrid(slot[a]) /\ OnGrid(slot[b])
    BY DEF IInv, TypeOK, SlotsOK, AcceptedOK
  <2>. QED
    BY <2>1, GridDisjoint
<1>. QED
  BY <1>1, InitIInv, NextIInv, PTL DEF Spec

\* The slots that buildTimeSlots offers tile the working hours, whatever updates of the
\* profile made them: every opening and closing time, and every slot duration.
THEOREM TilingSafety == Spec => []SlotsTileHours
<1>1. IInv => SlotsTileHours
  <2>. SUFFICES ASSUME IInv PROVE Tiles(hours.start, hours.end)
    BY DEF SlotsTileHours
  <2>1. hours.start \in Nat /\ hours.end \in Nat
    BY TimesAssumption DEF IInv, TypeOK, ProfileTypeOK
  <2>. QED
    BY <2>1, SlotsTile
<1>. QED
  BY <1>1, InitIInv, NextIInv, PTL DEF Spec
=============================================================================
