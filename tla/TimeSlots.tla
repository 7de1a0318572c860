------------------------------- MODULE TimeSlots -------------------------------
(***************************************************************************)
(* The time slots of a working window (buildTimeSlots of                   *)
(* src/internal/service/partner_service.go, slotIsValid of                 *)
(* src/internal/service/booking_service.go). A time of day is a whole      *)
(* number of minutes; the slot duration need not be one, so the loop runs  *)
(* in ticks, Grain of which make a minute.                                 *)
(***************************************************************************)
EXTENDS Integers, Sequences

CONSTANTS
  Grain,    \* ticks of a minute
  Duration  \* slotDuration, in ticks

ASSUME DurationAssumption == Grain \in Nat \ {0} /\ Duration \in Nat \ {0}

\* time.Format("15:04") drops what is below the minute.
Format(t) == t \div Grain

\* The slot that begins at tick cur of a window that ends at tick last.
TimeSlot(cur, last) ==
  LET next == cur + Duration IN
  [start |-> Format(cur), end |-> Format(IF next > last THEN last ELSE next)]

\* A slot that touches the end of the window is left out.
FaultyBuildTimeSlots(start, end) ==
  LET last == end * Grain
      from[cur \in Nat] ==
        IF cur + Duration < last
        THEN <<TimeSlot(cur, last)>> \o from[cur + Duration] ELSE <<>>
  IN IF end > start THEN from[start * Grain] ELSE <<>>

\* The loop of buildTimeSlots.
BuildTimeSlots(start, end) ==
  LET last == end * Grain
      from[cur \in Nat] ==
        IF cur < last THEN <<TimeSlot(cur, last)>> \o from[cur + Duration] ELSE <<>>
  IN IF end > start THEN from[start * Grain] ELSE <<>>

\* The same slots without the loop.
Slots(start, end) ==
  LET last == end * Grain
      ticks == {start * Grain + k * Duration : k \in 0..(last - start * Grain)}
  IN {TimeSlot(cur, last) : cur \in {t \in ticks : t < last}}

-----------------------------------------------------------------------------
\* The slots of a window, in their order, tile it: they begin and end with it and
\* each begins when the one before it ends; and they are those of Slots.
Tiles(start, end) ==
  LET s == BuildTimeSlots(start, end) n == Len(s) IN
  /\ {s[i] : i \in 1..n} = Slots(start, end)
  /\ start < end <=> n > 0
  /\ n > 0 => s[1].start = start /\ s[n].end = end
  /\ \A i \in 1..(n - 1) : s[i].end = s[i + 1].start
=============================================================================
