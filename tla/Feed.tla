--------------------------------- MODULE Feed ---------------------------------
(***************************************************************************)
(* What customers and partners read while others write: lists, page by     *)
(* page, and the home page of a partner                                    *)
(* (src/internal/service/home_service.go).                                 *)
(*                                                                         *)
(* A behaviour is about one list. Addresses are those of module Address,   *)
(* statement by statement; the entries of the other lists are written by   *)
(* calls of one statement, or by calls that modules Booking, Subscription  *)
(* and Account take apart, and are written in one step here. A list holds  *)
(* what its WHERE admits for one customer, partner or place. created_at is *)
(* read from the clock before the INSERT, so newer entries may come in     *)
(* before older ones: it is any time.                                      *)
(***************************************************************************)
EXTENDS Address, Paging

CONSTANTS
  Entries,  \* of the lists other than addresses (bounds their number)
  Lists     \* that behaviours are about

Statuses ==
  {"unread", "read", "rated", "active", "hidden", "listed", "pending", "accepted",
   "completed", "over"}

ASSUME EntriesAssumption ==
  None \notin Entries /\ None \notin [key : Nat, status : Statuses]
ASSUME BoundsAssumption == IsFiniteSet(Ids) /\ IsFiniteSet(Entries)

VARIABLES
  list,   \* what this behaviour is about
  filter, \* status that a list of bookings is restricted to, or None
  entry,  \* the entries: None or [key, status]; key is created_at or the slot
  home    \* the home page that is put together, and what it has read so far

about == <<list, filter>>
vars == <<avars, reader, about, entry, home>>

OfBookings == {"bookings", "home"}
Known == {e \in Entries : entry[e] # None}
With(status) == {e \in Known : entry[e].status = status}

\* held: bookings that are accepted when the partner asks for the page.
NoHome ==
  [step |-> 0, next |-> None, held |-> {}, pickups |-> {}, weighed |-> {}]

\* The pickups are counted and weighed first.
FaultyQueries == <<"pickups", "weight", "next">>

\* NextForPartner, and the two statements of StatsByPartner: the number of pickups,
\* and their weight and what was paid for them.
Queries == <<"next", "pickups", "weight">>

Init ==
  /\ AddressInit
  /\ reader = NoReader /\ home = NoHome
  /\ list \in Lists
  /\ filter \in IF list \in OfBookings THEN {None, "accepted"} ELSE {None}
  /\ entry = [e \in Entries |-> None]

-----------------------------------------------------------------------------
\* The lists: which entries, in which order.

Newest(S) == {[id |-> e, rank |-> -entry[e].key] : e \in S}
Nearest(S) == {[id |-> e, rank |-> entry[e].key] : e \in S}
Filtered == IF filter = None THEN Known ELSE With(filter)

\* One customer's.
ListByUser ==
  {[id |-> i, rank |-> -rows[i].created] : i \in UNION {Of(u) : u \in Users}}
ListByRecipient == Newest(Known)
ListRatings == Newest(Known)
ListReceivedByPartner == Newest(Known)
ListByPartner == Newest(Known)
ListTransactions == Newest(Known)
BookingsByUser == Nearest(Filtered)
BookingsByPartner == Nearest(Filtered)
SearchByLocation == Newest(With("listed"))

View ==
  CASE list = "addresses" -> ListByUser
    [] list = "notifications" -> ListByRecipient
    [] list = "ratings" -> ListRatings
    [] list = "subscriptions" -> ListByPartner
    [] list \in OfBookings -> BookingsByUser
    [] list = "partners" -> SearchByLocation

ReadPage(l) ==
  /\ BeginPaging(l) \/ Count(l) \/ Find(l)
  /\ UNCHANGED <<avars, about, entry, home>>

\* List of the services: for addresses, notifications, the ratings that a customer
\* and a partner got, ...
ListAddresses == list = "addresses" /\ ReadPage(ListByUser)
ListNotifications == list = "notifications" /\ ReadPage(ListByRecipient)
ListForUser == list = "ratings" /\ ReadPage(ListRatings)
ListForPartner == list = "ratings" /\ ReadPage(ListReceivedByPartner)
ListSubscriptions == list = "subscriptions" /\ ReadPage(ListByPartner)
ListBills == list = "subscriptions" /\ ReadPage(ListTransactions)
ListBookings == list = "bookings" /\ ReadPage(BookingsByUser)
ListRequests == list = "bookings" /\ ReadPage(BookingsByPartner)
SearchPartners == list = "partners" /\ ReadPage(SearchByLocation)

-----------------------------------------------------------------------------
\* What is written meanwhile.

Set(e, key, status) == entry' = [entry EXCEPT ![e] = [key |-> key, status |-> status]]
Become(e, status) == entry' = [entry EXCEPT ![e].status = status]

\* Nothing is written between the end of a reading and the next one.
Reading == reader.pc # "done" /\ home.step # Len(Queries) + 1

Write(moved) ==
  /\ Reading
  /\ UNCHANGED <<avars, about, home>>
  /\ Watch(View, View', moved)

Created(e, status) ==
  /\ e \notin Known
  /\ \E at \in 0..MaxTime : Set(e, at, status)
  /\ Write(FALSE)

Notify(e) == list = "notifications" /\ Created(e, "unread")

MarkRead(e) ==
  /\ list = "notifications" /\ e \in Known
  /\ Become(e, "read") /\ Write(FALSE)

\* A rating given again is a new one.
FaultyUpsert(e) == (\E at \in 0..MaxTime : Set(e, at, "rated")) /\ Write(FALSE)

\* The first rating of one by another is inserted, a later one overwrites its
\* score and leaves created_at.
Upsert(e) ==
  \/ Created(e, "rated")
  \/ e \in Known /\ Become(e, "rated") /\ Write(FALSE)

\* By a customer, or by a partner.
Rate(e) == list = "ratings" /\ Upsert(e)

Subscribe(e) == list = "subscriptions" /\ Created(e, "active")

\* A partner registers, and later is verified or serves another area.
Join(e) == list = "partners" /\ Created(e, "hidden")
Relist(e) ==
  /\ list = "partners" /\ e \in Known
  /\ \E s \in {"hidden", "listed"} : Become(e, s)
  /\ Write(FALSE)

Book(e) ==
  /\ list \in OfBookings /\ e \notin Known
  /\ \E slot \in 0..MaxTime : Set(e, slot, "pending")
  /\ Write(FALSE)

\* Update gives a pending booking another slot.
Reschedule(e) ==
  /\ list \in OfBookings /\ e \in With("pending")
  /\ \E slot \in 0..MaxTime : Set(e, slot, "pending")
  /\ Write(e \in Names(View) /\ entry'[e] # entry[e])

Accept(e) ==
  /\ list \in OfBookings /\ e \in With("pending")
  /\ Become(e, "accepted") /\ Write(FALSE)

Complete(e) ==
  /\ list \in OfBookings /\ e \in With("accepted")
  /\ Become(e, "completed") /\ Write(FALSE)

\* Or Reject, or CancelByPartner.
Cancel(e) ==
  /\ list \in OfBookings /\ e \in With("pending") \cup With("accepted")
  /\ Become(e, "over") /\ Write(FALSE)

\* A statement on addresses, or the clock.
AddressStep ==
  /\ list = "addresses" /\ Reading
  /\ AddressNext
  /\ UNCHANGED <<about, entry, home>>
  /\ Watch(View, View', FALSE)

-----------------------------------------------------------------------------
\* The home page of a partner: queries, one after the other. What it reads of the
\* profile, the ratings, the subscription and the notifications is left out.

Home(h) == home' = h /\ UNCHANGED <<avars, reader, about, entry>>
Query(name, h) ==
  /\ home.step \in DOMAIN Queries /\ Queries[home.step] = name
  /\ Home([h EXCEPT !.step = home.step + 1])

HomeForPartner ==
  /\ list = "home" /\ home.step = 0
  /\ Home([NoHome EXCEPT !.step = 1, !.held = With("accepted")])

\* One of the nearest accepted bookings; ErrNotFound is no error.
NextForPartner ==
  \/ With("accepted") = {} /\ Query("next", home)
  \/ \E e \in With("accepted") :
       /\ \A f \in With("accepted") : entry[e].key <= entry[f].key
       /\ Query("next", [home EXCEPT !.next = e])

CountPickups == Query("pickups", [home EXCEPT !.pickups = With("completed")])
SumWeight == Query("weight", [home EXCEPT !.weighed = With("completed")])

Done ==
  \/ EndPaging /\ UNCHANGED <<avars, about, entry, home>>
  \/ home.step = Len(Queries) + 1 /\ Home(NoHome)

Next ==
  \/ AddressStep \/ Done
  \/ \E e \in Entries :
       \/ Notify(e) \/ MarkRead(e) \/ Rate(e) \/ Subscribe(e) \/ Join(e) \/ Relist(e)
       \/ Book(e) \/ Reschedule(e) \/ Accept(e) \/ Complete(e) \/ Cancel(e)
  \/ ListAddresses \/ ListNotifications \/ ListForUser \/ ListForPartner
  \/ ListSubscriptions \/ ListBills \/ ListBookings \/ ListRequests \/ SearchPartners
  \/ HomeForPartner \/ NextForPartner \/ CountPickups \/ SumWeight

Spec == Init /\ [][Next]_vars

-----------------------------------------------------------------------------
\* Properties.

TypeOK ==
  /\ AddressTypeOK
  /\ list \in Lists
  /\ entry \in [Entries -> [key : Nat, status : Statuses] \cup {None}]
  /\ reader.pc \in {"idle", "count", "find", "done"}
  /\ reader.seen \subseteq Ids \cup Entries /\ reader.owed \subseteq Ids \cup Entries
  /\ home.step \in 0..(Len(Queries) + 1)

\* A client that asks for page after page until total_pages has seen every entry
\* that was there when it began, unless meanwhile an entry left the list or
\* moved in it, one came in after the last page was counted and before it was
\* selected, or two entries have the same created_at or slot. Entries that come
\* in, and updates of any entry, do it no harm.
NothingSkipped ==
  reader.pc = "done" /\ ~(reader.left \/ reader.late)
    => reader.owed \subseteq reader.seen

\* It sees an entry twice only if one came in or moved, or two have the same rank.
NothingTwice == reader.twice => reader.came

\* Every booking that was accepted when the partner asked for the home page, and
\* has not been cancelled, is in it although it is put together from several
\* queries: it is the next pickup, or comes after it, or is among the pickups
\* counted; and the weight shown is that of at least the pickups counted.
HomeLosesNothing ==
  home.step > Len(Queries) =>
    /\ home.pickups \subseteq home.weighed
    /\ \A e \in home.held \ With("over") :
         \/ home.next # None /\ entry[home.next].key <= entry[e].key
         \/ e \in home.pickups
=============================================================================
