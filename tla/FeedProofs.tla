------------------------------ MODULE FeedProofs ------------------------------
(***************************************************************************)
(* Proofs about module Feed, for any number of rows, entries, requests and *)
(* page sizes: that reading leaves the addresses as module Address has     *)
(* them, that the home page loses no booking, and what a client that goes  *)
(* from page to page may miss or see twice.                                *)
(***************************************************************************)
EXTENDS Feed, AddressProofs, PagingProofs

\* Feed implements Address: whatever is read, addresses change by its steps only.
THEOREM FeedRefines == Spec => AddressSpec
<1>1. Init => AddressInit
  BY DEF Init
<1>2. [Next]_vars => [AddressNext]_avars
  <2>1. CASE AddressStep
    BY <2>1 DEF AddressStep
  <2>2. CASE Done
    BY <2>2 DEF Done, Home
  <2>3. CASE \E e \in Entries :
          \/ Notify(e) \/ MarkRead(e) \/ Rate(e) \/ Subscribe(e) \/ Join(e) \/ Relist(e)
          \/ Book(e) \/ Reschedule(e) \/ Accept(e) \/ Complete(e) \/ Cancel(e)
    BY <2>3 DEF Notify, MarkRead, Rate, Upsert, Subscribe, Join, Relist, Book, Reschedule,
       Accept, Complete, Cancel, Created, Write
  <2>4. CASE ListAddresses \/ ListNotifications \/ ListForUser \/ ListForPartner
             \/ ListSubscriptions \/ ListBills \/ ListBookings \/ ListRequests \/ SearchPartners
    BY <2>4 DEF ListAddresses, ListNotifications, ListForUser, ListForPartner,
       ListSubscriptions, ListBills, ListBookings, ListRequests, SearchPartners, ReadPage
  <2>5. CASE HomeForPartner \/ NextForPartner \/ CountPickups \/ SumWeight
    BY <2>5 DEF HomeForPartner, NextForPartner, CountPickups, SumWeight, Query, Home
  <2>6. CASE UNCHANGED vars
    BY <2>6 DEF vars
  <2>. QED
    BY <2>1, <2>2, <2>3, <2>4, <2>5, <2>6 DEF Next
<1>. QED
  BY <1>1, <1>2, PTL DEF Spec, AddressSpec

\* A partner has one store address from the registration on.
THEOREM StoreAddressKept == Spec => []OneStoreAddress
BY FeedRefines, StoreAddress, PTL

\* A deleted address that no Update has read never comes back.
THEOREM DeletedAddressGone == Spec => GoneForGood
BY FeedRefines, DeletedAddress, PTL
-----------------------------------------------------------------------------
\* The home page.

EntriesOK == entry \in [Entries -> [key : Nat, status : Statuses] \cup {None}]

\* Bookings that have been accepted keep their slot.
Settled == With("accepted") \cup With("completed") \cup With("over")

\* The next pickup is no later than e.
NextCovers(e) ==
  home.next \in Settled /\ entry[home.next].key <= entry[e].key

Homes ==
  [step : 0..4, next : Entries \cup {None}, held : SUBSET Entries,
   pickups : SUBSET Entries, weighed : SUBSET Entries]

\* What has been read by each query: once the next pickup is known, it covers
\* those held that are still accepted, and once the pickups are counted, all those
\* that are not among them.
HomeOK ==
  /\ home \in Homes
  /\ home.step # 0 => list = "home" /\ home.held \subseteq Settled
  /\ home.step = 2 => \A e \in home.held : e \in With("accepted") => NextCovers(e)
  /\ home.step > 2 =>
       /\ home.pickups \subseteq With("completed")
       /\ \A e \in home.held \ With("over") : NextCovers(e) \/ e \in home.pickups
  /\ home.step > 3 => home.pickups \subseteq home.weighed

LEMMA QueriesFacts ==
  /\ Len(Queries) = 3 /\ DOMAIN Queries = {1, 2, 3}
  /\ Queries[1] = "next" /\ Queries[2] = "pickups" /\ Queries[3] = "weight"
BY DEF Queries

\* The initial state.
LEMMA InitHome == Init => EntriesOK /\ HomeOK
<1>1. NoHome \in Homes /\ NoHome.step = 0
  BY DEF NoHome, Homes
<1>. QED
  BY <1>1 DEF Init, EntriesOK, HomeOK

\* An entry that is written is an entry.
LEMMA EntryType ==
  ASSUME NEW k \in Nat, NEW s \in Statuses
  PROVE  [key |-> k, status |-> s] # None
BY EntriesAssumption

\* Entry e is written, and if it is an accepted booking it is over or completed then.
Moves(e) ==
  \E status \in Statuses, key \in Nat :
    /\ entry' = [entry EXCEPT ![e] = [key |-> key, status |-> status]]
    /\ list = "home" /\ e \in Settled =>
         /\ e \in With("accepted") /\ key = entry[e].key
         /\ status \in {"completed", "over"}

\* What is written meanwhile.
LEMMA EntryStep ==
  ASSUME EntriesOK, NEW e \in Entries,
         \/ Notify(e) \/ MarkRead(e) \/ Rate(e) \/ Subscribe(e) \/ Join(e) \/ Relist(e)
         \/ Book(e) \/ Reschedule(e) \/ Accept(e) \/ Complete(e) \/ Cancel(e)
  PROVE  Moves(e) /\ UNCHANGED <<list, home>>
<1>1. UNCHANGED <<list, home>>
  BY DEF Notify, MarkRead, Rate, Upsert, Subscribe, Join, Relist, Book, Reschedule,
     Accept, Complete, Cancel, Created, Write, about
<1>2. 0..MaxTime \subseteq Nat
  BY AddressAssumption
<1>3. ASSUME NEW status \in Statuses, e \in Known, Become(e, status)
      PROVE  /\ entry' = [entry EXCEPT ![e] = [key |-> entry[e].key, status |-> status]]
             /\ entry[e].key \in Nat
  <2>1. entry[e] \in [key : Nat, status : Statuses] /\ DOMAIN entry = Entries
    BY <1>3 DEF Known, EntriesOK
  <2>2. [entry[e] EXCEPT !.status = status] = [key |-> entry[e].key, status |-> status]
    BY <2>1
  <2>3. entry' = [entry EXCEPT ![e] = [entry[e] EXCEPT !.status = status]]
    BY <1>3, Zenon DEF Become
  <2>. QED
    BY <2>1, <2>2, <2>3
<1>4. ASSUME NEW status \in Statuses, NEW key \in 0..MaxTime, Set(e, key, status)
      PROVE  entry' = [entry EXCEPT ![e] = [key |-> key, status |-> status]] /\ key \in Nat
  BY <1>2, <1>4 DEF Set
<1>5. CASE Notify(e) \/ MarkRead(e) \/ Rate(e) \/ Subscribe(e) \/ Join(e) \/ Relist(e)
  <2>1. list # "home"
    BY <1>5 DEF Notify, MarkRead, Rate, Subscribe, Join, Relist
  <2>2. \/ \E status \in Statuses, key \in 0..MaxTime : Set(e, key, status)
        \/ \E status \in Statuses : e \in Known /\ Become(e, status)
    BY <1>5 DEF Notify, MarkRead, Rate, Upsert, Subscribe, Join, Relist, Created, Statuses
  <2>. QED
    BY <1>1, <1>3, <1>4, <2>1, <2>2 DEF Moves
<1>6. CASE Book(e) \/ Reschedule(e)
  <2>1. e \notin Settled
    BY <1>6 DEF Book, Reschedule, Settled, With
  <2>2. \E key \in 0..MaxTime : Set(e, key, "pending")
    BY <1>6 DEF Book, Reschedule
  <2>. QED
    BY <1>1, <1>4, <2>1, <2>2 DEF Moves, Statuses
<1>7. CASE Accept(e)
  <2>1. e \in Known /\ e \notin Settled /\ Become(e, "accepted")
    BY <1>7 DEF Accept, Settled, With
  <2>. QED
    BY <1>1, <1>3, <2>1 DEF Moves, Statuses
<1>8. CASE Complete(e) \/ Cancel(e)
  <2>1. /\ e \in Known
        /\ e \in Settled => e \in With("accepted")
        /\ \E status \in {"completed", "over"} : Become(e, status)
    BY <1>8 DEF Complete, Cancel, Settled, With
  <2>. QED
    <3>1. PICK status \in {"completed", "over"} : Become(e, status)
      BY <2>1
    <3>2. entry[e].key \in Nat /\ status \in Statuses
          /\ entry' = [entry EXCEPT ![e] = [key |-> entry[e].key, status |-> status]]
      BY <1>3, <2>1, <3>1 DEF Statuses
    <3>. QED
      BY <1>1, <2>1, <3>2 DEF Moves
<1>. QED
  BY <1>5, <1>6, <1>7, <1>8

\* It does not disturb what the home page has read.
LEMMA MovesHome ==
  ASSUME EntriesOK, HomeOK, NEW e \in Entries, Moves(e), UNCHANGED <<list, home>>
  PROVE  EntriesOK' /\ HomeOK'
<1>1. PICK status \in Statuses, key \in Nat :
        /\ entry' = [entry EXCEPT ![e] = [key |-> key, status |-> status]]
        /\ list = "home" /\ e \in Settled =>
             /\ e \in With("accepted") /\ key = entry[e].key
             /\ status \in {"completed", "over"}
  BY DEF Moves
<1>2. EntriesOK'
  BY <1>1 DEF EntriesOK
<1>3. /\ entry'[e] = [key |-> key, status |-> status] /\ entry'[e] # None
      /\ \A f \in Entries : f # e => entry'[f] = entry[f]
  BY <1>1, EntryType DEF EntriesOK
<1>4. CASE home.step = 0
  BY <1>2, <1>4 DEF HomeOK
<1>5. CASE home.step # 0
  <2>1. list = "home"
    BY <1>5 DEF HomeOK
  <2>2. \A f \in Entries :
          /\ f \in Settled => f \in Settled' /\ entry'[f].key = entry[f].key
          /\ f \in Settled /\ f \in With("accepted")' => f \in With("accepted")
          /\ f \in With("completed") => f \in With("completed")'
          /\ f \in With("over") => f \in With("over")'
    BY <1>1, <1>3, <2>1 DEF Settled, With, Known
  <2>3. Settled \subseteq Entries /\ \A s \in Statuses : With(s) \subseteq Entries
    BY DEF Settled, With, Known
  <2>4. \A f \in home.held : NextCovers(f) => NextCovers(f)'
    BY <2>2, <2>3, <1>5 DEF HomeOK, NextCovers
  <2>. QED
    BY <1>2, <1>5, <2>2, <2>3, <2>4 DEF HomeOK, Statuses
<1>. QED
  BY <1>4, <1>5

\* A query goes on to the next one.
LEMMA StepType ==
  ASSUME NEW h \in Homes, NEW n \in 0..4, NEW g, g = [h EXCEPT !.step = n]
  PROVE  /\ g \in Homes /\ g.step = n /\ g.next = h.next /\ g.held = h.held
         /\ g.pickups = h.pickups /\ g.weighed = h.weighed
BY DEF Homes

\* The queries of the home page, each of the entries as they are then.
LEMMA QueryHome ==
  ASSUME EntriesOK, HomeOK,
         HomeForPartner \/ NextForPartner \/ CountPickups \/ SumWeight \/ Done
  PROVE  EntriesOK' /\ HomeOK'
<1>1. UNCHANGED <<entry, list>>
  BY DEF HomeForPartner, NextForPartner, CountPickups, SumWeight, Done, Query, Home, about
<1>2. EntriesOK' /\ Settled' = Settled /\ \A s \in Statuses : With(s)' = With(s)
  BY <1>1 DEF EntriesOK, Settled, With, Known
<1>3. /\ home \in Homes /\ NoHome \in Homes /\ NoHome.step = 0
      /\ With("accepted") \in SUBSET Entries /\ With("completed") \in SUBSET Entries
  BY DEF HomeOK, NoHome, Homes, With, Known
<1>4. CASE HomeForPartner
  <2>1. list = "home" /\ home' = [NoHome EXCEPT !.step = 1, !.held = With("accepted")]
    BY <1>4 DEF HomeForPartner, Home
  <2>2. home' \in Homes /\ home'.step = 1 /\ home'.held = With("accepted")
    <3> DEFINE h == [NoHome EXCEPT !.held = With("accepted")]
    <3>1. h \in Homes /\ h.held = With("accepted") /\ home' = [h EXCEPT !.step = 1]
      BY <1>3, <2>1 DEF Homes, NoHome
    <3> HIDE DEF h
    <3>. QED
      BY <3>1, StepType
  <2>. QED
    BY <1>1, <1>2, <2>1, <2>2 DEF HomeOK, Settled
<1>5. CASE NextForPartner
  <2>1. /\ home.step = 1
        /\ \/ With("accepted") = {} /\ home' = [home EXCEPT !.step = 2]
           \/ \E e \in With("accepted") :
                /\ \A f \in With("accepted") : entry[e].key <= entry[f].key
                /\ home' = [[home EXCEPT !.next = e] EXCEPT !.step = 2]
    <3>1. home.step \in DOMAIN Queries /\ Queries[home.step] = "next"
      BY <1>5, Zenon DEF NextForPartner, Query
    <3>2. home.step = 1 /\ home.step + 1 = 2
      BY <3>1, QueriesFacts
    <3>3. \/ With("accepted") = {} /\ home' = [home EXCEPT !.step = home.step + 1]
          \/ \E e \in With("accepted") :
               /\ \A f \in With("accepted") : entry[e].key <= entry[f].key
               /\ home' = [[home EXCEPT !.next = e] EXCEPT !.step = home.step + 1]
      BY <1>5, Zenon DEF NextForPartner, Query, Home
    <3>4. \/ With("accepted") = {} /\ home' = [home EXCEPT !.step = 2]
          \/ \E e \in With("accepted") :
               /\ \A f \in With("accepted") : entry[e].key <= entry[f].key
               /\ home' = [[home EXCEPT !.next = e] EXCEPT !.step = 2]
      BY <3>2, <3>3, Zenon
    <3>. QED
      BY <3>2, <3>4, Zenon
  <2>2. home' \in Homes /\ home'.step = 2 /\ home'.held = home.held
    <3>1. CASE home' = [home EXCEPT !.step = 2]
      BY <1>3, <3>1, StepType
    <3>2. ASSUME NEW e \in With("accepted"),
                 home' = [[home EXCEPT !.next = e] EXCEPT !.step = 2]
          PROVE  home' \in Homes /\ home'.step = 2 /\ home'.held = home.held
      <4> DEFINE h == [home EXCEPT !.next = e]
      <4>1. h \in Homes /\ h.held = home.held
        BY <1>3 DEF Homes
      <4>2. home' = [h EXCEPT !.step = 2]
        BY <3>2
      <4> HIDE DEF h
      <4>. QED
        BY <4>1, <4>2, StepType
    <3>. QED
      BY <2>1, <3>1, <3>2
  <2>3. \A e \in With("accepted") : NextCovers(e)'
    <3>1. ASSUME NEW n \in With("accepted"),
                 \A f \in With("accepted") : entry[n].key <= entry[f].key,
                 home' = [[home EXCEPT !.next = n] EXCEPT !.step = 2]
          PROVE  \A e \in With("accepted") : NextCovers(e)'
      <4>1. home'.next = n
        BY <1>3, <3>1 DEF Homes
      <4>. QED
        BY <1>1, <1>2, <3>1, <4>1 DEF NextCovers, Settled
    <3>. QED
      BY <2>1, <3>1
  <2>4. list' = "home" /\ home'.held \subseteq Settled'
    <3>1. list = "home" /\ home.held \subseteq Settled
      <4>1. home.step = 1
        BY <2>1, Zenon
      <4>. QED
        BY <4>1 DEF HomeOK
    <3>. QED
      BY <1>1, <1>2, <2>2, <3>1
  <2>5. With("accepted")' = With("accepted")
    BY <1>2 DEF Statuses
  <2>6. \A e \in home'.held : e \in With("accepted")' => NextCovers(e)'
    BY <2>3, <2>5
  <2>. QED
    BY <1>2, <2>2, <2>4, <2>6 DEF HomeOK
<1>6. CASE CountPickups
  <2>1. /\ home.step = 2
        /\ home' = [[home EXCEPT !.pickups = With("completed")] EXCEPT !.step = 3]
    <3>1. /\ home.step \in DOMAIN Queries /\ Queries[home.step] = "pickups"
          /\ home' = [[home EXCEPT !.pickups = With("completed")] EXCEPT !.step = home.step + 1]
      BY <1>6, Zenon DEF CountPickups, Query, Home
    <3>2. home.step = 2 /\ home.step + 1 = 3
      BY <3>1, QueriesFacts
    <3>. QED
      BY <3>1, <3>2
  <2>2. /\ home' \in Homes /\ home'.step = 3 /\ home'.held = home.held
        /\ home'.next = home.next /\ home'.pickups = With("completed")
    <3> DEFINE h == [home EXCEPT !.pickups = With("completed")]
    <3>1. /\ h \in Homes /\ h.held = home.held /\ h.next = home.next
          /\ h.pickups = With("completed")
      BY <1>3 DEF Homes
    <3>2. home' = [h EXCEPT !.step = 3]
      BY <2>1
    <3> HIDE DEF h
    <3>. QED
      BY <3>1, <3>2, StepType
  <2>3. \A e \in home.held : NextCovers(e)' = NextCovers(e)
    BY <1>1, <1>2, <2>2 DEF NextCovers
  <2>. QED
    BY <1>1, <1>2, <2>1, <2>2, <2>3 DEF HomeOK, Statuses, Settled
<1>7. CASE SumWeight
  <2>1. /\ home.step = 3
        /\ home' = [[home EXCEPT !.weighed = With("completed")] EXCEPT !.step = 4]
    <3>1. /\ home.step \in DOMAIN Queries /\ Queries[home.step] = "weight"
          /\ home' = [[home EXCEPT !.weighed = With("completed")] EXCEPT !.step = home.step + 1]
      BY <1>7, Zenon DEF SumWeight, Query, Home
    <3>2. home.step = 3 /\ home.step + 1 = 4
      BY <3>1, QueriesFacts
    <3>. QED
      BY <3>1, <3>2
  <2>2. /\ home' \in Homes /\ home'.step = 4 /\ home'.held = home.held
        /\ home'.next = home.next /\ home'.pickups = home.pickups
        /\ home'.weighed = With("completed")
    <3> DEFINE h == [home EXCEPT !.weighed = With("completed")]
    <3>1. /\ h \in Homes /\ h.held = home.held /\ h.next = home.next
          /\ h.weighed = With("completed") /\ h.pickups = home.pickups
      BY <1>3 DEF Homes
    <3>2. home' = [h EXCEPT !.step = 4]
      BY <2>1
    <3> HIDE DEF h
    <3>. QED
      BY <3>1, <3>2, StepType
  <2>3. \A e \in home.held : NextCovers(e)' = NextCovers(e)
    BY <1>1, <1>2, <2>2 DEF NextCovers
  <2>. QED
    BY <1>1, <1>2, <2>1, <2>2, <2>3 DEF HomeOK, Statuses
<1>8. CASE Done
  <2>1. CASE home' = home
    <3>1. \A e : NextCovers(e)' = NextCovers(e)
      BY <1>1, <1>2, <2>1 DEF NextCovers
    <3>. QED
      BY <1>1, <1>2, <2>1, <3>1 DEF HomeOK, Statuses
  <2>2. CASE home' = NoHome
    BY <1>2, <1>3, <2>2 DEF HomeOK
  <2>. QED
    BY <1>8, <2>1, <2>2 DEF Done, Home
<1>. QED
  BY <1>4, <1>5, <1>6, <1>7, <1>8

\* Every step keeps the invariant.
LEMMA NextHome == EntriesOK /\ HomeOK /\ [Next]_vars => EntriesOK' /\ HomeOK'
<1>. SUFFICES ASSUME EntriesOK, HomeOK, [Next]_vars PROVE EntriesOK' /\ HomeOK'
  OBVIOUS
<1>1. CASE \E e \in Entries :
        \/ Notify(e) \/ MarkRead(e) \/ Rate(e) \/ Subscribe(e) \/ Join(e) \/ Relist(e)
        \/ Book(e) \/ Reschedule(e) \/ Accept(e) \/ Complete(e) \/ Cancel(e)
  BY <1>1, EntryStep, MovesHome
<1>2. CASE HomeForPartner \/ NextForPartner \/ CountPickups \/ SumWeight \/ Done
  BY <1>2, QueryHome
<1>3. ASSUME UNCHANGED <<entry, list, home>> PROVE EntriesOK' /\ HomeOK'
  <2>1. /\ Settled' = Settled /\ \A s \in Statuses : With(s)' = With(s)
        /\ \A e : NextCovers(e)' = NextCovers(e)
    BY <1>3 DEF Settled, With, Known, NextCovers
  <2>. QED
    BY <1>3, <2>1 DEF EntriesOK, HomeOK, Statuses
<1>4. CASE AddressStep \/ UNCHANGED vars
  BY <1>3, <1>4 DEF AddressStep, vars, about
<1>5. CASE ListAddresses \/ ListNotifications \/ ListForUser \/ ListForPartner
           \/ ListSubscriptions \/ ListBills \/ ListBookings \/ ListRequests \/ SearchPartners
  <2>1. UNCHANGED <<entry, list, home>>
    BY <1>5 DEF ListAddresses, ListNotifications, ListForUser, ListForPartner,
       ListSubscriptions, ListBills, ListBookings, ListRequests, SearchPartners, ReadPage, about
  <2>. QED
    BY <1>3, <2>1
<1>. QED
  BY <1>1, <1>2, <1>4, <1>5 DEF Next

\* Every booking that was accepted when the partner asked for the home page, and
\* has not been cancelled, is in it although it is put together from several
\* queries.
THEOREM HomeSafety == Spec => []HomeLosesNothing
<1>1. EntriesOK /\ HomeOK => HomeLosesNothing
  <2>1. SUFFICES ASSUME EntriesOK, HomeOK, home.step > 3 PROVE HomeLosesNothing
    BY QueriesFacts DEF HomeLosesNothing
  <2>2. home.next \in Settled => home.next # None
    BY EntriesAssumption DEF Settled, With, Known
  <2>3. home.step > 2
    BY <2>1 DEF HomeOK, Homes
  <2>. QED
    BY <2>1, <2>2, <2>3 DEF HomeLosesNothing, HomeOK, NextCovers
<1>. QED
  BY InitHome, NextHome, <1>1, PTL DEF Spec
-----------------------------------------------------------------------------
\* Types.

\* Every list is one of addresses or of entries.
LEMMA ListType ==
  ASSUME AddressTypeOK
  PROVE  \A l \in {ListByUser, ListByRecipient, ListRatings, ListReceivedByPartner,
                   ListByPartner, ListTransactions, BookingsByUser, BookingsByPartner,
                   SearchByLocation} : Names(l) \subseteq Ids \cup Entries
<1>1. Names(ListByUser) \subseteq Ids
  BY DEF Names, ListByUser, Of
<1>2. ASSUME NEW S, S \subseteq Entries
      PROVE  Names(Newest(S)) \subseteq Entries /\ Names(Nearest(S)) \subseteq Entries
  BY <1>2 DEF Names, Newest, Nearest
<1>3. Known \subseteq Entries /\ Filtered \subseteq Entries /\ With("listed") \subseteq Entries
  BY DEF Known, Filtered, With
<1>. QED
  BY <1>1, <1>2, <1>3 DEF ListByRecipient, ListRatings, ListReceivedByPartner,
     ListByPartner, ListTransactions, BookingsByUser, BookingsByPartner, SearchByLocation

ListOK == list \in Lists /\ IsReader(reader, Ids \cup Entries)

\* Every step keeps the type of the client.
LEMMA NextList == AddressTypeOK /\ ListOK /\ [Next]_vars => ListOK'
<1>. SUFFICES ASSUME AddressTypeOK, ListOK, [Next]_vars PROVE ListOK'
  OBVIOUS
<1>1. list' = list
  BY DEF Next, AddressStep, Done, Home, Notify, MarkRead, Rate, Upsert, Subscribe, Join,
     Relist, Book, Reschedule, Accept, Complete, Cancel, Created, Write, ListAddresses,
     ListNotifications, ListForUser, ListForPartner, ListSubscriptions, ListBills,
     ListBookings, ListRequests, SearchPartners, ReadPage, HomeForPartner, NextForPartner,
     CountPickups, SumWeight, Query, vars, about
<1>2. ASSUME NEW l, Names(l) \subseteq Ids \cup Entries, ReadPage(l) PROVE ListOK'
  BY <1>1, <1>2, ReaderStep DEF ReadPage, ListOK
<1>3. ASSUME NEW old, NEW new, NEW moved, Watch(old, new, moved) PROVE ListOK'
  <2>1. Names({}) \subseteq Ids \cup Entries
    BY DEF Names
  <2>. QED
    BY <1>1, <1>3, <2>1, ReaderStep DEF ListOK
<1>4. CASE ListAddresses \/ ListNotifications \/ ListForUser \/ ListForPartner
           \/ ListSubscriptions \/ ListBills \/ ListBookings \/ ListRequests \/ SearchPartners
  BY <1>2, <1>4, ListType DEF ListAddresses, ListNotifications, ListForUser, ListForPartner,
     ListSubscriptions, ListBills, ListBookings, ListRequests, SearchPartners
<1>5. CASE \E e \in Entries :
        \/ Notify(e) \/ MarkRead(e) \/ Rate(e) \/ Subscribe(e) \/ Join(e) \/ Relist(e)
        \/ Book(e) \/ Reschedule(e) \/ Accept(e) \/ Complete(e) \/ Cancel(e)
  <2>1. \E moved : Write(moved)
    BY <1>5 DEF Notify, MarkRead, Rate, Upsert, Subscribe, Join, Relist, Book, Reschedule,
       Accept, Complete, Cancel, Created
  <2>. QED
    BY <1>3, <2>1 DEF Write
<1>6. CASE AddressStep
  BY <1>3, <1>6 DEF AddressStep
<1>7. CASE HomeForPartner \/ NextForPartner \/ CountPickups \/ SumWeight \/ UNCHANGED vars
  BY <1>1, <1>7 DEF HomeForPartner, NextForPartner, CountPickups, SumWeight, Query, Home,
     vars, ListOK
<1>8. CASE Done
  <2>1. Names({}) \subseteq Ids \cup Entries
    BY DEF Names
  <2>. QED
    BY <1>1, <1>8, <2>1, ReaderStep DEF Done, Home, ListOK
<1>. QED
  BY <1>4, <1>5, <1>6, <1>7, <1>8 DEF Next

\* Every row, entry and local variable holds values of its type.
THEOREM TypeCorrectness == Spec => []TypeOK
<1>1. Spec => []AddressTypeOK
  <2>1. Inv => AddressTypeOK
    BY DEF Inv
  <2>. QED
    BY FeedRefines, InitInv, NextInv, <2>1, PTL DEF AddressSpec
<1>2. Init => ListOK
  BY DEF Init, ListOK, IsReader, NoReader, Labels
<1>3. AddressTypeOK /\ ListOK /\ EntriesOK /\ HomeOK => TypeOK
  <2>1. 0..4 = 0..(Len(Queries) + 1)
    BY QueriesFacts
  <2>. QED
    BY <2>1 DEF TypeOK, ListOK, IsReader, Labels, EntriesOK, HomeOK, Homes
<1>. QED
  BY <1>1, <1>2, <1>3, NextList, InitHome, NextHome, PTL DEF Spec

-----------------------------------------------------------------------------
\* Pages, while others write.

Followed ==
  {"addresses", "notifications", "ratings", "subscriptions", "bookings", "home", "partners"}

\* The client reads the list that Watch follows, from the first page on.
PagesOK ==
  /\ reader.pc # "idle" => list \in Followed
  /\ ReadOK(reader, View) /\ SkippedOK(reader) /\ TwiceOK(reader)

\* The SELECT of each list yields rows with ids of their own.
LEMMA EntryLists ==
  ASSUME EntriesOK, NEW S, S \subseteq Known
  PROVE  IsList(Newest(S)) /\ IsList(Nearest(S))
<1>1. IsFiniteSet(S)
  BY BoundsAssumption, FS_Subset DEF Known
<1>2. \A e \in S : entry[e].key \in Nat
  BY DEF EntriesOK, Known
<1>3. IsFiniteSet(Newest(S))
  <2> DEFINE f == [e \in S |-> [id |-> e, rank |-> -entry[e].key]]
  <2>1. f \in Surjection(S, Newest(S))
    BY DEF Surjection, Newest
  <2> HIDE DEF f
  <2>. QED
    BY <1>1, <2>1, FS_Surjection
<1>4. IsFiniteSet(Nearest(S))
  <2> DEFINE f == [e \in S |-> [id |-> e, rank |-> entry[e].key]]
  <2>1. f \in Surjection(S, Nearest(S))
    BY DEF Surjection, Nearest
  <2> HIDE DEF f
  <2>. QED
    BY <1>1, <2>1, FS_Surjection
<1>. QED
  BY <1>2, <1>3, <1>4 DEF IsList, Newest, Nearest

\* So does that of a customer's addresses.
LEMMA AddressLists ==
  ASSUME AddressTypeOK
  PROVE  IsList(ListByUser)
<1> DEFINE S == UNION {Of(u) : u \in Users}
           f == [i \in S |-> [id |-> i, rank |-> -rows[i].created]]
<1>1. S \in SUBSET Ids /\ \A i \in S : rows[i].created \in Nat
  BY DEF AddressTypeOK, Of, Exists
<1>2. IsFiniteSet(S)
  BY <1>1, BoundsAssumption, FS_Subset
<1>3. f \in Surjection(S, ListByUser)
  BY DEF Surjection, ListByUser
<1>4. IsFiniteSet(ListByUser)
  <2> HIDE DEF S, f
  <2>. QED
    BY <1>2, <1>3, FS_Surjection
<1>. QED
  BY <1>1, <1>4 DEF IsList, ListByUser

\* Which SELECT the list of a behaviour comes from.
LEMMA Views ==
  /\ list = "addresses" => View = ListByUser
  /\ list \in {"notifications", "ratings", "subscriptions"} => View = Newest(Known)
  /\ list \in OfBookings => View = Nearest(Filtered)
  /\ list = "partners" => View = Newest(With("listed"))
BY DEF View, OfBookings, ListByRecipient, ListRatings, ListByPartner, BookingsByUser,
  SearchByLocation

\* Whatever a behaviour is about is such a list.
LEMMA ViewList ==
  AddressTypeOK /\ EntriesOK /\ list \in Followed => IsList(View)
<1>1. Known \subseteq Known /\ Filtered \subseteq Known /\ With("listed") \subseteq Known
  BY DEF Filtered, With
<1>. QED
  BY <1>1, Views, EntryLists, AddressLists DEF Followed, OfBookings

\* The same of the next state.
LEMMA ViewListNext ==
  (AddressTypeOK /\ EntriesOK /\ list \in Followed => IsList(View))'
BY ViewList, PTL

\* Nothing that the lists are made of changes.
LEMMA ViewKept ==
  ASSUME UNCHANGED <<rows, entry, list, filter>>
  PROVE  View' = View
BY DEF View, ListByUser, ListByRecipient, ListRatings, ListByPartner, BookingsByUser,
  SearchByLocation, Newest, Nearest, Filtered, With, Known, Of, Exists

\* A client that reads stays in step.
LEMMA PageStep ==
  ASSUME AddressTypeOK, EntriesOK, ListOK, PagesOK,
         \/ ListAddresses \/ ListNotifications \/ ListForUser \/ ListForPartner
         \/ ListSubscriptions \/ ListBills \/ ListBookings \/ ListRequests \/ SearchPartners
  PROVE  PagesOK'
<1>1. ReadPage(View) /\ list \in Followed
  BY DEF ListAddresses, ListNotifications, ListForUser, ListForPartner, ListSubscriptions,
     ListBills, ListBookings, ListRequests, SearchPartners, View, OfBookings, Followed,
     ListByRecipient, ListRatings, ListReceivedByPartner, ListByPartner, ListTransactions,
     BookingsByUser, BookingsByPartner
<1>2. IsList(View) /\ IsReader(reader, Ids \cup Entries)
  BY <1>1, ViewList DEF ListOK
<1>3. View' = View /\ list' = list
  BY <1>1, ViewKept DEF ReadPage, avars, about
<1>4. /\ ReadOK(reader', View) /\ SkippedOK(reader') /\ TwiceOK(reader')
  BY <1>1, <1>2, BeginReads, CountReads, FindReads DEF ReadPage, PagesOK
<1>. QED
  BY <1>1, <1>3, <1>4 DEF PagesOK

\* An entry that is written keeps its rank, unless a booking that is in the list
\* is given another slot, which counts as moved.
LEMMA RanksKept ==
  ASSUME EntriesOK, NEW e \in Entries,
         \/ Notify(e) \/ MarkRead(e) \/ Rate(e) \/ Subscribe(e) \/ Join(e) \/ Relist(e)
         \/ Book(e) \/ Reschedule(e) \/ Accept(e) \/ Complete(e) \/ Cancel(e)
  PROVE  /\ list \in Followed \ {"addresses"} /\ list' = list /\ Reading
         /\ \E moved \in BOOLEAN :
              /\ Watch(View, View', moved)
              /\ ~moved => \A x \in Names(View) : entry'[x].key = entry[x].key
<1>1. list \in Followed \ {"addresses"} /\ list' = list /\ Reading
  BY DEF Notify, MarkRead, Rate, Upsert, Subscribe, Join, Relist, Book, Reschedule,
     Accept, Complete, Cancel, Created, Write, about, Followed, OfBookings
<1>2. Names(View) \subseteq Known
  BY <1>1, Views DEF Followed, OfBookings, Names, Newest, Nearest, Filtered, With
<1>3. DOMAIN entry = Entries /\ \A x \in Known : entry[x] \in [key : Nat, status : Statuses]
  BY DEF EntriesOK, Known
<1>4. ASSUME NEW status, e \in Known, Become(e, status)
      PROVE  \A x \in Known : entry'[x].key = entry[x].key
  <2>1. entry' = [entry EXCEPT ![e] = [entry[e] EXCEPT !.status = status]]
    BY <1>4, Zenon DEF Become
  <2>. QED
    BY <1>3, <2>1 DEF Known
<1>5. ASSUME NEW status, NEW key, e \notin Known, Set(e, key, status)
      PROVE  \A x \in Known : entry'[x].key = entry[x].key
  BY <1>3, <1>5 DEF Set, Known
<1>6. CASE Reschedule(e)
  <2>1. Watch(View, View', e \in Names(View) /\ entry'[e] # entry[e])
    BY <1>6 DEF Reschedule, Write
  <2>2. PICK m \in BOOLEAN : m = (e \in Names(View) /\ entry'[e] # entry[e])
    OBVIOUS
  <2>3. Watch(View, View', m)
    BY <2>1, <2>2
  <2>4. ASSUME ~m, NEW x \in Names(View) PROVE entry'[x].key = entry[x].key
    <3>1. CASE x = e
      BY <2>2, <2>4, <3>1
    <3>2. CASE x # e
      BY <1>2, <1>3, <1>6, <3>2 DEF Reschedule, Set, Known
    <3>. QED
      BY <3>1, <3>2
  <2>. QED
    BY <1>1, <2>3, <2>4
<1>7. CASE ~Reschedule(e)
  <2>1. \/ \E status : e \in Known /\ Become(e, status)
        \/ \E status, key : e \notin Known /\ Set(e, key, status)
    BY <1>7 DEF Notify, MarkRead, Rate, Upsert, Subscribe, Join, Relist, Book,
       Accept, Complete, Cancel, Created, With
  <2>2. Watch(View, View', FALSE)
    BY <1>7 DEF Notify, MarkRead, Rate, Upsert, Subscribe, Join, Relist, Book,
       Accept, Complete, Cancel, Created, Write
  <2>3. \A x \in Known : entry'[x].key = entry[x].key
    BY <1>4, <1>5, <2>1
  <2>. QED
    BY <1>1, <1>2, <2>2, <2>3
<1>. QED
  BY <1>6, <1>7

\* A client is not disturbed by entries that are written.
LEMMA EntryPages ==
  ASSUME AddressTypeOK, AddressTypeOK', EntriesOK, EntriesOK', ListOK, PagesOK,
         NEW e \in Entries,
         \/ Notify(e) \/ MarkRead(e) \/ Rate(e) \/ Subscribe(e) \/ Join(e) \/ Relist(e)
         \/ Book(e) \/ Reschedule(e) \/ Accept(e) \/ Complete(e) \/ Cancel(e)
  PROVE  PagesOK'
<1>1. list \in Followed \ {"addresses"} /\ list' = list /\ reader.pc # "done"
  BY RanksKept DEF Reading
<1>2. PICK moved \in BOOLEAN :
        /\ Watch(View, View', moved)
        /\ ~moved => \A x \in Names(View) : entry'[x].key = entry[x].key
  BY RanksKept
<1>3. IsList(View) /\ IsList(View')
  BY <1>1, ViewList, ViewListNext
<1>4. ASSUME ~moved PROVE SameRanks(View, View')
  <2>1. \/ /\ View \in {Newest(Known), Newest(With("listed"))}
           /\ View' \in {Newest(Known)', Newest(With("listed"))'}
        \/ View = Nearest(Filtered) /\ View' = Nearest(Filtered)'
    BY <1>1 DEF View, Followed, OfBookings, ListByRecipient, ListRatings, ListByPartner,
       BookingsByUser, SearchByLocation
  <2>2. \/ /\ \A x \in View : x = [id |-> x.id, rank |-> -entry[x.id].key]
           /\ \A y \in View' : y = [id |-> y.id, rank |-> -entry'[y.id].key]
        \/ /\ \A x \in View : x = [id |-> x.id, rank |-> entry[x.id].key]
           /\ \A y \in View' : y = [id |-> y.id, rank |-> entry'[y.id].key]
    BY <2>1 DEF Newest, Nearest
  <2>3. \A x \in View : x.id \in Names(View)
    BY DEF Names
  <2>. QED
    BY <1>2, <1>4, <2>2, <2>3 DEF SameRanks
<1>5. ReadOK(reader', View') /\ SkippedOK(reader') /\ TwiceOK(reader')
  BY <1>1, <1>2, <1>3, <1>4, WatchReads DEF ListOK, PagesOK
<1>. QED
  BY <1>1, <1>5 DEF PagesOK

\* Nor by statements on addresses: they keep their created_at.
LEMMA AddressPages ==
  ASSUME AddressTypeOK, AddressTypeOK', EntriesOK, EntriesOK', ListOK, PagesOK,
         SameCreated, AddressStep
  PROVE  PagesOK'
<1>1. /\ list = "addresses" /\ list' = list /\ list \in Followed /\ reader.pc # "done"
      /\ Watch(View, View', FALSE)
  BY DEF AddressStep, Reading, about, Followed
<1>2. IsList(View) /\ IsList(View')
  BY <1>1, ViewList, ViewListNext
<1>3. SameRanks(View, View')
  <2>1. View = ListByUser /\ View' = ListByUser'
    BY <1>1 DEF View, OfBookings
  <2>. QED
    BY <2>1 DEF SameRanks, ListByUser, SameCreated, Of
<1>4. ReadOK(reader', View') /\ SkippedOK(reader') /\ TwiceOK(reader')
  BY <1>1, <1>2, <1>3, WatchReads DEF ListOK, PagesOK
<1>. QED
  BY <1>1, <1>4 DEF PagesOK

\* Every step.
LEMMA NextPages ==
  ASSUME AddressTypeOK, AddressTypeOK', EntriesOK, EntriesOK', ListOK, PagesOK,
         SameCreated, [Next]_vars
  PROVE  PagesOK'
<1>1. CASE HomeForPartner \/ NextForPartner \/ CountPickups \/ SumWeight \/ UNCHANGED vars
  <2>1. UNCHANGED <<rows, entry, list, filter, reader>>
    BY <1>1 DEF HomeForPartner, NextForPartner, CountPickups, SumWeight, Query, Home,
       vars, avars, about
  <2>. QED
    BY <2>1, ViewKept DEF PagesOK
<1>2. CASE Done
  <2>1. UNCHANGED <<rows, entry, list, filter>> /\ (reader' = reader \/ reader' = NoReader)
    BY <1>2 DEF Done, EndPaging, Home, avars, about
  <2>2. ReadOK(NoReader, View) /\ SkippedOK(NoReader) /\ TwiceOK(NoReader)
        /\ NoReader.pc = "idle"
    BY DEF NoReader, ReadOK, SkippedOK, TwiceOK
  <2>. QED
    BY <2>1, <2>2, ViewKept DEF PagesOK
<1>. QED
  BY <1>1, <1>2, PageStep, EntryPages, AddressPages DEF Next

\* What pages are read is in step with the list in every behaviour.
LEMMA PagesSafety == Spec => []PagesOK
<1>1. Spec => []AddressTypeOK /\ [][SameCreated]_avars
  <2>1. Inv => AddressTypeOK
    BY DEF Inv
  <2>. QED
    BY FeedRefines, InitInv, NextInv, CreatedNeverChanges, <2>1, PTL DEF AddressSpec
<1>2. UNCHANGED avars => SameCreated
  BY DEF avars, SameCreated
<1>3. Init => PagesOK
  BY DEF Init, PagesOK, NoReader, ReadOK, SkippedOK, TwiceOK
<1>4. Init => ListOK
  BY DEF Init, ListOK, IsReader, NoReader, Labels
<1>5. AddressTypeOK /\ AddressTypeOK' /\ EntriesOK /\ EntriesOK' /\ ListOK /\ PagesOK
        /\ [SameCreated]_avars /\ [Next]_vars => PagesOK'
  BY <1>2, NextPages
<1>. QED
  BY <1>1, <1>3, <1>4, <1>5, NextList, InitHome, NextHome, PTL DEF Spec

\* Whoever asks for page after page until total_pages sees every entry that was
\* there when it began, unless one left, moved or came in behind the last COUNT,
\* or two have the same rank.
THEOREM SkipSafety == Spec => []NothingSkipped
<1>1. PagesOK => NothingSkipped
  BY DEF PagesOK, SkippedOK, NothingSkipped
<1>. QED
  BY PagesSafety, <1>1, PTL

\* It sees none twice unless one came in or moved, or two have the same rank.
THEOREM TwiceSafety == Spec => []NothingTwice
<1>1. PagesOK => NothingTwice
  BY DEF PagesOK, TwiceOK, NothingTwice
<1>. QED
  BY PagesSafety, <1>1, PTL
===============================================================================
