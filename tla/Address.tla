-------------------------------- MODULE Address --------------------------------
(***************************************************************************)
(* The addresses of customers and of partners' stores, in one table:       *)
(* src/internal/repository/address_repository.go under                     *)
(* src/internal/service/address_service.go, and the addresses that the     *)
(* profile updates of customers and partners write.                        *)
(*                                                                         *)
(* A request slot serves one call after another and a step is one SQL      *)
(* statement, the last one of a transaction together with its COMMIT. No   *)
(* transaction holds a row lock between two of its statements, so no call  *)
(* waits. The columns that a caller gives are one value, a place.          *)
(***************************************************************************)
EXTENDS Integers, FiniteSets

CONSTANTS
  Users, Partners,
  Requests,
  Ids,      \* of rows (bounds their number)
  Places,
  MaxTime,  \* bounds the clock
  MayFail,  \* whether statements may fail
  None

ASSUME OwnersAssumption == Users \cap Partners = {}
ASSUME AddressAssumption ==
  None \notin Ids \cup Places \cup Users \cup Partners /\ MaxTime \in Nat /\ MayFail \in BOOLEAN
ASSUME RowAssumption ==
  None \notin [owner : Users \cup Partners, place : Places, created : Nat]

VARIABLES
  registered, \* customers and partners with an account
  rows,       \* the table, by id: None or [owner, place, created]
  used,       \* ids that have been given to a row, deleted or not
  pc, call,   \* next statement of each request, and its local variables
  now

table == <<rows, used>>
avars == <<registered, rows, used, pc, call, now>>

Owners == Users \cup Partners
NoCall == [owner |-> None, id |-> None, place |-> None, created |-> 0]

AddressInit ==
  /\ registered = {} /\ used = {}
  /\ rows = [i \in Ids |-> None]
  /\ pc = [r \in Requests |-> "idle"]
  /\ call = [r \in Requests |-> NoCall]
  /\ now = 0

Goto(r, label) == pc' = [pc EXCEPT ![r] = label]
Return(r) == Goto(r, "idle") /\ call' = [call EXCEPT ![r] = NoCall]
Start(r, c, label) ==
  pc[r] = "idle" /\ call' = [call EXCEPT ![r] = c] /\ Goto(r, label)

Exists(i) == rows[i] # None
Of(o) == {i \in Ids : Exists(i) /\ rows[i].owner = o}

\* Without the owner.
FaultyRow(c) == [owner |-> None, place |-> c.place, created |-> c.created]

\* The row that a request writes.
Row(c) == [owner |-> c.owner, place |-> c.place, created |-> c.created]

\* INSERT with a fresh id.
Insert(r) ==
  \E i \in Ids \ used :
    rows' = [rows EXCEPT ![i] = Row(call[r])] /\ used' = used \cup {i}

-----------------------------------------------------------------------------
\* An account comes with the addresses given, all created at once; that of a
\* partner with one, of the store.
Register(o) ==
  /\ o \notin registered
  /\ registered' = registered \cup {o}
  /\ \E given \in SUBSET (Ids \ used), p \in Places :
       /\ o \in Partners => Cardinality(given) = 1
       /\ rows' = [i \in Ids |->
            IF i \in given THEN [owner |-> o, place |-> p, created |-> now] ELSE rows[i]]
       /\ used' = used \cup given
  /\ UNCHANGED <<pc, call, now>>

Create(r, u) ==
  /\ u \in registered
  /\ \E p \in Places :
       Start(r, [owner |-> u, id |-> None, place |-> p, created |-> now], "insert")
  /\ UNCHANGED <<registered, table, now>>

InsertAddress(r) ==
  /\ pc[r] = "insert"
  /\ Insert(r) /\ Return(r)
  /\ UNCHANGED <<registered, now>>

\* Nobody looks whether the caller has such an address.
FaultyUpdate(r, u) ==
  /\ u \in registered
  /\ \E i \in used, p \in Places :
       Start(r, [owner |-> u, id |-> i, place |-> p, created |-> now], "save")
  /\ UNCHANGED <<registered, table, now>>

\* A new address is made of the request, as in Create.
FaultyGetByID(r, u) ==
  /\ \E i \in Of(u), p \in Places :
       Start(r, [owner |-> u, id |-> i, place |-> p, created |-> now], "save")
  /\ UNCHANGED <<registered, table, now>>

\* GetByID, and the new values put into the row read.
Update(r, u) ==
  /\ \E i \in Of(u), p \in Places :
       Start(r, [owner |-> u, id |-> i, place |-> p, created |-> rows[i].created], "save")
  /\ UNCHANGED <<registered, table, now>>

\* Save: UPDATE of every column of the row with that id, and if there is none ...
Save(r) ==
  /\ pc[r] = "save"
  /\ IF Exists(call[r].id)
     THEN rows' = [rows EXCEPT ![call[r].id] = Row(call[r])] /\ Return(r)
     ELSE Goto(r, "saveInsert") /\ UNCHANGED <<rows, call>>
  /\ UNCHANGED <<registered, used, now>>

\* ... INSERT of it, which overwrites the row if there is one by now.
SaveInsert(r) ==
  /\ pc[r] = "saveInsert"
  /\ rows' = [rows EXCEPT ![call[r].id] = Row(call[r])]
  /\ Return(r)
  /\ UNCHANGED <<registered, used, now>>

\* By its id, whoever owns it.
FaultyDelete(u) ==
  /\ u \in registered
  /\ \E i \in Ids : Exists(i) /\ rows' = [rows EXCEPT ![i] = None]
  /\ UNCHANGED <<registered, used, pc, call, now>>

Delete(u) ==
  /\ \E i \in Of(u) : rows' = [rows EXCEPT ![i] = None]
  /\ UNCHANGED <<registered, used, pc, call, now>>

-----------------------------------------------------------------------------
\* UpdateProfile of a customer or of a partner, with an address.
UpdateProfile(r, o) ==
  /\ o \in registered
  /\ \E p \in Places :
       Start(r, [owner |-> o, id |-> None, place |-> p, created |-> now], "find")
  /\ UNCHANGED <<registered, table, now>>

\* UpsertPrimaryAddress finds a customer's oldest address, the one with the
\* smallest id if several are (here any of them).
FindPrimary(r) ==
  LET mine == Of(call[r].owner)
  IN /\ pc[r] = "find" /\ call[r].owner \in Users
     /\ IF mine = {} THEN Goto(r, "insert") /\ UNCHANGED call
        ELSE /\ \E i \in mine :
                  /\ \A j \in mine : rows[i].created <= rows[j].created
                  /\ call' = [call EXCEPT ![r].id = i]
             /\ Goto(r, "replace")
     /\ UNCHANGED <<registered, table, now>>

\* UpsertStoreAddress.
FindStore(r) ==
  LET mine == Of(call[r].owner)
  IN /\ pc[r] = "find" /\ call[r].owner \in Partners
     /\ IF mine = {} THEN Goto(r, "insert") /\ UNCHANGED call
        ELSE /\ \E i \in mine : call' = [call EXCEPT ![r].id = i]
             /\ Goto(r, "replace")
     /\ UNCHANGED <<registered, table, now>>

\* UPDATE of the columns of addressUpdateFields. A row deleted meanwhile stays so,
\* without an error.
Replace(r) ==
  /\ pc[r] = "replace"
  /\ rows' = IF Exists(call[r].id)
             THEN [rows EXCEPT ![call[r].id].place = call[r].place] ELSE rows
  /\ Return(r)
  /\ UNCHANGED <<registered, used, now>>

-----------------------------------------------------------------------------
\* A statement fails; what is committed stays.
Abandon(r) ==
  /\ MayFail /\ pc[r] # "idle"
  /\ Return(r)
  /\ UNCHANGED <<registered, table, now>>

Tick ==
  /\ now < MaxTime
  /\ now' = now + 1
  /\ UNCHANGED <<registered, table, pc, call>>

AddressNext ==
  \/ \E o \in Owners : Register(o)
  \/ \E u \in Users :
       \/ Delete(u)
       \/ \E r \in Requests : Create(r, u) \/ Update(r, u)
  \/ \E r \in Requests :
       \/ \E o \in Owners : UpdateProfile(r, o)
       \/ InsertAddress(r) \/ Save(r) \/ SaveInsert(r)
       \/ FindPrimary(r) \/ FindStore(r) \/ Replace(r) \/ Abandon(r)
  \/ Tick

-----------------------------------------------------------------------------
\* Properties.

AddressTypeOK ==
  /\ registered \subseteq Owners /\ used \subseteq Ids
  /\ rows \in [Ids -> [owner : Owners, place : Places, created : Nat] \cup {None}]
  /\ pc \in [Requests -> {"idle", "insert", "save", "saveInsert", "find", "replace"}]
  /\ call \in [Requests -> [owner : Owners \cup {None}, id : Ids \cup {None},
                            place : Places \cup {None}, created : Nat]]
  /\ now \in Nat

\* A partner has one store address from the registration on, however many updates
\* of the profile look for it at the same time and whatever customers delete:
\* the two statements of UpsertStoreAddress never meet an empty table.
OneStoreAddress ==
  \A p \in Partners : Cardinality(Of(p)) = IF p \in registered THEN 1 ELSE 0

\* A deleted address that no Update has read, or whose readers are over.
Gone(i) ==
  /\ i \in used /\ ~Exists(i)
  /\ \A r \in Requests : pc[r] \in {"save", "saveInsert"} => call[r].id # i

\* Such an address never comes back. Save may bring back one that is deleted
\* behind its back, but nothing else does.
GoneForGood == [][\A i \in Ids : Gone(i) => Gone(i)']_avars
=============================================================================
