----------------------------- MODULE AddressProofs -----------------------------
(***************************************************************************)
(* Proofs about module Address, for any number of customers, partners,     *)
(* requests and rows: of types, of the one address that every store has,   *)
(* and of deleted addresses.                                               *)
(*                                                                         *)
(* Ids are not used twice, so the row that a customer's call has read and   *)
(* saves is a customer's, deleted or not, and no store's.                  *)
(***************************************************************************)
EXTENDS Address, FiniteSetTheorems, TLAPS

\* The module on its own.
AddressSpec == AddressInit /\ [][AddressNext]_avars

\* Rows have used ids and registered owners.
RowsOK ==
  \A i \in Ids : Exists(i) => i \in used /\ rows[i].owner \in registered

\* The variables of a call fit its next statement: only customers insert and save,
\* and the rows that they save are customers'.
Fits(r) ==
  /\ pc[r] # "idle" => call[r].owner \in Owners /\ call[r].place \in Places
  /\ pc[r] = "find" => call[r].owner \in registered
  /\ pc[r] \in {"save", "saveInsert", "replace"} => call[r].id \in used
  /\ pc[r] \in {"insert", "save", "saveInsert"} =>
       call[r].owner \in Users /\ call[r].owner \in registered
  /\ pc[r] \in {"save", "saveInsert"} /\ Exists(call[r].id) =>
       rows[call[r].id].owner \in Users

Inv ==
  AddressTypeOK /\ RowsOK /\ OneStoreAddress /\ \A r \in Requests : Fits(r)

\* The initial state.
LEMMA InitInv == AddressInit => Inv
<1>. SUFFICES ASSUME AddressInit PROVE Inv
  OBVIOUS
<1>1. AddressTypeOK /\ RowsOK /\ \A r \in Requests : Fits(r)
  BY DEF AddressInit, AddressTypeOK, RowsOK, Fits, Exists, NoCall
<1>2. \A o \in Owners : Of(o) = {}
  BY DEF AddressInit, Of, Exists
<1>3. OneStoreAddress
  BY <1>2, FS_EmptySet DEF AddressInit, OneStoreAddress, Owners
<1>. QED
  BY <1>1, <1>3 DEF Inv

\* The stores' addresses are those of before, and no partner has registered.
LEMMA StoresKept ==
  ASSUME OneStoreAddress, registered' \cap Partners = registered \cap Partners,
         \A p \in Partners : Of(p)' = Of(p)
  PROVE  OneStoreAddress'
BY DEF OneStoreAddress

\* A call changes its own variables only.
LEMMA OthersFit ==
  ASSUME Inv, NEW r \in Requests,
         \A q \in Requests \ {r} : pc'[q] = pc[q] /\ call'[q] = call[q],
         registered \subseteq registered', used \subseteq used',
         \A i \in used : Exists(i)' => Exists(i) \/ rows'[i].owner \in Users,
         \A i \in used : Exists(i)' /\ Exists(i) =>
           rows'[i].owner = rows[i].owner \/ rows'[i].owner \in Users,
         Fits(r)'
  PROVE  \A q \in Requests : Fits(q)'
<1>1. SUFFICES ASSUME NEW q \in Requests \ {r} PROVE Fits(q)'
  OBVIOUS
<1>2. Fits(q) /\ pc'[q] = pc[q] /\ call'[q] = call[q]
  BY DEF Inv
<1>3. ASSUME NEW i, i \in used, Exists(i) => rows[i].owner \in Users
      PROVE  Exists(i)' => rows'[i].owner \in Users
  BY <1>3
<1>. QED
  BY <1>2, <1>3 DEF Fits

\* Steps that leave the table alone.
Begins(r) ==
  \/ \E u \in Users : Create(r, u) \/ Update(r, u)
  \/ \E o \in Owners : UpdateProfile(r, o)
  \/ FindPrimary(r) \/ FindStore(r) \/ Abandon(r)
LEMMA BeginsInv ==
  ASSUME Inv, NEW r \in Requests, Begins(r)
  PROVE  Inv'
<1>1. AddressTypeOK /\ RowsOK /\ OneStoreAddress /\ Fits(r)
  BY DEF Inv
<1>2. UNCHANGED <<registered, rows, used, now>>
  BY DEF Begins, Create, Update, UpdateProfile, FindPrimary, FindStore, Abandon, table
<1>3. /\ RowsOK'
      /\ \A p \in Partners : Of(p)' = Of(p)
      /\ \A i \in used : Exists(i)' = Exists(i) /\ rows'[i] = rows[i]
  BY <1>1, <1>2 DEF RowsOK, Of, Exists
<1>4. OneStoreAddress'
  BY <1>1, <1>2, <1>3, StoresKept
<1>5. /\ AddressTypeOK' /\ Fits(r)'
      /\ pc' = [pc EXCEPT ![r] = pc'[r]] /\ call' = [call EXCEPT ![r] = call'[r]]
  <2>. USE <1>1, <1>2 DEF AddressTypeOK, Fits, Start, Goto, Return, NoCall, Of, Exists, RowsOK,
           Owners
  <2>1. CASE \E u \in Users : Create(r, u)
    BY <2>1 DEF Create
  <2>2. CASE \E u \in Users : Update(r, u)
    BY <2>2 DEF Update
  <2>3. CASE \E o \in Owners : UpdateProfile(r, o)
    BY <2>3 DEF UpdateProfile
  <2>4. CASE FindPrimary(r)
    BY <2>4 DEF FindPrimary
  <2>5. CASE FindStore(r)
    <3>1. Of(call[r].owner) # {}
      BY <2>5, FS_EmptySet, OwnersAssumption DEF FindStore, OneStoreAddress
    <3>. QED
      BY <2>5, <3>1 DEF FindStore
  <2>6. CASE Abandon(r)
    BY <2>6 DEF Abandon
  <2>. QED
    BY <2>1, <2>2, <2>3, <2>4, <2>5, <2>6 DEF Begins
<1>6. \A q \in Requests \ {r} : pc'[q] = pc[q] /\ call'[q] = call[q]
  BY <1>1, <1>5 DEF AddressTypeOK
<1>7. \A q \in Requests : Fits(q)'
  BY <1>2, <1>3, <1>5, <1>6, OthersFit
<1>. QED
  BY <1>3, <1>4, <1>5, <1>7 DEF Inv

\* Statements that write rows of customers, or another place.
Writes(r) == InsertAddress(r) \/ Save(r) \/ SaveInsert(r) \/ Replace(r)
LEMMA WritesInv ==
  ASSUME Inv, NEW r \in Requests, Writes(r)
  PROVE  Inv'
<1>1. AddressTypeOK /\ RowsOK /\ OneStoreAddress /\ Fits(r)
  BY DEF Inv
<1>2. registered' = registered /\ used \subseteq used' /\ now' = now
  BY DEF Writes, InsertAddress, Insert, Save, SaveInsert, Replace
<1>3. /\ pc' = [pc EXCEPT ![r] = pc'[r]]
      /\ \/ pc'[r] = "idle" /\ call' = [call EXCEPT ![r] = NoCall]
         \/ pc[r] = "save" /\ pc'[r] = "saveInsert" /\ call' = call /\ rows' = rows
  BY <1>1 DEF AddressTypeOK, Writes, InsertAddress, Insert, Save, SaveInsert, Replace, Goto, Return
\* The row that is written, if any.
<1>4. \/ rows' = rows
      \/ \E i \in Ids :
           /\ i \in used' /\ (i \in used \/ ~Exists(i))
           /\ Exists(i) => rows[i].owner \in Users
           /\ call[r].owner \in Users /\ call[r].owner \in registered
           /\ rows' = [rows EXCEPT ![i] = Row(call[r])]
      \/ \E i \in Ids :
           /\ Exists(i) /\ i \in used
           /\ rows' = [rows EXCEPT ![i].place = call[r].place]
  BY <1>1 DEF AddressTypeOK, RowsOK, Fits, Writes, InsertAddress, Insert, Save, SaveInsert,
     Replace, Exists
<1>5. pc[r] # "idle"
  BY DEF Writes, InsertAddress, Save, SaveInsert, Replace
<1>6. /\ call[r].place \in Places /\ call[r].created \in Nat
      /\ call[r].owner \in Users => Row(call[r]) \in [owner : Owners, place : Places, created : Nat]
      /\ Row(call[r]).owner = call[r].owner /\ Row(call[r]) # None
  <2>1. call[r].place \in Places /\ call[r].created \in Nat /\ call[r].owner \in Owners
    BY <1>1, <1>5 DEF AddressTypeOK, Fits
  <2>. QED
    BY <2>1, RowAssumption DEF Row, Owners
<1>7. AddressTypeOK'
  <2>1. rows' \in [Ids -> [owner : Owners, place : Places, created : Nat] \cup {None}]
    BY <1>1, <1>4, <1>6 DEF AddressTypeOK, Exists
  <2>2. used' \subseteq Ids
    BY <1>1 DEF AddressTypeOK, Writes, InsertAddress, Insert, Save, SaveInsert, Replace
  <2>3. /\ pc' \in [Requests -> {"idle", "insert", "save", "saveInsert", "find", "replace"}]
        /\ call' \in [Requests -> [owner : Owners \cup {None}, id : Ids \cup {None},
                                   place : Places \cup {None}, created : Nat]]
    BY <1>1, <1>3 DEF AddressTypeOK, NoCall
  <2>. QED
    BY <1>1, <1>2, <2>1, <2>2, <2>3 DEF AddressTypeOK
<1>8. RowsOK' /\ \A p \in Partners : Of(p)' = Of(p)
  <2>1. RowsOK'
    BY <1>1, <1>2, <1>4, <1>6 DEF AddressTypeOK, RowsOK, Exists
  <2>2. \A i \in Ids, p \in Partners :
          Exists(i)' /\ rows'[i].owner = p <=> Exists(i) /\ rows[i].owner = p
    <3>1. CASE \E i \in Ids : /\ Exists(i) => rows[i].owner \in Users
                              /\ call[r].owner \in Users
                              /\ rows' = [rows EXCEPT ![i] = Row(call[r])]
      BY <1>1, <1>6, <3>1, OwnersAssumption DEF AddressTypeOK, Exists
    <3>2. CASE \E i \in Ids : /\ Exists(i)
                              /\ rows' = [rows EXCEPT ![i].place = call[r].place]
      <4>1. PICK i \in Ids : Exists(i) /\ rows' = [rows EXCEPT ![i].place = call[r].place]
        BY <3>2
      <4>2. /\ rows[i] \in [owner : Owners, place : Places, created : Nat]
            /\ rows'[i] = [rows[i] EXCEPT !.place = call[r].place]
            /\ \A j \in Ids : j # i => rows'[j] = rows[j]
        BY <1>1, <4>1 DEF AddressTypeOK, Exists
      <4>3. rows'[i] # None /\ rows'[i].owner = rows[i].owner
        BY <1>6, <4>2, RowAssumption DEF Owners
      <4>. QED
        BY <4>1, <4>2, <4>3 DEF Exists
    <3>. QED
      BY <1>4, <3>1, <3>2 DEF Exists
  <2>. QED
    BY <2>1, <2>2 DEF Of
<1>9. OneStoreAddress'
  BY <1>1, <1>2, <1>8, StoresKept
<1>10. \A q \in Requests \ {r} : pc'[q] = pc[q] /\ call'[q] = call[q]
  BY <1>1, <1>3 DEF AddressTypeOK
<1>11. \A i \in used :
         /\ Exists(i)' => Exists(i) \/ rows'[i].owner \in Users
         /\ Exists(i)' /\ Exists(i) =>
              rows'[i].owner = rows[i].owner \/ rows'[i].owner \in Users
  BY <1>1, <1>4, <1>6 DEF AddressTypeOK, Exists
<1>12. Fits(r)'
  BY <1>1, <1>2, <1>3 DEF AddressTypeOK, Fits, Exists
<1>13. \A q \in Requests : Fits(q)'
  BY <1>2, <1>10, <1>11, <1>12, OthersFit
<1>. QED
  BY <1>7, <1>8, <1>9, <1>13 DEF Inv

\* Steps that are no call's.
LEMMA OthersInv ==
  ASSUME Inv, \/ \E o \in Owners : Register(o)
              \/ \E u \in Users : Delete(u)
              \/ Tick \/ UNCHANGED avars
  PROVE  Inv'
<1>1. AddressTypeOK /\ RowsOK /\ OneStoreAddress /\ \A r \in Requests : Fits(r)
  BY DEF Inv
<1>2. ASSUME NEW o \in Owners, Register(o) PROVE Inv'
  <2>1. PICK given \in SUBSET (Ids \ used), p \in Places :
          /\ o \in Partners => Cardinality(given) = 1
          /\ rows' = [i \in Ids |->
               IF i \in given THEN [owner |-> o, place |-> p, created |-> now] ELSE rows[i]]
          /\ used' = used \cup given
    BY <1>2 DEF Register
  <2>2. /\ o \notin registered /\ registered' = registered \cup {o}
        /\ UNCHANGED <<pc, call, now>>
    BY <1>2 DEF Register
  <2>3. \A i \in Ids : ~Exists(i) \/ i \in used
    BY <1>1 DEF RowsOK
  <2>4. AddressTypeOK'
    BY <1>1, <2>1, <2>2 DEF AddressTypeOK
  <2>5. \A i \in Ids : i \in given => Exists(i)' /\ rows'[i].owner = o
    <3>1. now \in Nat
      BY <1>1 DEF AddressTypeOK
    <3>2. [owner |-> o, place |-> p, created |-> now] # None
      BY <3>1, RowAssumption DEF Owners
    <3>. QED
      BY <2>1, <3>2 DEF Exists
  <2>6. \A i \in Ids : i \notin given => rows'[i] = rows[i] /\ (Exists(i)' <=> Exists(i))
    BY <2>1 DEF Exists
  <2>7. RowsOK'
    BY <1>1, <2>1, <2>2, <2>5, <2>6 DEF RowsOK
  <2>8. Of(o) = {}
    BY <1>1, <2>2 DEF RowsOK, Of
  <2>9. Of(o)' = given
    BY <2>5, <2>6, <2>8, <2>1 DEF Of
  <2>10. \A p2 \in Owners : p2 # o => Of(p2)' = Of(p2)
    <3>1. \A i \in given : i \in Ids /\ ~Exists(i)
      BY <2>1, <2>3
    <3>2. \A i \in Ids, p2 \in Owners : p2 # o =>
            (Exists(i)' /\ rows'[i].owner = p2 <=> Exists(i) /\ rows[i].owner = p2)
      BY <2>5, <2>6, <3>1
    <3>. QED
      BY <3>2 DEF Of
  <2>11. OneStoreAddress'
    <3>1. SUFFICES ASSUME NEW p2 \in Partners
                   PROVE  Cardinality(Of(p2)') = IF p2 \in registered' THEN 1 ELSE 0
      BY DEF OneStoreAddress
    <3>2. CASE p2 = o
      BY <2>1, <2>2, <2>9, <3>1, <3>2
    <3>3. CASE p2 # o
      BY <1>1, <2>2, <2>10, <3>1, <3>3 DEF OneStoreAddress, Owners
    <3>. QED
      BY <3>2, <3>3
  <2>12. \A r \in Requests : Fits(r)'
    <3>1. \A i \in used : rows'[i] = rows[i] /\ (Exists(i)' <=> Exists(i))
      BY <1>1, <2>6 DEF AddressTypeOK
    <3>2. \A r \in Requests : pc[r] \in {"save", "saveInsert"} /\ Exists(call[r].id)' =>
            Exists(call[r].id) /\ rows'[call[r].id] = rows[call[r].id]
      BY <1>1, <2>2, <3>1 DEF Fits, Exists
    <3>. QED
      BY <1>1, <2>1, <2>2, <3>2 DEF Fits, Exists
  <2>. QED
    BY <2>4, <2>7, <2>11, <2>12 DEF Inv
<1>3. ASSUME NEW u \in Users, Delete(u) PROVE Inv'
  <2>1. PICK i \in Of(u) : rows' = [rows EXCEPT ![i] = None]
    BY <1>3 DEF Delete
  <2>2. UNCHANGED <<registered, used, pc, call, now>>
    BY <1>3 DEF Delete
  <2>3. AddressTypeOK' /\ RowsOK' /\ \A r \in Requests : Fits(r)'
    BY <1>1, <2>1, <2>2 DEF AddressTypeOK, RowsOK, Fits, Exists, Of
  <2>4. \A p \in Partners : Of(p)' = Of(p)
    BY <1>1, <2>1, OwnersAssumption DEF Of, Exists, AddressTypeOK
  <2>. QED
    BY <1>1, <2>2, <2>3, <2>4, StoresKept DEF Inv
<1>4. ASSUME Tick \/ UNCHANGED avars PROVE Inv'
  <2>1. /\ UNCHANGED <<registered, rows, used, pc, call>>
        /\ now' \in Nat
    BY <1>1, <1>4 DEF Tick, avars, table, AddressTypeOK
  <2>2. AddressTypeOK' /\ RowsOK' /\ \A r \in Requests : Fits(r)'
    BY <1>1, <2>1 DEF AddressTypeOK, RowsOK, Fits, Exists
  <2>3. \A p \in Partners : Of(p)' = Of(p)
    BY <2>1 DEF Of, Exists
  <2>. QED
    BY <1>1, <2>1, <2>2, <2>3, StoresKept DEF Inv
<1>. QED
  BY <1>2, <1>3, <1>4

\* Every step keeps the invariant.
LEMMA NextInv == Inv /\ [AddressNext]_avars => Inv'
BY BeginsInv, WritesInv, OthersInv DEF AddressNext, Begins, Writes

\* A partner has one store address from the registration on.
THEOREM StoreAddress == AddressSpec => []OneStoreAddress
<1>1. Inv => OneStoreAddress
  BY DEF Inv
<1>. QED
  BY InitInv, NextInv, <1>1, PTL DEF AddressSpec

\* A deleted address that no Update has read never comes back.
LEMMA GoneStep ==
  ASSUME Inv, [AddressNext]_avars, NEW i \in Ids, Gone(i)
  PROVE  Gone(i)'
<1>1. /\ i \in used /\ ~Exists(i)
      /\ \A r \in Requests : pc[r] \in {"save", "saveInsert"} => call[r].id # i
      /\ AddressTypeOK
  BY DEF Gone, Inv
<1>. USE <1>1 DEF Gone, AddressTypeOK, Exists, Goto, Return, Start, NoCall
<1>2. CASE \E o \in Owners : Register(o)
  BY <1>2 DEF Register
<1>3. CASE \E u \in Users : Delete(u)
  BY <1>3 DEF Delete, Of
<1>4. CASE \E u \in Users, r \in Requests : Create(r, u)
  BY <1>4 DEF Create, table
<1>5. CASE \E u \in Users, r \in Requests : Update(r, u)
  BY <1>5 DEF Update, Of, table
<1>6. CASE \E r \in Requests, o \in Owners : UpdateProfile(r, o)
  BY <1>6 DEF UpdateProfile, table
<1>7. CASE \E r \in Requests : InsertAddress(r)
  BY <1>7 DEF InsertAddress, Insert
<1>8. CASE \E r \in Requests : Save(r)
  BY <1>8 DEF Save
<1>9. CASE \E r \in Requests : SaveInsert(r)
  BY <1>9 DEF SaveInsert
<1>10. CASE \E r \in Requests : FindPrimary(r) \/ FindStore(r)
  BY <1>10 DEF FindPrimary, FindStore, table
<1>11. CASE \E r \in Requests : Replace(r) \/ Abandon(r)
  BY <1>11 DEF Replace, Abandon, table
<1>12. CASE Tick \/ UNCHANGED avars
  BY <1>12 DEF Tick, avars, table
<1>. QED
  BY <1>2, <1>3, <1>4, <1>5, <1>6, <1>7, <1>8, <1>9, <1>10, <1>11, <1>12 DEF AddressNext

\* A deleted address that no Update has read stays deleted, whatever happens.
THEOREM DeletedAddress == AddressSpec => GoneForGood
<1>1. Inv /\ [AddressNext]_avars => [\A i \in Ids : Gone(i) => Gone(i)']_avars
  BY GoneStep
<1>. QED
  BY InitInv, NextInv, <1>1, PTL DEF AddressSpec, GoneForGood

-----------------------------------------------------------------------------
\* When an address was created.

Saving(r) == pc[r] \in {"save", "saveInsert"}

\* All calls that are about to save a row have the same created_at for it, the one
\* it has if it has not been deleted meanwhile.
CreatedOK ==
  \A r \in Requests : Saving(r) =>
    /\ Exists(call[r].id) => rows[call[r].id].created = call[r].created
    /\ \A q \in Requests :
         Saving(q) /\ call[q].id = call[r].id => call[q].created = call[r].created

\* A row that is there before and after a step keeps its created_at.
SameCreated ==
  \A i \in Ids : Exists(i) /\ Exists(i)' => rows'[i].created = rows[i].created

\* Statements that leave the table alone.
LEMMA CreatedRead ==
  ASSUME Inv, CreatedOK, NEW r \in Requests, Begins(r)
  PROVE  CreatedOK' /\ SameCreated
<1>1. AddressTypeOK
  BY DEF Inv
<1>2. rows' = rows
  BY DEF Begins, Create, Update, UpdateProfile, FindPrimary, FindStore, Abandon, table
<1>3. \A q \in Requests \ {r} : pc'[q] = pc[q] /\ call'[q] = call[q]
  BY <1>1 DEF Begins, Create, Update, UpdateProfile, FindPrimary, FindStore, Abandon,
     Start, Return, Goto, AddressTypeOK
<1>4. CASE \E u \in Users : Update(r, u)
  <2>1. PICK i \in Ids : /\ Exists(i) /\ call'[r].id = i
                         /\ call'[r].created = rows[i].created
    BY <1>1, <1>4 DEF Update, Start, Of, AddressTypeOK
  <2>2. \A q \in Requests \ {r} : Saving(q) /\ call[q].id = i =>
          call[q].created = rows[i].created
    BY <2>1 DEF CreatedOK
  <2>. QED
    BY <1>2, <1>3, <2>1, <2>2 DEF CreatedOK, Saving, Exists, SameCreated
<1>5. CASE ~\E u \in Users : Update(r, u)
  <2>1. ~Saving(r)'
    BY <1>1, <1>5 DEF Begins, Create, UpdateProfile, FindPrimary, FindStore, Abandon,
       Start, Return, Goto, AddressTypeOK, Saving
  <2>. QED
    BY <1>2, <1>3, <2>1 DEF CreatedOK, Saving, Exists, SameCreated
<1>. QED
  BY <1>4, <1>5

\* Statements that write a row: a new one, or the one that the call has read.
LEMMA CreatedWritten ==
  ASSUME Inv, CreatedOK, NEW r \in Requests, Writes(r)
  PROVE  CreatedOK' /\ SameCreated
<1>1. AddressTypeOK /\ RowsOK /\ Fits(r)
  BY DEF Inv
<1>2. \A q \in Requests \ {r} : pc'[q] = pc[q] /\ call'[q] = call[q]
  BY <1>1 DEF Writes, InsertAddress, Insert, Save, SaveInsert, Replace, Return, Goto,
     AddressTypeOK
<1>3. ASSUME Saving(r)' PROVE Saving(r) /\ call' = call /\ rows' = rows
  BY <1>1, <1>3 DEF Writes, InsertAddress, Insert, Save, SaveInsert, Replace, Return, Goto,
     AddressTypeOK, Saving
<1>4. \A q \in Requests : Saving(q)' => Saving(q) /\ call'[q] = call[q]
  BY <1>2, <1>3 DEF Saving
<1>5. ASSUME \A i \in Ids : Exists(i)' =>
               \/ Exists(i) /\ rows'[i].created = rows[i].created
               \/ ~Exists(i) /\ Saving(r) /\ call[r].id = i
                  /\ rows'[i].created = call[r].created
               \/ i \notin used
      PROVE  CreatedOK' /\ SameCreated
  <2>1. SameCreated
    BY <1>1, <1>5 DEF SameCreated, RowsOK
  <2>2. ASSUME NEW q \in Requests, Saving(q), rows'[call[q].id] # None
        PROVE  rows'[call[q].id].created = call[q].created
    <3>1. call[q].id \in used /\ used \subseteq Ids
      BY <1>1, <2>2 DEF Inv, Fits, Saving, AddressTypeOK
    <3>. QED
      BY <1>5, <2>2, <3>1 DEF CreatedOK, Exists
  <2>. QED
    BY <1>4, <2>1, <2>2 DEF CreatedOK, Exists
<1>6. CASE InsertAddress(r)
  BY <1>1, <1>5, <1>6 DEF InsertAddress, Insert, Exists, AddressTypeOK
<1>7. CASE Save(r) \/ SaveInsert(r)
  <2>1. call[r].id \in Ids /\ Saving(r)
    BY <1>1, <1>7 DEF Save, SaveInsert, Fits, AddressTypeOK, Saving
  <2>2. rows' = rows \/ rows' = [rows EXCEPT ![call[r].id] = Row(call[r])]
    BY <1>7 DEF Save, SaveInsert
  <2>3. Row(call[r]).created = call[r].created
    BY DEF Row
  <2>4. Exists(call[r].id) => rows[call[r].id].created = call[r].created
    BY <2>1 DEF CreatedOK
  <2>. QED
    BY <1>1, <1>5, <2>1, <2>2, <2>3, <2>4 DEF Exists, AddressTypeOK
<1>8. CASE Replace(r)
  <2>1. \A i \in Ids : Exists(i) => rows[i].created =
          [rows[i] EXCEPT !.place = call[r].place].created
    BY <1>1 DEF AddressTypeOK, Exists
  <2>2. \A i \in Ids : Exists(i)' => Exists(i) /\ rows'[i].created = rows[i].created
    BY <1>1, <1>8, <2>1 DEF Replace, Exists, AddressTypeOK
  <2>. QED
    BY <1>5, <2>2
<1>. QED
  BY <1>6, <1>7, <1>8 DEF Writes

\* Every statement on addresses.
LEMMA NextCreated ==
  ASSUME Inv, CreatedOK, [AddressNext]_avars
  PROVE  CreatedOK' /\ SameCreated
<1>1. AddressTypeOK /\ RowsOK
  BY DEF Inv
<1>2. CASE \E o \in Owners : Register(o)
  <2>1. \A i \in used : rows'[i] = rows[i]
    BY <1>1, <1>2 DEF Register, AddressTypeOK
  <2>2. pc' = pc /\ call' = call
    BY <1>2 DEF Register
  <2>3. \A r \in Requests : Saving(r) => call[r].id \in used
    BY DEF Inv, Fits, Saving
  <2>. QED
    BY <1>1, <2>1, <2>2, <2>3 DEF CreatedOK, SameCreated, Saving, Exists, RowsOK
<1>3. CASE \E u \in Users : Delete(u)
  BY <1>1, <1>3 DEF Delete, Of, CreatedOK, SameCreated, Saving, Exists, AddressTypeOK
<1>4. CASE Tick \/ UNCHANGED avars
  BY <1>4 DEF Tick, avars, table, CreatedOK, SameCreated, Saving, Exists
<1>. QED
  BY <1>2, <1>3, <1>4, CreatedRead, CreatedWritten DEF AddressNext, Begins, Writes

\* No statement changes when an address was created: Save writes the created_at
\* that GetByID has read, and that is the row's own even if another call has
\* deleted and a third one restored the row in between.
THEOREM CreatedNeverChanges == AddressSpec => [][SameCreated]_avars
<1>1. AddressInit => CreatedOK
  BY DEF AddressInit, CreatedOK, Saving
<1>2. Inv /\ CreatedOK /\ [AddressNext]_avars => CreatedOK' /\ [SameCreated]_avars
  BY NextCreated
<1>. QED
  BY InitInv, NextInv, <1>1, <1>2, PTL DEF AddressSpec
=============================================================================
