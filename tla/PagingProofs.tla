----------------------------- MODULE PagingProofs -----------------------------
(***************************************************************************)
(* Proofs about module Paging, for any page size and any list: what a page *)
(* contains, and what a client that goes from page to page may rely on     *)
(* while the list changes.                                                 *)
(***************************************************************************)
EXTENDS Paging, FiniteSetTheorems, TLAPS

-----------------------------------------------------------------------------
\* Types.

Labels == {"idle", "count", "find", "done"}

\* A client whose entries are among all.
IsReader(r, all) ==
  /\ r = [pc |-> r.pc, page |-> r.page, size |-> r.size, total |-> r.total,
          seen |-> r.seen, owed |-> r.owed, left |-> r.left, came |-> r.came,
          late |-> r.late, twice |-> r.twice]
  /\ r.pc \in Labels /\ r.seen \subseteq all /\ r.owed \subseteq all

\* A page is part of the list.
LEMMA PageType ==
  ASSUME NEW l, NEW limit, NEW offset, NEW page \in Pages(l, limit, offset)
  PROVE  page \subseteq Names(l)
<1>1. PICK s \in Ext!SetToSeqs(l) :
        page = {s[i].id : i \in {k \in DOMAIN s : offset < k /\ k <= offset + limit}}
  BY DEF Pages
<1>2. \A i \in DOMAIN s : s[i] \in l
  BY DEF Ext!SetToSeqs
<1>. QED
  BY <1>1, <1>2 DEF Names

\* The client goes from page to page, while the list changes.
LEMMA ReaderStep ==
  ASSUME NEW all, IsReader(reader, all), NEW l, Names(l) \subseteq all,
         \/ BeginPaging(l) \/ Count(l) \/ Find(l) \/ EndPaging
         \/ \E old, new, moved : Watch(old, new, moved)
  PROVE  IsReader(reader, all)'
<1>1. ASSUME BeginPaging(l) PROVE IsReader(reader, all)'
  BY <1>1 DEF BeginPaging, NoReader, IsReader, Labels
<1>2. ASSUME Count(l) PROVE IsReader(reader, all)'
  BY <1>2 DEF Count, IsReader, Labels
<1>3. ASSUME Find(l) PROVE IsReader(reader, all)'
  <2> DEFINE asked == NormalizePageParams(reader.page, reader.size)
             pages == NewPagination(asked.size, reader.total)
             next == IF reader.page < pages THEN "count" ELSE "done"
  <2>1. PICK page \in Pages(l, asked.size, Offset(asked.page, asked.size)) :
          reader' = [reader EXCEPT
            !.pc = next, !.page = reader.page + 1, !.seen = reader.seen \cup page,
            !.twice = reader.twice \/ reader.seen \cap page # {}]
    BY <1>3, Zenon DEF Find
  <2>2. page \subseteq all /\ next \in Labels
    BY PageType DEF Labels
  <2> HIDE DEF next
  <2>. QED
    BY <2>1, <2>2 DEF IsReader
<1>4. ASSUME EndPaging PROVE IsReader(reader, all)'
  BY <1>4 DEF EndPaging, NoReader, IsReader, Labels
<1>5. ASSUME NEW old, NEW new, NEW moved, Watch(old, new, moved)
      PROVE IsReader(reader, all)'
  BY <1>5 DEF Watch, IsReader, Labels
<1>. QED
  BY <1>1, <1>2, <1>3, <1>4, <1>5

-----------------------------------------------------------------------------
\* What a page contains.

\* The result of a SELECT: finitely many rows, each with an id of its own.
IsList(l) ==
  /\ IsFiniteSet(l)
  /\ \A e \in l : e.rank \in Int
  /\ \A e, f \in l : e.id = f.id => e = f

\* How many rows the ORDER BY puts before e.
Before(l, e) == {f \in l : f.rank < e.rank}
Position(l, e) == Cardinality(Before(l, e))

\* A position is a number less than the length of the list.
LEMMA Positions ==
  ASSUME NEW l, IsList(l)
  PROVE  /\ Cardinality(l) \in Nat
         /\ \A e \in l : Position(l, e) \in Nat /\ Position(l, e) < Cardinality(l)
<1>1. Cardinality(l) \in Nat
  BY FS_CardinalityType DEF IsList
<1>2. ASSUME NEW e \in l
      PROVE  Position(l, e) \in Nat /\ Position(l, e) < Cardinality(l)
  <2>1. Before(l, e) \in SUBSET l /\ e \notin Before(l, e)
    BY DEF Before, IsList
  <2>2. /\ IsFiniteSet(Before(l, e))
        /\ Cardinality(Before(l, e)) <= Cardinality(l)
        /\ Cardinality(l) # Cardinality(Before(l, e))
    BY <2>1, FS_Subset DEF IsList
  <2>3. Cardinality(Before(l, e)) \in Nat
    BY <2>2, FS_CardinalityType
  <2>. QED
    BY <1>1, <2>2, <2>3 DEF Position
<1>. QED
  BY <1>1, <1>2

\* With more rows, a row may only move back.
LEMMA PositionGrows ==
  ASSUME NEW k, NEW l, IsList(k), IsList(l), k \subseteq l, NEW e \in k
  PROVE  Position(k, e) <= Position(l, e)
<1>1. Before(k, e) \in SUBSET Before(l, e) /\ Before(l, e) \in SUBSET l
  BY DEF Before
<1>2. IsFiniteSet(Before(l, e))
  BY <1>1, FS_Subset DEF IsList
<1>. QED
  BY <1>1, <1>2, FS_Subset DEF Position

\* A list sorted by distinct ranks has at place k the row that k - 1 others
\* come before, and has every row somewhere.
LEMMA SortedPlaces ==
  ASSUME NEW l, IsList(l), ~Tied(l), NEW s \in Ext!SetToSeqs(l),
         \A i, j \in DOMAIN s : i < j => s[i].rank <= s[j].rank
  PROVE  /\ DOMAIN s = 1..Cardinality(l)
         /\ \A k \in DOMAIN s : s[k] \in l /\ Position(l, s[k]) = k - 1
         /\ \A e \in l : \E k \in DOMAIN s : s[k] = e
<1> DEFINE n == Cardinality(l)
           D == 1..n
<1>1. n \in Nat
  BY Positions
<1>2. s \in [D -> l] /\ \A i, j \in D : i # j => s[i] # s[j]
  <2>1. Ext!Cardinality(l) = Cardinality(l)
    BY DEF Ext!Cardinality, Cardinality
  <2>. QED
    BY <2>1 DEF Ext!SetToSeqs
<1>3. IsFiniteSet(D) /\ Cardinality(D) = n
  <2>1. n \in Int /\ 1 \in Int
    BY <1>1
  <2> HIDE DEF n
  <2>2. IsFiniteSet(1..n) /\ Cardinality(1..n) = IF 1 > n THEN 0 ELSE n - 1 + 1
    BY <2>1, FS_Interval
  <2>. QED
    BY <1>1, <2>2
<1>4. s \in Injection(D, l)
  BY <1>2 DEF Injection, IsInjective
<1>5. s \in Surjection(D, l)
  <2>1. IsFiniteSet(l) /\ Cardinality(D) = Cardinality(l)
    BY <1>3 DEF IsList
  <2> HIDE DEF D
  <2>. QED
    BY <1>4, <2>1, FS_Injection
<1>6. \A e \in l : \E k \in D : s[k] = e
  BY <1>5 DEF Surjection
<1>7. \A i, j \in D : i < j => s[i].rank < s[j].rank
  <2>. SUFFICES ASSUME NEW i \in D, NEW j \in D, i < j PROVE s[i].rank < s[j].rank
    OBVIOUS
  <2>1. s[i] \in l /\ s[j] \in l /\ s[i] # s[j]
    BY <1>1, <1>2
  <2>2. s[i].rank # s[j].rank
    BY <2>1 DEF Tied
  <2>. QED
    BY <1>2, <2>1, <2>2 DEF IsList
<1>8. ASSUME NEW k \in D PROVE Position(l, s[k]) = k - 1
  <2> DEFINE K == 1..(k - 1)
             t == [i \in K |-> s[i]]
  <2>1. k \in Nat \ {0} /\ \A i \in K : i \in D /\ i < k
    BY <1>1
  <2>2. \A i \in K : s[i] \in Before(l, s[k])
    BY <1>2, <1>7, <2>1 DEF Before
  <2>3. ASSUME NEW e \in Before(l, s[k]) PROVE \E i \in K : s[i] = e
    <3>1. e \in l /\ e.rank < s[k].rank
      BY <2>3 DEF Before
    <3>2. PICK i \in D : s[i] = e
      BY <1>6, <3>1
    <3>3. i < k
      <4>1. s[i].rank \in Int /\ s[k].rank \in Int
        BY <1>2 DEF IsList
      <4>2. i \in Nat /\ k \in Nat /\ i # k
        BY <1>1, <3>1, <3>2, <4>1
      <4>3. ~(k < i)
        BY <1>7, <3>1, <3>2, <4>1
      <4>. QED
        BY <4>2, <4>3
    <3>4. i \in K
      BY <1>1, <3>3
    <3>. QED
      BY <3>2, <3>4
  <2>4. t \in Bijection(K, Before(l, s[k]))
    <3>1. t \in [K -> Before(l, s[k])]
      BY <2>2
    <3>2. \A i, j \in K : t[i] = t[j] => i = j
      BY <1>2, <2>1
    <3>3. \A e \in Before(l, s[k]) : \E i \in K : t[i] = e
      BY <2>3
    <3>. QED
      BY <3>1, <3>2, <3>3 DEF Bijection, Injection, Surjection, IsInjective
  <2>5. k - 1 \in Nat
    BY <2>1
  <2>6. ExistsBijection(1..(k - 1), Before(l, s[k]))
    BY <2>4 DEF ExistsBijection
  <2>. QED
    BY <2>5, <2>6, FS_CountingElements DEF Position
<1>. QED
  BY <1>2, <1>6, <1>8

\* A page of a list without ties holds the rows that at least offset, and less
\* than offset + limit, others come before.
LEMMA PageRows ==
  ASSUME NEW l, IsList(l), ~Tied(l), NEW limit \in Nat, NEW offset \in Nat,
         NEW page \in Pages(l, limit, offset), NEW e \in l
  PROVE  e.id \in page <=> /\ offset <= Position(l, e)
                           /\ Position(l, e) < offset + limit
<1>1. PICK s \in Ext!SetToSeqs(l) :
        /\ \A i, j \in DOMAIN s : i < j => s[i].rank <= s[j].rank
        /\ page = {s[i].id : i \in {k \in DOMAIN s : offset < k /\ k <= offset + limit}}
  BY DEF Pages
<1>2. /\ DOMAIN s = 1..Cardinality(l) /\ Cardinality(l) \in Nat
      /\ \A k \in DOMAIN s : s[k] \in l /\ Position(l, s[k]) = k - 1
      /\ \E k \in DOMAIN s : s[k] = e
  BY <1>1, SortedPlaces, Positions
<1>3. PICK k \in DOMAIN s : s[k] = e
  BY <1>2
<1>4. k \in Nat /\ Position(l, e) = k - 1
  BY <1>2, <1>3
<1>5. ASSUME e.id \in page PROVE offset < k /\ k <= offset + limit
  <2>1. PICK i \in DOMAIN s : s[i].id = e.id /\ offset < i /\ i <= offset + limit
    BY <1>1, <1>5
  <2>2. s[i] = e
    BY <1>2, <2>1 DEF IsList
  <2>3. i \in Nat /\ i - 1 = k - 1
    BY <1>2, <1>4, <2>2
  <2>. QED
    BY <1>4, <2>1, <2>3
<1>6. ASSUME offset < k, k <= offset + limit PROVE e.id \in page
  BY <1>1, <1>3, <1>6
<1>. QED
  BY <1>4, <1>5, <1>6

-----------------------------------------------------------------------------
\* What the client may rely on.

PageSize(r) == NormalizePageParams(r.page, r.size).size

\* Rows on the pages that r has asked for.
Passed(r) == (r.page - 1) * PageSize(r)

\* As long as nothing came in or moved, what has been seen is behind the client;
\* as long as nothing left or moved, what has not been seen is ahead.
SeenBehind(r, l) == \A e \in l : e.id \in r.seen => Position(l, e) < Passed(r)
OwedAhead(r, l) ==
  /\ r.owed \subseteq Names(l)
  /\ \A e \in l : e.id \in r.owed \ r.seen => Position(l, e) >= Passed(r)

\* The total of this page is still right when nothing changed since the COUNT.
ReadOK(r, l) ==
  /\ r.pc # "idle" => r.size \in Int /\ r.page \in Nat \ {0}
  /\ r.pc \in {"count", "find"} =>
       /\ ~r.came => ~Tied(l) /\ SeenBehind(r, l)
       /\ ~r.left => ~Tied(l) /\ OwedAhead(r, l)
  /\ r.pc = "find" /\ ~r.left /\ ~r.late => Cardinality(l) = r.total
  /\ r.pc = "find" => r.total \in Nat

SkippedOK(r) == r.pc = "done" /\ ~(r.left \/ r.late) => r.owed \subseteq r.seen
TwiceOK(r) == r.twice => r.came

\* The page sizes that the backend uses.
LEMMA PageSizes ==
  ASSUME NEW page \in Nat \ {0}, NEW size \in Int
  PROVE  /\ NormalizePageParams(page, size).page = page
         /\ NormalizePageParams(page, size).size \in Nat \ {0}
BY PageSizeAssumption DEF NormalizePageParams

\* total_pages pages hold the whole list.
LEMMA PagesSuffice ==
  ASSUME NEW n \in Nat \ {0}, NEW size \in Nat \ {0}, NEW total \in Nat,
         ~(n < NewPagination(size, total))
  PROVE  total <= n * size
<1> DEFINE x == total + size - 1
           q == x \div size
           m == x % size
<1>1. x \in Int /\ size \in Int /\ size > 0
  OBVIOUS
<1>2. x = size * q + m /\ m \in 0..(size - 1) /\ q \in Int
  <2> HIDE DEF x
  <2>. QED
    BY <1>1
<1>3. q <= n
  BY <1>2 DEF NewPagination
<1> HIDE DEF q, m
<1>4. size * q <= size * n
  BY <1>2, <1>3
<1>5. total <= size * q
  BY <1>2
<1>6. size * q \in Int /\ size * n \in Int /\ size * n = n * size
  BY <1>2
<1>. QED
  BY <1>4, <1>5, <1>6

\* The client begins, with everything ahead.
LEMMA BeginReads ==
  ASSUME NEW all, IsReader(reader, all), NEW l, IsList(l), BeginPaging(l)
  PROVE  ReadOK(reader', l) /\ SkippedOK(reader') /\ TwiceOK(reader')
<1> DEFINE r == reader'
<1>1. /\ r.pc = "count" /\ r.page = 1 /\ r.size \in Int /\ r.seen = {}
      /\ r.owed = Names(l) /\ r.twice = FALSE
      /\ ~r.came => ~Tied(l)
      /\ ~r.left => ~Tied(l)
  <2>1. PICK size \in AskedSizes :
          reader' = [NoReader EXCEPT !.pc = "count", !.page = 1, !.size = size,
                       !.owed = Names(l), !.left = Tied(l), !.came = Tied(l)]
    BY DEF BeginPaging
  <2>. QED
    BY <2>1, PageSizeAssumption DEF NoReader
<1> HIDE DEF r
<1>2. Passed(r) = 0
  <2>1. PageSize(r) \in Nat
    BY <1>1, PageSizes DEF PageSize
  <2>. QED
    BY <1>1, <2>1 DEF Passed
<1>3. OwedAhead(r, l) /\ SeenBehind(r, l)
  BY <1>1, <1>2, Positions DEF OwedAhead, SeenBehind
<1>. QED
  BY <1>1, <1>3 DEF r, ReadOK, SkippedOK, TwiceOK

\* The COUNT.
LEMMA CountReads ==
  ASSUME NEW all, IsReader(reader, all), NEW l, IsList(l), Count(l),
         ReadOK(reader, l), TwiceOK(reader)
  PROVE  ReadOK(reader', l) /\ SkippedOK(reader') /\ TwiceOK(reader')
<1> DEFINE r == reader'
<1>1. /\ reader.pc = "count" /\ r.pc = "find" /\ r.page = reader.page
      /\ r.size = reader.size /\ r.total = Cardinality(l)
      /\ r.seen = reader.seen /\ r.owed = reader.owed /\ r.left = reader.left
      /\ r.came = reader.came /\ r.twice = reader.twice
  BY DEF Count, IsReader
<1>2. Cardinality(l) \in Nat
  BY Positions
<1> HIDE DEF r
<1>. QED
  BY <1>1, <1>2 DEF r, ReadOK, SkippedOK, TwiceOK, SeenBehind, OwedAhead, Passed, PageSize

\* The SELECT: the page holds the rows from Passed on.
LEMMA FindReads ==
  ASSUME NEW all, IsReader(reader, all), NEW l, IsList(l), Find(l),
         ReadOK(reader, l), TwiceOK(reader)
  PROVE  ReadOK(reader', l) /\ SkippedOK(reader') /\ TwiceOK(reader')
<1> DEFINE size == PageSize(reader)
           off == Passed(reader)
           r == reader'
           more == reader.page < NewPagination(size, reader.total)
<1>1. /\ reader.pc = "find" /\ reader.page \in Nat \ {0} /\ reader.size \in Int
      /\ reader.total \in Nat
  BY DEF Find, ReadOK
<1>2. /\ size \in Nat \ {0} /\ off \in Nat
      /\ NormalizePageParams(reader.page, reader.size).page = reader.page
  <2>1. size \in Nat \ {0} /\ reader.page - 1 \in Nat
    BY <1>1, PageSizes DEF PageSize
  <2> HIDE DEF size
  <2>2. off = (reader.page - 1) * size
    BY DEF Passed, size
  <2>3. \A a, b \in Nat : a * b \in Nat
    OBVIOUS
  <2>4. off \in Nat
    BY <2>1, <2>2, <2>3
  <2>5. NormalizePageParams(reader.page, reader.size).page = reader.page
    BY <1>1, PageSizes
  <2>. QED
    BY <2>1, <2>4, <2>5
<1>3. PICK page \in Pages(l, size, off) :
        reader' = [reader EXCEPT
          !.pc = IF more THEN "count" ELSE "done",
          !.page = reader.page + 1, !.seen = reader.seen \cup page,
          !.twice = reader.twice \/ reader.seen \cap page # {}]
  <2>1. off = Offset(reader.page, size)
    BY DEF Passed, Offset
  <2>2. PICK page \in Pages(l, size, Offset(reader.page, size)) :
          reader' = [reader EXCEPT
            !.pc = IF more THEN "count" ELSE "done",
            !.page = reader.page + 1, !.seen = reader.seen \cup page,
            !.twice = reader.twice \/ reader.seen \cap page # {}]
    BY <1>2 DEF Find, PageSize
  <2>. QED
    BY <2>1, <2>2
<1>4. /\ r.pc = IF more THEN "count" ELSE "done"
      /\ r.page = reader.page + 1 /\ r.size = reader.size
      /\ r.seen = reader.seen \cup page /\ r.owed = reader.owed
      /\ r.left = reader.left /\ r.came = reader.came /\ r.late = reader.late
      /\ r.twice => reader.twice \/ reader.seen \cap page # {}
  BY <1>3 DEF IsReader
<1> HIDE DEF r, more
<1>5. page \subseteq Names(l)
  BY PageType
<1>6. PageSize(r) = size
  BY <1>1, <1>4, PageSizeAssumption DEF PageSize, NormalizePageParams
<1> HIDE DEF size, off
<1>7. Passed(r) = off + size
  <2>1. Passed(r) = reader.page * size /\ off = (reader.page - 1) * size
    BY <1>1, <1>4, <1>6 DEF Passed, off, size
  <2>. QED
    BY <1>1, <1>2, <2>1
<1>8. \A e \in l : /\ Position(l, e) \in Nat /\ Position(l, e) < Cardinality(l)
                   /\ ~Tied(l) => (e.id \in page <=> /\ off <= Position(l, e)
                                                     /\ Position(l, e) < off + size)
  BY <1>2, PageRows, Positions
<1>9. ASSUME ~reader.came
      PROVE  ~Tied(l) /\ SeenBehind(r, l) /\ ~r.twice
  <2>1. ~Tied(l) /\ \A e \in l : e.id \in reader.seen => Position(l, e) < off
    BY <1>1, <1>9 DEF ReadOK, SeenBehind, off
  <2>2. \A e \in l : e.id \in r.seen => Position(l, e) < off + size
    BY <1>2, <1>4, <1>8, <2>1
  <2>3. reader.seen \cap page = {}
    BY <1>2, <1>5, <1>8, <2>1 DEF Names
  <2>4. ~reader.twice
    BY <1>9 DEF TwiceOK
  <2>. QED
    BY <1>4, <1>7, <2>1, <2>2, <2>3, <2>4 DEF SeenBehind
<1>10. ASSUME ~reader.left
       PROVE  ~Tied(l) /\ OwedAhead(r, l)
  <2>1. /\ ~Tied(l) /\ reader.owed \subseteq Names(l)
        /\ \A e \in l : e.id \in reader.owed \ reader.seen => Position(l, e) >= off
    BY <1>1, <1>10 DEF ReadOK, OwedAhead, off
  <2>2. \A e \in l : e.id \in r.owed \ r.seen => Position(l, e) >= off + size
    BY <1>2, <1>4, <1>8, <2>1
  <2>. QED
    BY <1>4, <1>7, <2>1, <2>2 DEF OwedAhead
<1>11. ASSUME ~more, ~reader.left, ~reader.late
       PROVE  r.owed \subseteq r.seen
  <2>1. reader.total <= reader.page * size
    BY <1>1, <1>2, <1>11, PagesSuffice DEF more
  <2>2. off + size = reader.page * size /\ Cardinality(l) = reader.total
    BY <1>1, <1>2, <1>7, <1>4, <1>6, <1>11 DEF Passed, ReadOK
  <2>3. \A e \in l : Position(l, e) < off + size
    BY <1>1, <1>2, <1>8, <2>1, <2>2
  <2>4. \A e \in l : e.id \notin r.owed \ r.seen
    BY <1>2, <1>7, <1>8, <1>10, <1>11, <2>3 DEF OwedAhead
  <2>. QED
    BY <1>10, <1>11, <2>4 DEF OwedAhead, Names
<1>12. ReadOK(r, l)
  BY <1>1, <1>4, <1>9, <1>10 DEF ReadOK
<1>13. SkippedOK(r) /\ TwiceOK(r)
  BY <1>4, <1>9, <1>11 DEF SkippedOK, TwiceOK
<1>. QED
  BY <1>12, <1>13 DEF r

\* The entries of two lists agree on what they have in common.
SameRanks(old, new) == \A e \in old, f \in new : e.id = f.id => e = f

\* The list changes behind the client's back.
LEMMA WatchReads ==
  ASSUME NEW all, IsReader(reader, all), NEW old, NEW new, NEW moved \in BOOLEAN,
         IsList(old), IsList(new), ~moved => SameRanks(old, new),
         Watch(old, new, moved), reader.pc # "done",
         ReadOK(reader, old), TwiceOK(reader)
  PROVE  ReadOK(reader', new) /\ SkippedOK(reader') /\ TwiceOK(reader')
<1> DEFINE r == reader'
           come == moved \/ Tied(new) \/ ~(Names(new) \subseteq Names(old))
           gone == moved \/ Tied(new) \/ ~(Names(old) \subseteq Names(new))
<1>1. CASE reader.pc \notin {"count", "find"}
  <2>1. reader' = reader
    BY <1>1 DEF Watch
  <2>. QED
    BY <1>1, <2>1 DEF ReadOK, SkippedOK, TwiceOK, IsReader, Labels
<1>2. CASE reader.pc \in {"count", "find"}
  <2>1. /\ r.pc = reader.pc /\ r.page = reader.page /\ r.size = reader.size
        /\ r.total = reader.total /\ r.seen = reader.seen /\ r.owed = reader.owed
        /\ r.left <=> reader.left \/ gone
        /\ r.came <=> reader.came \/ come
        /\ r.late <=> reader.late \/ (come /\ reader.pc = "find")
        /\ r.twice = reader.twice
    BY <1>2 DEF Watch, IsReader
  <2> HIDE DEF r
  <2>2. Passed(r) = Passed(reader) /\ Passed(reader) \in Int
    <3>1. /\ reader.page \in Nat \ {0} /\ reader.size \in Int
      BY <1>2 DEF ReadOK
    <3>2. PageSize(reader) \in Nat
      BY <3>1, PageSizes DEF PageSize
    <3>. QED
      BY <2>1, <3>1, <3>2 DEF Passed, PageSize
  <2>3. ASSUME ~come PROVE ~Tied(new) /\ new \subseteq old
    BY <2>3 DEF SameRanks, Names
  <2>4. ASSUME ~gone PROVE ~Tied(new) /\ old \subseteq new
    BY <2>4 DEF SameRanks, Names
  <2>5. ASSUME ~r.came PROVE ~Tied(new) /\ SeenBehind(r, new)
    <3>1. new \subseteq old /\ ~Tied(new) /\ SeenBehind(reader, old)
      BY <1>2, <2>1, <2>3, <2>5 DEF ReadOK
    <3>2. ASSUME NEW e \in new, e.id \in r.seen PROVE Position(new, e) < Passed(r)
      <4>1. Position(new, e) <= Position(old, e) /\ Position(old, e) < Passed(reader)
        BY <2>1, <3>1, <3>2, PositionGrows DEF SeenBehind
      <4>2. Position(new, e) \in Nat /\ Position(old, e) \in Nat
        BY <3>1, <3>2, Positions
      <4>. QED
        BY <2>2, <4>1, <4>2
    <3>. QED
      BY <3>1, <3>2 DEF SeenBehind
  <2>6. ASSUME ~r.left PROVE ~Tied(new) /\ OwedAhead(r, new)
    <3>1. old \subseteq new /\ ~Tied(new) /\ OwedAhead(reader, old)
      BY <1>2, <2>1, <2>4, <2>6 DEF ReadOK
    <3>2. r.owed \subseteq Names(old) /\ Names(old) \subseteq Names(new)
      BY <2>1, <3>1 DEF OwedAhead, Names
    <3>3. ASSUME NEW e \in new, e.id \in r.owed \ r.seen
          PROVE  Position(new, e) >= Passed(r)
      <4>1. e \in old
        <5>1. PICK f \in old : f.id = e.id
          BY <3>2, <3>3 DEF Names
        <5>. QED
          BY <3>1, <5>1 DEF IsList
      <4>2. Position(old, e) <= Position(new, e) /\ Position(old, e) >= Passed(reader)
        BY <2>1, <3>1, <3>3, <4>1, PositionGrows DEF OwedAhead
      <4>3. Position(new, e) \in Nat /\ Position(old, e) \in Nat
        BY <4>1, Positions
      <4>. QED
        BY <2>2, <4>2, <4>3
    <3>. QED
      BY <3>1, <3>2, <3>3 DEF OwedAhead
  <2>7. ASSUME r.pc = "find", ~r.left, ~r.late PROVE Cardinality(new) = r.total
    <3>1. new = old
      BY <2>1, <2>3, <2>4, <2>7
    <3>. QED
      BY <2>1, <2>7, <3>1 DEF ReadOK
  <2>8. ReadOK(r, new)
    BY <1>2, <2>1, <2>5, <2>6, <2>7 DEF ReadOK
  <2>9. SkippedOK(r) /\ TwiceOK(r)
    BY <1>2, <2>1 DEF SkippedOK, TwiceOK
  <2>. QED
    BY <2>8, <2>9 DEF r
<1>. QED
  BY <1>1, <1>2
================================================================================
