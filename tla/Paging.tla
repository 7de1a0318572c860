-------------------------------- MODULE Paging --------------------------------
(***************************************************************************)
(* Lists that are read page by page (src/internal/dto/pagination.go and    *)
(* the services and repositories that use it): a client asks for pages 1,  *)
(* 2, ... until the total_pages of the last response, and each page is     *)
(* the result of two statements, a COUNT and a SELECT with LIMIT and       *)
(* OFFSET, between which the list may change.                              *)
(*                                                                         *)
(* A list is a set of [id, rank] records; the SELECT orders it by rank     *)
(* alone and may give entries of the same rank in any order, another one   *)
(* each time.                                                              *)
(***************************************************************************)
EXTENDS Integers, Sequences, FiniteSets

Ext == INSTANCE SequencesExt

CONSTANTS
  AskedSizes,      \* the page_size that clients ask for
  DefaultPageSize,
  MaxPageSize

ASSUME PageSizeAssumption ==
  /\ AskedSizes \subseteq Int
  /\ DefaultPageSize \in 1..MaxPageSize /\ MaxPageSize \in Nat

VARIABLE
  reader  \* the client, the page it is at, and what it has seen

\* size: the page size asked for. seen, and owed: the entries when it began. Since
\* then an entry has ... left: left the list; came: come in; late: come in between
\* the two statements of this page. An entry that moves, and two of the same rank,
\* count as left and as come in. twice: an entry was seen again.
NoReader ==
  [pc |-> "idle", page |-> 0, size |-> 0, total |-> 0, seen |-> {}, owed |-> {},
   left |-> FALSE, came |-> FALSE, late |-> FALSE, twice |-> FALSE]

NormalizePageParams(page, size) ==
  [page |-> IF page < 1 THEN 1 ELSE page,
   size |-> IF size < 1 THEN DefaultPageSize
            ELSE IF size > MaxPageSize THEN MaxPageSize ELSE size]

\* A last page that is not full does not count.
FaultyNewPagination(size, total) == total \div size

\* total_pages.
NewPagination(size, total) == (total + size - 1) \div size

\* The first entry of each page is the last one of the page before.
FaultyOffset(page, size) == (page - 1) * (IF size > 1 THEN size - 1 ELSE size)

Offset(page, size) == (page - 1) * size

Names(list) == {e.id : e \in list}
Tied(list) == \E e, f \in list : e # f /\ e.rank = f.rank

\* The pages that LIMIT and OFFSET may select.
Pages(list, limit, offset) ==
  LET sorted == {s \in Ext!SetToSeqs(list) :
                   \A i, j \in DOMAIN s : i < j => s[i].rank <= s[j].rank}
  IN {{s[i].id : i \in {k \in DOMAIN s : offset < k /\ k <= offset + limit}} :
        s \in sorted}

-----------------------------------------------------------------------------
\* The client. Each action has the list as it is now.

BeginPaging(list) ==
  /\ reader.pc = "idle"
  /\ \E size \in AskedSizes :
       reader' = [NoReader EXCEPT !.pc = "count", !.page = 1, !.size = size,
                                  !.owed = Names(list), !.left = Tied(list),
                                  !.came = Tied(list)]

Count(list) ==
  /\ reader.pc = "count"
  /\ reader' = [reader EXCEPT !.pc = "find", !.total = Cardinality(list), !.late = FALSE]

Find(list) ==
  LET asked == NormalizePageParams(reader.page, reader.size)
      pages == NewPagination(asked.size, reader.total)
  IN /\ reader.pc = "find"
     /\ \E page \in Pages(list, asked.size, Offset(asked.page, asked.size)) :
          reader' = [reader EXCEPT
            !.pc = IF reader.page < pages THEN "count" ELSE "done",
            !.page = @ + 1, !.seen = @ \cup page,
            !.twice = @ \/ reader.seen \cap page # {}]

EndPaging == reader.pc = "done" /\ reader' = NoReader

\* What the client will not know of: the list has changed from old to new, and
\* moved is whether an entry has changed its place in it.
Watch(old, new, moved) ==
  LET disorder == moved \/ Tied(new)
      came == disorder \/ ~(Names(new) \subseteq Names(old))
  IN reader' =
       IF reader.pc \notin {"count", "find"} THEN reader
       ELSE [reader EXCEPT
              !.left = @ \/ disorder \/ ~(Names(old) \subseteq Names(new)),
              !.came = @ \/ came,
              !.late = @ \/ (came /\ reader.pc = "find")]
=============================================================================
