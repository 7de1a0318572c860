---------------------------- MODULE PartnerProfile ----------------------------
(***************************************************************************)
(* The profile of a partner: working hours and service area (UpdateProfile *)
(* of src/internal/service/partner_service.go, UpdateProfile and           *)
(* UpsertServiceArea of src/internal/repository/partner_repository.go).    *)
(*                                                                         *)
(* One partner is enough: no statement touches the rows of two. A polygon  *)
(* is named by a value of Polygons that also names the rows of its         *)
(* vertices, which are inserted in one statement and visible together.     *)
(* Names and the store address, which depend on nothing, are left out.     *)
(*                                                                         *)
(* A step is one statement, the last statement of a transaction together   *)
(* with its COMMIT, as in module Booking. So no other request ever sees    *)
(* the row of the partner locked.                                          *)
(***************************************************************************)
EXTENDS Integers

CONSTANTS
  Requests,
  Times,     \* times of day, in minutes
  Polygons,
  MayFail,   \* whether statements may fail
  None       \* no value given

ASSUME TimesAssumption ==
  Times \subseteq Nat /\ None \notin Times \cup Polygons /\ MayFail \in BOOLEAN
\* Hours and a polygon for a partner to register with.
ASSUME RegisterAssumption ==
  Polygons # {} /\ \E start, end \in Times : start < end

VARIABLES
  hours,    \* start_time and end_time
  vertices, \* polygons whose vertices are committed
  area,     \* service_area, the polygon it was derived from
  pc,       \* next statement of each request
  call      \* its arguments and local variables

partner == <<hours, vertices, area>>
pvars == <<partner, pc, call>>

\* doomed: rows that DELETE found; deleted: rows that it has deleted.
NoCall ==
  [start |-> None, end |-> None, polygon |-> None, doomed |-> {}, deleted |-> {}]

\* Register requires hours and a polygon.
ProfileInit ==
  /\ hours \in {h \in [start : Times, end : Times] : h.start < h.end}
  /\ \E p \in Polygons : vertices = {p} /\ area = p
  /\ pc = [r \in Requests |-> "idle"]
  /\ call = [r \in Requests |-> NoCall]

Goto(r, label) == pc' = [pc EXCEPT ![r] = label]
Return(r) == Goto(r, "idle") /\ call' = [call EXCEPT ![r] = NoCall]

\* setIfChanged: the value to store, None if there is none.
IfChanged(val, current) == IF val = current THEN None ELSE val

\* valueOr.
ValueOr(val, fallback) == IF val # None THEN val ELSE fallback

\* ValidateWorkingHours of the merged values, if either is given.
Ordered(start, end) ==
  start # None \/ end # None =>
    ValueOr(start, hours.start) < ValueOr(end, hours.end)

\* Vertices get fresh ids.
Fresh(p) == p \notin vertices /\ \A r \in Requests : call[r].polygon # p

\* GetByID and the choice of the fields to update.
UpdateProfile(r) ==
  /\ pc[r] = "idle"
  /\ \E start, end \in Times \cup {None}, polygon \in Polygons \cup {None} :
       /\ Ordered(start, end)
       /\ polygon # None => Fresh(polygon)
       /\ LET s == IfChanged(start, hours.start)
              e == IfChanged(end, hours.end)
              changed == s # None \/ e # None
          IN /\ changed \/ polygon # None
             /\ call' = [call EXCEPT ![r] =
                  [NoCall EXCEPT !.start = s, !.end = e, !.polygon = polygon]]
             /\ Goto(r, IF changed THEN "hours" ELSE "scan")
  /\ UNCHANGED partner

\* What is not given is erased.
FaultyStoreHours(r) ==
  /\ pc[r] = "hours"
  /\ hours' = [start |-> call[r].start, end |-> call[r].end]
  /\ IF call[r].polygon = None THEN Return(r) ELSE Goto(r, "scan") /\ UNCHANGED call
  /\ UNCHANGED <<vertices, area>>

\* UPDATE partners SET start_time, end_time.
StoreHours(r) ==
  /\ pc[r] = "hours"
  /\ hours' = [start |-> ValueOr(call[r].start, hours.start),
               end |-> ValueOr(call[r].end, hours.end)]
  /\ IF call[r].polygon = None THEN Return(r) ELSE Goto(r, "scan") /\ UNCHANGED call
  /\ UNCHANGED <<vertices, area>>

\* DELETE finds the vertices that are committed when it starts.
ScanVertices(r) ==
  /\ pc[r] = "scan"
  /\ call' = [call EXCEPT ![r].doomed = vertices]
  /\ Goto(r, "delete")
  /\ UNCHANGED partner

\* It waits for transactions that have deleted some of them, then deletes those
\* that are still there.
DeleteVertices(r) ==
  /\ pc[r] = "delete"
  /\ \A q \in Requests \ {r} : call[q].deleted \cap call[r].doomed = {}
  /\ call' = [call EXCEPT ![r].deleted = call[r].doomed \cap vertices, ![r].doomed = {}]
  /\ Goto(r, "insert")
  /\ UNCHANGED partner

\* The vertices are committed by themselves.
FaultyInsertVertices(r) ==
  /\ pc[r] = "insert"
  /\ vertices' = (vertices \ call[r].deleted) \cup {call[r].polygon}
  /\ call' = [call EXCEPT ![r].deleted = {}]
  /\ Goto(r, "derive")
  /\ UNCHANGED <<hours, area>>

\* INSERT of the new vertices, which nobody else can see yet.
InsertVertices(r) ==
  /\ pc[r] = "insert"
  /\ Goto(r, "derive")
  /\ UNCHANGED <<partner, call>>

\* UPDATE partners SET service_area, and COMMIT.
DeriveArea(r) ==
  /\ pc[r] = "derive"
  /\ area' = call[r].polygon
  /\ vertices' = (vertices \ call[r].deleted) \cup {call[r].polygon}
  /\ Return(r)
  /\ UNCHANGED hours

\* A statement fails; what is committed stays.
Abandon(r) ==
  /\ MayFail /\ pc[r] # "idle"
  /\ Return(r)
  /\ UNCHANGED partner

ProfileNext(r) ==
  \/ UpdateProfile(r) \/ StoreHours(r)
  \/ ScanVertices(r) \/ DeleteVertices(r) \/ InsertVertices(r) \/ DeriveArea(r)
  \/ Abandon(r)

-----------------------------------------------------------------------------
\* Properties.

Calls ==
  [start : Times \cup {None}, end : Times \cup {None}, polygon : Polygons \cup {None},
   doomed : SUBSET Polygons, deleted : SUBSET Polygons]

\* Every column and local variable holds values of its type.
ProfileTypeOK ==
  /\ hours \in [start : Times, end : Times]
  /\ vertices \subseteq Polygons /\ area \in Polygons
  /\ pc \in [Requests -> {"idle", "hours", "scan", "delete", "insert", "derive"}]
  /\ call \in [Requests -> Calls]

\* The area that searches use is that of a polygon whose vertices the partner's
\* profile still shows, although two calls that replace it at the same time each
\* delete what they found before either stores its own, and fail anywhere.
AreaKeepsVertices == area \in vertices

\* What the comments of the code say and the code does not do.

\* "UpsertServiceArea replaces the partner's operating-area polygon vertices and
\* re-derives the geography(Polygon) column": the vertices are those of the area.
AreaMatchesVertices == vertices = {area}
=============================================================================
