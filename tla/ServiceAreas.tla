---------------------------- MODULE ServiceAreas ----------------------------
(***************************************************************************)
(* The service areas and the localities they cover.  An area is saved with *)
(* the localities it was loaded with, and its listing of localities is     *)
(* then deleted and inserted again.  Every process does the same with the  *)
(* zones of the built-in catalogue when it boots.                          *)
(***************************************************************************)
EXTENDS Server, Sequences, FiniteSets

CONSTANTS
  Codes,        \* codes of the built-in zones, in their order
  NoCode,       \* an area without a code
  MaxAreas,     \* bound: areas inserted
  MaxListings   \* bound: listings inserted

ASSUME AreasAssumption ==
  /\ Codes \in Seq({Codes[n] : n \in DOMAIN Codes}) /\ Codes # <<>>
  /\ \A m, n \in DOMAIN Codes : Codes[m] = Codes[n] => m = n
  /\ \A n \in DOMAIN Codes : Codes[n] # NoCode
  /\ MaxAreas \in Nat /\ MaxListings \in Nat

VARIABLES
  areas,      \* service_areas, by id; ids are numbers given out once
  listed,     \* service_zone_areas: the listings each area has; one INSERT
              \* writes one listing
  areaIds,    \* how many ids areas have been given
  listings,   \* how many listings have been inserted
  referred,   \* areas that a booking or a price refers to
  beside,     \* history variable: listings inserted by a replacement whose
              \* DELETE ran while another request was about the area
  bare        \* history variable: areas that were last asked to have no
              \* locality, that a request died on before it inserted their
              \* listing, or that were inserted again with none

adata == <<areas, listed, areaIds, listings, referred, beside, bare>>
zvars == <<server, adata>>

Code == {Codes[n] : n \in DOMAIN Codes} \cup {NoCode}
Area == [code: Code, active: BOOLEAN]

\* What follows the save: the listing stays, or is replaced by none or by one.
Localities == {"unchanged", "none", "some"}

\* A request's step; the area's id, the row and the listings to be saved with
\* it, its new localities, and, of the seeding, the zone it has come to (else 0).
AreaStep ==
  {Idle}
    \cup [at: {"insert", "select", "insertAgain", "uses", "delete"}, id: Nat, mem: Area,
          rows: SUBSET Nat, new: Localities, n: Nat]
    \cup [at: {"update"}, id: Nat, mem: Area, dirty: SUBSET {"code", "active"},
          orphans: SUBSET Nat, again: SUBSET Nat, new: Localities, n: Nat]
    \cup [at: {"clear"}, id: Nat, new: Localities, n: Nat]
    \cup [at: {"list"}, id: Nat, beside: BOOLEAN, n: Nat]
    \cup [at: {"seed"}, n: Nat]

Known == DOMAIN areas

AreasTypeOK ==
  /\ Known \subseteq 1..areaIds /\ areas \in [Known -> Area]
  /\ listed \in [Known -> SUBSET (1..listings)]
  /\ areaIds \in Nat /\ listings \in Nat /\ referred \subseteq Known
  /\ beside \subseteq 1..listings /\ bare \subseteq 1..areaIds
  /\ req \in [Requests -> AreaStep] /\ overlaps \in Nat /\ deaths \in Nat

AreasInit ==
  /\ ServerInit
  /\ areas = <<>> /\ listed = <<>> /\ areaIds = 0 /\ listings = 0 /\ referred = {}
  /\ beside = {} /\ bare = {}

-----------------------------------------------------------------------------
(* Saving an area.                                                         *)

Put(f, i, x) == [j \in DOMAIN f \cup {i} |-> IF j = i THEN x ELSE f[j]]
Drop(f, i)   == [j \in DOMAIN f \ {i} |-> f[j]]

\* uq_service_areas_code, and what assertUniqueCode looks for.
CodeFree(i, row) ==
  row.code # NoCode => \A j \in Known \ {i} : areas[j].code # row.code

AreaSave(at, i, row, rows, new, n) ==
  [at |-> at, id |-> i, mem |-> row, rows |-> rows, new |-> new, n |-> n]

\* After the save the listing is replaced, unless the request leaves it out.
AfterSave(q, i) ==
  IF req[q].new = "unchanged" THEN Answer(q)
  ELSE Go(q, [at |-> "clear", id |-> i, new |-> req[q].new, n |-> req[q].n])

\* create, of an area with localities or, since they are optional, without.
CreateArea(q) ==
  /\ \E code \in Code, new \in {"none", "some"} :
       LET row == [code |-> code, active |-> TRUE] IN
       CodeFree(0, row) /\ Start(q, AreaSave("insert", 0, row, {}, new, 0))
  /\ UNCHANGED adata

\* INSERT; the seeding ends with the first statement that is refused.
InsertArea(q) ==
  /\ At(q, "insert")
  /\ LET i == areaIds + 1  row == req[q].mem IN
     IF CodeFree(i, row)
     THEN /\ areaIds < MaxAreas /\ areaIds' = i
          /\ areas' = Put(areas, i, row) /\ listed' = Put(listed, i, {})
          /\ AfterSave(q, i)
     ELSE Answer(q) /\ UNCHANGED <<areas, listed, areaIds>>
  /\ UNCHANGED <<listings, referred, beside, bare>>

\* update: the area is loaded with its listings, which are a part of what is
\* saved; the request may hold new localities, an empty list among them, and
\* changes one column.
UpdateArea(q) ==
  /\ \E a \in Known, row \in Area, new \in Localities :
       /\ row.code = areas[a].code \/ row.active = areas[a].active
       /\ CodeFree(a, row)
       /\ Start(q, AreaSave("select", a, row, listed[a], new, 0))
  /\ UNCHANGED adata

\* SELECT and compare, of the row and of the listings: those that have come
\* in are orphans, those that have gone will be inserted again.  The seeding
\* has loaded none and leaves them alone.
SelectArea(q) ==
  /\ At(q, "select")
  /\ LET r       == req[q]
         diff    == {c \in {"code", "active"} : areas[r.id][c] # r.mem[c]}
         orphans == IF r.n = 0 THEN listed[r.id] \ r.rows ELSE {}
         again   == IF r.n = 0 THEN r.rows \ listed[r.id] ELSE {}
     IN  IF r.id \notin Known THEN Go(q, [r EXCEPT !.at = "insertAgain"])
         ELSE IF diff = {} /\ orphans = {} /\ again = {} THEN AfterSave(q, r.id)
         ELSE Go(q, [at |-> "update", id |-> r.id, mem |-> r.mem, dirty |-> diff,
                     orphans |-> orphans, again |-> again, new |-> r.new,
                     n |-> r.n])
  /\ UNCHANGED adata

\* The transaction is refused if an orphan would lose its area, which may not
\* be NULL, if a listing to be inserted again is back, or its area is gone.
Refused(r, row) ==
  IF r.id \in Known
  THEN (r.orphans \cup r.again) \cap listed[r.id] # {} \/ ~CodeFree(r.id, row)
  ELSE r.again # {}

WriteArea(q) ==
  /\ At(q, "update")
  /\ LET r    == req[q]
         here == r.id \in Known
         row  == [c \in {"code", "active"} |->
                    IF c \in r.dirty THEN r.mem[c] ELSE areas[r.id][c]]
     IN  /\ areas'  = IF here /\ ~Refused(r, row) THEN Put(areas, r.id, row) ELSE areas
         /\ listed' = IF here /\ ~Refused(r, row)
                      THEN [listed EXCEPT ![r.id] = @ \cup r.again] ELSE listed
         /\ IF Refused(r, row) THEN Answer(q) ELSE AfterSave(q, r.id)
  /\ UNCHANGED <<areaIds, listings, referred, beside, bare>>

\* INSERT, with its listings, of an area that was gone when save looked.
InsertAreaAgain(q) ==
  /\ At(q, "insertAgain")
  /\ LET r == req[q] IN
     IF r.id \in Known \/ ~CodeFree(r.id, r.mem)
     THEN Answer(q) /\ UNCHANGED <<areas, listed, bare>>
     ELSE /\ areas' = Put(areas, r.id, r.mem) /\ listed' = Put(listed, r.id, r.rows)
          /\ bare' = IF r.rows = {} THEN bare \cup {r.id} ELSE bare
          /\ AfterSave(q, r.id)
  /\ UNCHANGED <<areaIds, listings, referred, beside>>

\* Another request has to do with the area.
AboutArea(p, a) == InFlight(p) /\ req[p].at # "seed" /\ req[p].id = a
Shared(q) == \E p \in Requests \ {q} : AboutArea(p, req[q].id)

\* There is nothing to insert, or there is.
Cleared(q) ==
  LET r == req[q] IN
  IF r.new = "none" THEN Answer(q) /\ bare' = bare \cup {r.id}
  ELSE /\ Go(q, [at |-> "list", id |-> r.id, beside |-> Shared(q), n |-> r.n])
       /\ UNCHANGED bare

\* Mutant: the old listing stays.
KeepListing(q) ==
  /\ At(q, "clear") /\ Cleared(q)
  /\ UNCHANGED <<areas, listed, areaIds, listings, referred, beside>>

\* replaceZoneAreas: DELETE of the listings there are ...
ClearListing(q) ==
  /\ At(q, "clear") /\ Cleared(q)
  /\ listed' = [a \in Known |-> IF a = req[q].id THEN {} ELSE listed[a]]
  /\ UNCHANGED <<areas, areaIds, listings, referred, beside>>

\* Mutant: the INSERT comes to nothing and the request is answered.
SkipListing(q) == At(q, "list") /\ Answer(q) /\ UNCHANGED adata

\* ... and INSERT of the new one, refused if the area is gone.  The seeding
\* goes on to the next zone.
InsertListing(q) ==
  /\ At(q, "list")
  /\ LET r == req[q] IN
     IF r.id \notin Known THEN Answer(q) /\ UNCHANGED <<listings, listed, beside, bare>>
     ELSE /\ listings < MaxListings /\ listings' = listings + 1
          /\ listed' = [listed EXCEPT ![r.id] = @ \cup {listings + 1}]
          /\ beside' = beside \cup (IF r.beside THEN {listings + 1} ELSE {})
          /\ bare' = bare \ {r.id}
          /\ IF r.n \in 1..Len(Codes) - 1 THEN Go(q, [at |-> "seed", n |-> r.n + 1])
                                          ELSE Answer(q)
  /\ UNCHANGED <<areas, areaIds, referred>>

-----------------------------------------------------------------------------
(* The built-in zones, and removal.                                        *)

\* onModuleInit of a process.
BootZones(q) == Start(q, [at |-> "seed", n |-> 1]) /\ UNCHANGED adata

\* seedCatalog looks for each zone by its code, saves it and lists it again.
SeedZone(q) ==
  /\ At(q, "seed")
  /\ LET n     == req[q].n
         found == {a \in Known : areas[a].code = Codes[n]}
     IN  IF found = {}
         THEN Go(q, AreaSave("insert", 0, [code |-> Codes[n], active |-> TRUE], {}, "some", n))
         ELSE \E a \in found : Go(q, AreaSave("select", a, areas[a], {}, "some", n))
  /\ UNCHANGED adata

\* A booking or a price refers to an area.
ReferToArea ==
  /\ \E a \in Known \ referred : referred' = referred \cup {a}
  /\ UNCHANGED <<server, areas, listed, areaIds, listings, beside, bare>>

\* remove has loaded the area with its listings.
RemoveArea(q) ==
  /\ \E a \in Known : Start(q, AreaSave("uses", a, areas[a], listed[a], "unchanged", 0))
  /\ UNCHANGED adata

\* "Areas referenced by bookings or pricing are deactivated, not deleted."
CountReferences(q) ==
  /\ At(q, "uses")
  /\ LET r == req[q] IN
     IF r.id \notin referred THEN Go(q, [r EXCEPT !.at = "delete"])
     ELSE IF r.mem.active THEN Go(q, [r EXCEPT !.at = "select", !.mem.active = FALSE])
     ELSE Answer(q)
  /\ UNCHANGED adata

\* DELETE, refused if a reference has come in; the listings go with the area.
DeleteArea(q) ==
  /\ At(q, "delete")
  /\ IF req[q].id \in referred THEN UNCHANGED <<areas, listed>>
     ELSE areas' = Drop(areas, req[q].id) /\ listed' = Drop(listed, req[q].id)
  /\ Answer(q)
  /\ UNCHANGED <<areaIds, listings, referred, beside, bare>>

AreaCrash(q) ==
  /\ Die(q)
  /\ bare' = bare \cup (IF req[q].at \in {"clear", "list"} THEN {req[q].id} ELSE {})
  /\ UNCHANGED <<areas, listed, areaIds, listings, referred, beside>>

-----------------------------------------------------------------------------
AreaRoutes(q) == CreateArea(q) \/ UpdateArea(q) \/ RemoveArea(q)

AreasNext ==
  \/ ReferToArea
  \/ \E q \in Requests :
       \/ AreaRoutes(q) \/ InsertArea(q) \/ SelectArea(q) \/ WriteArea(q)
       \/ InsertAreaAgain(q) \/ ClearListing(q) \/ InsertListing(q)
       \/ BootZones(q) \/ SeedZone(q) \/ CountReferences(q) \/ DeleteArea(q) \/ AreaCrash(q)

AreasSpec == AreasInit /\ [][AreasNext]_zvars

-----------------------------------------------------------------------------
(* Properties.                                                             *)

\* An address is matched to an area by the localities listed for it.  Of an
\* area's listings all but one were inserted by a replacement that another
\* request for the area overlapped, whatever boots, updates, removals and deaths
\* have come, and whatever a save has brought back.
OneListing ==
  \A a \in Known : \A x, y \in listed[a] \ beside : x = y

\* An area has no listing only if it was last asked to have none, a request
\* died between the DELETE and the INSERT, or a save inserted the area again
\* that another request had removed.
ListingKept == Quiet => \A a \in Known : listed[a] = {} => a \in bare
=============================================================================
