----------------------------- MODULE Catalogue -----------------------------
(***************************************************************************)
(* What admins maintain and customers choose from: categories of services, *)
(* services and their prices, the cards of the home screen, and societies. *)
(* Every handler loads a row, checks something, and saves or deletes it in *)
(* later statements, without a transaction; what two tables promise each   *)
(* other is kept by foreign keys, where there are some.  A behaviour is    *)
(* about one section, the tables that a handler and its checks touch.      *)
(***************************************************************************)
EXTENDS Server, FiniteSets

CONSTANTS
  MaxIds,     \* bound: the rows each table is given
  PriceArea,  \* the areas a price may be for
  NoId        \* no row; of a price's area: any

Grouping == {"categories", "services"}
Offers   == {"services", "prices"}
Home     == {"homeCategories", "options", "popular"}
Others   == {"societies"}
Sections == {Grouping, Offers, Home, Others}
Tables   == UNION Sections

\* Ids are numbers given out once; a table lists its rows by id.
ASSUME CatalogueAssumption == MaxIds \in [Tables -> Nat] /\ NoId \notin Nat

VARIABLES
  section,  \* what the behaviour is about
  table,    \* the rows of each table
  issued,   \* how many ids each table has given out
  booked    \* services that booking_items refer to

cdata == <<section, table, issued, booked>>
cvars == <<server, cdata>>

Ids(t)      == 1..MaxIds[t]
Link(t)     == Ids(t) \cup {NoId}
There(t)    == DOMAIN table[t]
Linkable(t) == There(t) \cup {NoId}

\* The columns that matter here.
Category     == [active: BOOLEAN]
Service      == [category: Link("categories"), active: BOOLEAN]
Price        == [service: Ids("services"), area: PriceArea \cup {NoId}, active: BOOLEAN]
HomeCategory == [active: BOOLEAN]
HomeOption   == [category: Ids("homeCategories")]
HomeCard     == [category: Link("homeCategories"), option: Link("options")]
Society      == [active: BOOLEAN]

Shape == [
  categories |-> Category, services |-> Service, prices |-> Price,
  homeCategories |-> HomeCategory, options |-> HomeOption, popular |-> HomeCard,
  societies |-> Society]

AnyRow == UNION {Shape[t] : t \in Tables}
AnyColumn == UNION {DOMAIN row : row \in AnyRow}

\* A request's step, the row it is about and what it has of it in memory.
CatalogueStep ==
  {Idle}
    \cup [at: {"insert"}, t: Tables, row: AnyRow]
    \cup [at: {"clash", "uses", "select", "insertAgain", "delete", "deletePrices"},
          t: Tables, id: Nat, mem: AnyRow]
    \cup [at: {"update"}, t: Tables, id: Nat, mem: AnyRow, dirty: SUBSET AnyColumn]
    \cup [at: {"book"}, service: Nat]

CatalogueTypeOK ==
  /\ section \in Sections
  /\ issued \in [Tables -> Nat]
  /\ DOMAIN table = Tables
  /\ \A t \in Tables : /\ There(t) \subseteq 1..issued[t]
                       /\ \A i \in There(t) : table[t][i] \in Shape[t]
  /\ booked \subseteq There("services")
  /\ req \in [Requests -> CatalogueStep] /\ overlaps \in Nat /\ deaths \in Nat

CatalogueInit ==
  /\ ServerInit
  /\ section \in Sections
  /\ table = [t \in Tables |-> <<>>] /\ issued = [t \in Tables |-> 0]
  /\ booked = {}

-----------------------------------------------------------------------------
(* Rows and the foreign keys between them.                                 *)

With(f, i, x) == [j \in DOMAIN f \cup {i} |-> IF j = i THEN x ELSE f[j]]
Without(f, S) == [j \in DOMAIN f \ S |-> f[j]]

\* What a row refers to exists.
Refers(t, row) ==
  CASE t = "services" -> row.category \in Linkable("categories")
    [] t = "prices"   -> row.service \in There("services")
    [] t = "options"  -> row.category \in There("homeCategories")
    [] t = "popular"  -> /\ row.category \in Linkable("homeCategories")
                         /\ row.option \in Linkable("options")
    [] OTHER          -> TRUE

\* A row that other rows need: the foreign keys without ON DELETE.
Needed(t, i) ==
  CASE t = "categories" -> \E s \in There("services") : table["services"][s].category = i
    [] t = "services"   -> \/ \E p \in There("prices") : table["prices"][p].service = i
                           \/ i \in booked
    [] OTHER            -> FALSE

\* What is left of the tables when row i of t goes: options go with their
\* category (CASCADE), cards lose their links (SET NULL).
Deleted(t, i) ==
  LET lost(u) == IF u = t THEN {i}
                 ELSE IF t = "homeCategories" /\ u = "options"
                      THEN {o \in There(u) : table[u][o].category = i}
                      ELSE {}
      unlink(row) == [category |-> IF row.category \in lost("homeCategories")
                                   THEN NoId ELSE row.category,
                      option   |-> IF row.option \in lost("options")
                                   THEN NoId ELSE row.option]
      left(u) == Without(table[u], lost(u))
  IN  [u \in Tables |-> IF u = "popular" THEN [c \in DOMAIN left(u) |-> unlink(left(u)[c])]
                                         ELSE left(u)]

\* Links of a card: an option belongs to the category chosen with it.
LinksValid(category, option) ==
  /\ category \in Linkable("homeCategories") /\ option \in Linkable("options")
  /\ category # NoId /\ option # NoId => table["options"][option].category = category

\* An active price for the same service and area, other than row i.
Clash(i, row) ==
  \E p \in There("prices") \ {i} :
    /\ table["prices"][p].active
    /\ table["prices"][p].service = row.service /\ table["prices"][p].area = row.area

-----------------------------------------------------------------------------
(* Any table's handlers: what is looked up first is in the action that     *)
(* starts the request.                                                     *)

\* create: what the row refers to is there.
Creating(q, t, row) ==
  /\ t \in section /\ issued[t] < MaxIds[t] /\ Refers(t, row)
  /\ Start(q, [at |-> "insert", t |-> t, row |-> row])
  /\ UNCHANGED cdata

\* INSERT, refused if what the row refers to is gone by now.
Insert(q) ==
  /\ At(q, "insert")
  /\ LET t == req[q].t  i == issued[t] + 1 IN
     IF Refers(t, req[q].row)
     THEN /\ issued[t] < MaxIds[t] /\ issued' = [issued EXCEPT ![t] = i]
          /\ table' = [table EXCEPT ![t] = With(@, i, req[q].row)]
     ELSE UNCHANGED <<issued, table>>
  /\ Answer(q)
  /\ UNCHANGED <<section, booked>>

Saving(at, t, i, row) == [at |-> at, t |-> t, id |-> i, mem |-> row]

\* update, remove: row i is loaded, and is to be saved as row, or deleted.
Loading(q, t, i, row, at) ==
  /\ t \in section /\ i \in There(t)
  /\ Start(q, Saving(at, t, i, row))
  /\ UNCHANGED cdata

Removing(q, t, at) == \E i \in There(t) : Loading(q, t, i, table[t][i], at)

\* TypeORM's save: SELECT and compare.
Select(q) ==
  /\ At(q, "select")
  /\ LET r    == req[q]
         diff == {c \in DOMAIN r.mem : table[r.t][r.id][c] # r.mem[c]}
     IN  IF r.id \notin There(r.t) THEN Go(q, [r EXCEPT !.at = "insertAgain"])
         ELSE IF diff = {} THEN Answer(q)
         ELSE Go(q, [at |-> "update", t |-> r.t, id |-> r.id, mem |-> r.mem,
                     dirty |-> diff])
  /\ UNCHANGED cdata

\* UPDATE of what differed, of no row if it is gone by now.
Update(q) ==
  /\ At(q, "update")
  /\ LET r   == req[q]
         row == [c \in DOMAIN r.mem |->
                   IF c \in r.dirty THEN r.mem[c] ELSE table[r.t][r.id][c]]
     IN  table' = IF r.id \in There(r.t) /\ Refers(r.t, row)
                  THEN [table EXCEPT ![r.t] = With(@, r.id, row)] ELSE table
  /\ Answer(q)
  /\ UNCHANGED <<section, issued, booked>>

\* INSERT, with its old id, of a row that was gone when save looked for it.
InsertAgain(q) ==
  /\ At(q, "insertAgain")
  /\ LET r == req[q] IN
     table' = IF r.id \notin There(r.t) /\ Refers(r.t, r.mem)
              THEN [table EXCEPT ![r.t] = With(@, r.id, r.mem)] ELSE table
  /\ Answer(q)
  /\ UNCHANGED <<section, issued, booked>>

\* DELETE, refused while another row needs this one.
Delete(q) ==
  /\ At(q, "delete")
  /\ LET r == req[q] IN
     table' = IF r.id \in There(r.t) /\ ~Needed(r.t, r.id) THEN Deleted(r.t, r.id) ELSE table
  /\ Answer(q)
  /\ UNCHANGED <<section, issued, booked>>

-----------------------------------------------------------------------------
(* Categories and their services.                                          *)

CreateCategory(q) == \E row \in Category : Creating(q, "categories", row)
CreateService(q)  == \E row \in Service : Creating(q, "services", row)

UpdateCategory(q) ==
  \E i \in There("categories"), row \in Category : Loading(q, "categories", i, row, "select")

UpdateService(q) ==
  \E i \in There("services"), row \in Service :
    Refers("services", row) /\ Loading(q, "services", i, row, "select")

\* remove looks for uses first.
RemoveCategory(q) == Removing(q, "categories", "uses")
RemoveService(q)  == Removing(q, "services", "uses")

\* Rows of which remove must say "so it was deactivated instead of deleted".
Used(t, i) ==
  \/ t = "categories" /\ Needed(t, i)
  \/ t = "services"   /\ i \in booked

\* Mutant: a service that bookings use loses its prices before it is kept.
CountTooLate(q) ==
  /\ At(q, "uses")
  /\ LET r == req[q] IN
     IF r.t = "services"   THEN Go(q, [r EXCEPT !.at = "deletePrices"])
     ELSE Go(q, [r EXCEPT !.at = "delete"])
  /\ UNCHANGED cdata

CountUses(q) ==
  /\ At(q, "uses")
  /\ LET r == req[q] IN
     IF Used(r.t, r.id)
     THEN IF r.mem.active THEN Go(q, [r EXCEPT !.at = "select", !.mem.active = FALSE])
                          ELSE Answer(q)
     ELSE IF r.t = "services" THEN Go(q, [r EXCEPT !.at = "deletePrices"])
     ELSE Go(q, [r EXCEPT !.at = "delete"])
  /\ UNCHANGED cdata

\* A service's prices go first.
DeletePrices(q) ==
  /\ At(q, "deletePrices")
  /\ table' = [table EXCEPT !.prices =
       Without(@, {p \in There("prices") : @[p].service = req[q].id})]
  /\ Go(q, [req[q] EXCEPT !.at = "delete"])
  /\ UNCHANGED <<section, issued, booked>>

-----------------------------------------------------------------------------
(* Prices.                                                                 *)

\* Mutant: only an update looks for a clash.
CreateUnchecked(q) == \E row \in Price : Creating(q, "prices", row)

CreatePrice(q) == \E row \in Price : ~Clash(NoId, row) /\ Creating(q, "prices", row)

\* An active price has yet to be compared with the others.
UpdatePrice(q) ==
  \E i \in There("prices"), row \in Price :
    /\ Refers("prices", row)
    /\ Loading(q, "prices", i, row, IF row.active THEN "clash" ELSE "select")

\* assertNoActiveClash.
CheckClash(q) ==
  /\ At(q, "clash")
  /\ LET r == req[q] IN
     IF Clash(r.id, r.mem) THEN Answer(q) ELSE Go(q, [r EXCEPT !.at = "select"])
  /\ UNCHANGED cdata

\* "Never hard deleted": a price is deactivated.
DeactivatePrice(q) ==
  \E i \in There("prices") :
    /\ table["prices"][i].active
    /\ Loading(q, "prices", i, [table["prices"][i] EXCEPT !.active = FALSE], "select")

-----------------------------------------------------------------------------
(* The home screen, and societies; all are deleted outright.               *)

CreateHomeCategory(q) == \E row \in HomeCategory : Creating(q, "homeCategories", row)
CreateOption(q)       == \E row \in HomeOption : Creating(q, "options", row)
CreateSociety(q)      == \E row \in Society : Creating(q, "societies", row)

CreateCard(q) ==
  \E row \in HomeCard : LinksValid(row.category, row.option) /\ Creating(q, "popular", row)

UpdateHomeCategory(q) ==
  \E i \in There("homeCategories"), row \in HomeCategory :
    Loading(q, "homeCategories", i, row, "select")

\* An option stays in its category.
UpdateOption(q) ==
  \E i \in There("options") : Loading(q, "options", i, table["options"][i], "select")

\* A card's links are checked as far as the request gives them.
UpdateCard(q) ==
  \E i \in There("popular"), row \in HomeCard, given \in SUBSET {"category", "option"} :
    /\ \A c \in {"category", "option"} \ given : row[c] = table["popular"][i][c]
    /\ LinksValid(IF "category" \in given THEN row.category ELSE NoId,
                  IF "option" \in given THEN row.option ELSE NoId)
    /\ Loading(q, "popular", i, row, "select")

UpdateSociety(q) ==
  \E i \in There("societies"), row \in Society : Loading(q, "societies", i, row, "select")

RemoveHomeCategory(q) == Removing(q, "homeCategories", "delete")
RemoveOption(q)       == Removing(q, "options", "delete")
RemoveCard(q)         == Removing(q, "popular", "delete")
RemoveSociety(q)      == Removing(q, "societies", "delete")

-----------------------------------------------------------------------------
(* A booking is placed.                                                    *)

\* priceItems: an active service with an active price for the area, or for
\* any; with several active ones it charges any of them.
Book(q) ==
  /\ "prices" \in section
  /\ \E area \in PriceArea \cup {NoId}, p \in There("prices") :
       LET row == table["prices"][p] IN
       /\ row.active /\ row.area \in {area, NoId}
       /\ table["services"][row.service].active
       /\ Start(q, [at |-> "book", service |-> row.service])
  /\ UNCHANGED cdata

\* The booking's item, whose service must still exist.
InsertItem(q) ==
  /\ At(q, "book")
  /\ booked' = IF req[q].service \in There("services") THEN booked \cup {req[q].service}
                                                      ELSE booked
  /\ Answer(q)
  /\ UNCHANGED <<section, table, issued>>

CatalogueCrash(q) == Die(q) /\ UNCHANGED cdata

-----------------------------------------------------------------------------
\* The routes of each controller.
CategoryRoutes(q) == CreateCategory(q) \/ UpdateCategory(q) \/ RemoveCategory(q)
ServiceRoutes(q)  == CreateService(q) \/ UpdateService(q) \/ RemoveService(q)
PriceRoutes(q)    == CreatePrice(q) \/ UpdatePrice(q) \/ DeactivatePrice(q)
HomeRoutes(q) ==
  \/ CreateHomeCategory(q) \/ UpdateHomeCategory(q) \/ RemoveHomeCategory(q)
  \/ CreateOption(q) \/ UpdateOption(q) \/ RemoveOption(q)
  \/ CreateCard(q) \/ UpdateCard(q) \/ RemoveCard(q)
SocietyRoutes(q)  == CreateSociety(q) \/ UpdateSociety(q) \/ RemoveSociety(q)

\* The later statements of a handler.
CatalogueStatement(q) ==
  \/ Insert(q) \/ Select(q) \/ Update(q) \/ InsertAgain(q) \/ Delete(q)
  \/ CheckClash(q) \/ CountUses(q) \/ DeletePrices(q) \/ InsertItem(q)

CatalogueNext == \E q \in Requests :
  \/ CategoryRoutes(q) \/ ServiceRoutes(q) \/ PriceRoutes(q)
  \/ HomeRoutes(q) \/ SocietyRoutes(q)
  \/ Book(q) \/ CatalogueStatement(q) \/ CatalogueCrash(q)

CatalogueSpec == CatalogueInit /\ [][CatalogueNext]_cvars

-----------------------------------------------------------------------------
(* Properties.                                                             *)

ActiveFor(service, area) ==
  {p \in There("prices") : table["prices"][p] = [service |-> service, area |-> area,
                                                active |-> TRUE]}

\* Creating, moving or re-activating a price "must not create a second active
\* price for the same service + area pair": customers would be charged either.
\* Every overlap lets at most one through.
OneActivePrice ==
  \A s \in There("services"), area \in PriceArea \cup {NoId} :
    Cardinality(ActiveFor(s, area)) <= 1 + overlaps

\* "Never hard deleted — bookings quote historical prices from these rows" and
\* "deactivated instead of deleted": a deletion takes no price of a booked
\* service, and what it takes does not come back with the old id, which a save
\* would insert again.  Only an overlap does either: a booking that comes in
\* while its service is being removed, an update that has loaded the row.
DeletionsSound ==
  [][overlaps = 0 =>
       /\ \A p \in There("prices") :
            p \notin DOMAIN table'["prices"] => table["prices"][p].service \notin booked
       /\ \A t \in Tables : \A i \in 1..issued[t] :
            i \in DOMAIN table'[t] => i \in DOMAIN table[t]]_cvars
=============================================================================
