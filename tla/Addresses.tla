----------------------------- MODULE Addresses -----------------------------
(***************************************************************************)
(* One customer's address book.  One address is the default, and the       *)
(* customer's home zone is that address's zone.  A handler saves the       *)
(* address, clears the other addresses' flags and writes the home zone one *)
(* after the other, without a transaction.  A process that boots saves the *)
(* addresses that have no zone, as it has loaded them, the same way.       *)
(***************************************************************************)
EXTENDS Server, Sequences, FiniteSets, ZoneResolver

CONSTANTS
  Address,   \* ids of the customer's addresses
  Places,    \* where they may be
  Coverages  \* what the service areas may be when an address is resolved

VARIABLES
  addresses,  \* customer_addresses
  homeZone    \* customers.home_zone

book  == <<addresses, homeZone>>
bvars == <<server, book>>

\* What an address may resolve to.
Zone  == {NoZone}
           \cup UNION {Resolved(place, served) : place \in Places, served \in Coverages}
Entry == [zone: Zone, default: BOOLEAN]

\* Addresses a process has loaded at boot and not yet got to.
Loaded == UNION {[S -> Entry] : S \in SUBSET Address}
Nothing   == [a \in {} |-> NoZone]

\* A request's step, the steps that follow it, and the address it has loaded.
AddressStep ==
  {Idle}
    \cup [at: {"insert"}, default: BOOLEAN]
    \cup [at: {"clear", "compare", "home", "insertAgain"}, rest: Seq({"clear", "compare", "home"}),
          key: Address, mem: Entry, left: Loaded]
    \cup [at: {"write"}, rest: Seq({"clear", "compare", "home"}), key: Address,
          mem: Entry, left: Loaded, dirty: SUBSET {"zone", "default"}]
    \cup [at: {"backfill"}, left: Loaded]
    \cup [at: {"delete"}, key: Address, default: BOOLEAN]
    \cup [at: {"promote", "homeless"}]

Present  == DOMAIN addresses
Defaults == {a \in Present : addresses[a].default}

AddressTypeOK ==
  /\ Present \subseteq Address /\ addresses \in [Present -> Entry]
  /\ homeZone \in Zone
  /\ req \in [Requests -> AddressStep] /\ overlaps \in Nat /\ deaths \in Nat

AddressInit ==
  /\ ServerInit
  /\ addresses = [a \in {} |-> NoZone] /\ homeZone = NoZone

-----------------------------------------------------------------------------
Task(at, rest, key, mem, left) ==
  [at |-> at, rest |-> rest, key |-> key, mem |-> mem, left |-> left]

Work(at, rest, key, mem) == Task(at, rest, key, mem, Nothing)

\* The request is done with a step of r.
Onward(q, r) ==
  IF r.rest # <<>> THEN Go(q, Task(Head(r.rest), Tail(r.rest), r.key, r.mem, r.left))
  ELSE IF r.left # Nothing THEN Go(q, [at |-> "backfill", left |-> r.left])
  ELSE Answer(q)

\* create counts the addresses first: "the very first address is always the
\* default one".
CreateAddress(q) ==
  /\ \E default \in BOOLEAN :
       Start(q, [at |-> "insert", default |-> default \/ Present = {}])
  /\ UNCHANGED book

InsertAddress(q) ==
  /\ At(q, "insert")
  /\ \E a \in Address \ Present, zone \in Zone :
       LET row == [zone |-> zone, default |-> req[q].default]
       IN  /\ addresses' = [b \in Present \cup {a} |->
                              IF b = a THEN row ELSE addresses[b]]
           /\ IF row.default THEN Go(q, Work("clear", <<"home">>, a, row))
                             ELSE Answer(q)
  /\ UNCHANGED homeZone

\* update: the zone is resolved again; of a default, the others' flags are
\* cleared after the save.
UpdateAddress(q) ==
  /\ \E a \in Present, zone \in Zone, default \in BOOLEAN :
       Start(q, Work("compare", IF default THEN <<"clear", "home">> ELSE <<>>, a,
                     [zone |-> zone, default |-> default]))
  /\ UNCHANGED book

\* Mutant: the others keep their flags.
SetDefaultToo(q) ==
  /\ \E a \in Present :
       Start(q, Work("compare", <<"home">>, a, [addresses[a] EXCEPT !.default = TRUE]))
  /\ UNCHANGED book

\* setDefault: the others' flags are cleared before the save.
SetDefault(q) ==
  /\ \E a \in Present :
       Start(q, Work("clear", <<"compare", "home">>, a,
                     [addresses[a] EXCEPT !.default = TRUE]))
  /\ UNCHANGED book

\* clearOtherDefaults: one UPDATE.
ClearOthers(q) ==
  /\ At(q, "clear")
  /\ addresses' = [a \in Present |->
       IF a = req[q].key THEN addresses[a] ELSE [addresses[a] EXCEPT !.default = FALSE]]
  /\ Onward(q, req[q])
  /\ UNCHANGED homeZone

\* TypeORM's save: SELECT and compare.
SelectAddress(q) ==
  /\ At(q, "compare")
  /\ LET r    == req[q]
         diff == {c \in {"zone", "default"} : addresses[r.key][c] # r.mem[c]}
     IN  IF r.key \notin Present THEN Go(q, [r EXCEPT !.at = "insertAgain"])
         ELSE IF diff = {} THEN Onward(q, r)
         ELSE Go(q, [at |-> "write", rest |-> r.rest, key |-> r.key,
                     mem |-> r.mem, left |-> r.left, dirty |-> diff])
  /\ UNCHANGED book

\* UPDATE of what differed; nothing happens if the row is gone by now.
WriteAddress(q) ==
  /\ At(q, "write")
  /\ LET r == req[q]
     IN  addresses' = [a \in Present |->
           [c \in {"zone", "default"} |->
              IF a = r.key /\ c \in r.dirty THEN r.mem[c] ELSE addresses[a][c]]]
  /\ Onward(q, req[q])
  /\ UNCHANGED homeZone

\* INSERT of an address that was gone when save looked for it.
InsertAgain(q) ==
  /\ At(q, "insertAgain")
  /\ addresses' = [a \in Present \cup {req[q].key} |->
       IF a = req[q].key THEN req[q].mem ELSE addresses[a]]
  /\ Onward(q, req[q])
  /\ UNCHANGED homeZone

\* syncHomeZone.
SyncHomeZone(q) ==
  /\ At(q, "home")
  /\ homeZone' = req[q].mem.zone
  /\ Onward(q, req[q])
  /\ UNCHANGED addresses

\* remove, of an address no booking uses.
RemoveAddress(q) ==
  /\ \E a \in Present :
       Start(q, [at |-> "delete", key |-> a, default |-> addresses[a].default])
  /\ UNCHANGED book

DeleteAddress(q) ==
  /\ At(q, "delete")
  /\ addresses' = [a \in Present \ {req[q].key} |-> addresses[a]]
  /\ IF req[q].default THEN Go(q, [at |-> "promote"]) ELSE Answer(q)
  /\ UNCHANGED homeZone

\* Another address becomes the default: the newest, which may be any.
PromoteAddress(q) ==
  /\ At(q, "promote")
  /\ IF Present = {} THEN Go(q, [at |-> "homeless"])
     ELSE \E a \in Present :
            Go(q, Work("compare", <<"home">>, a, [addresses[a] EXCEPT !.default = TRUE]))
  /\ UNCHANGED book

ClearHomeZone(q) ==
  /\ At(q, "homeless")
  /\ homeZone' = NoZone
  /\ Answer(q)
  /\ UNCHANGED addresses

\* onModuleInit of the zone resolver loads the addresses without a zone.
BackfillZones(q) ==
  /\ Start(q, [at |-> "backfill",
               left |-> [a \in {b \in Present : addresses[b].zone = NoZone} |-> addresses[a]]])
  /\ UNCHANGED book

\* The next one: it may resolve to a zone now, and is saved as it was loaded;
\* of a default, the home zone follows.
BackfillNext(q) ==
  /\ At(q, "backfill")
  /\ LET left == req[q].left IN
     IF left = Nothing THEN Answer(q)
     ELSE \E a \in DOMAIN left, zone \in Zone :
            LET rest == [b \in DOMAIN left \ {a} |-> left[b]] IN
            IF zone = NoZone THEN Go(q, [at |-> "backfill", left |-> rest])
            ELSE Go(q, Task("compare", IF left[a].default THEN <<"home">> ELSE <<>>, a,
                            [left[a] EXCEPT !.zone = zone], rest))
  /\ UNCHANGED book

AddressCrash(q) == Die(q) /\ UNCHANGED book

AddressRoutes(q) == CreateAddress(q) \/ UpdateAddress(q) \/ SetDefault(q) \/ RemoveAddress(q)

AddressNext == \E q \in Requests :
  \/ AddressRoutes(q) \/ InsertAddress(q) \/ ClearOthers(q) \/ SelectAddress(q)
  \/ WriteAddress(q) \/ InsertAgain(q) \/ SyncHomeZone(q) \/ DeleteAddress(q)
  \/ PromoteAddress(q) \/ ClearHomeZone(q)
  \/ BackfillZones(q) \/ BackfillNext(q) \/ AddressCrash(q)

AddressSpec == AddressInit /\ [][AddressNext]_bvars

-----------------------------------------------------------------------------
(* Properties.                                                             *)

\* The "one default per customer" invariant, once every request is answered:
\* each overlap and each death adds at most one.  Where requests come one by
\* one and survive, the home zone is the default address's.
OneDefault ==
  Quiet =>
    /\ Cardinality(Defaults) <= 1 + overlaps + deaths
    /\ overlaps = 0 /\ deaths = 0 => \A a \in Defaults : homeZone = addresses[a].zone
=============================================================================
